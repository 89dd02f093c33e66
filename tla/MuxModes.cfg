\* Every mode, one pass and two, streams that end in different iterations, and
\* two subtitle streams that compete.
SPECIFICATION FairSpec
CONSTANTS
    NKate = 2
    Modes = {"av", "video_only", "audio_only"}
    Passes = {0, 1}
    FlushAt = 1
    EndTime = TRUE
    FrameTime = 2
    AudioTimes = {1, 3}
    KateGaps = {1, 3}
    MaxVideo = 2
    MaxAudio = 2
    MaxKate = 1
    MaxFragments = 1
INVARIANTS
    PkgCounts
PROPERTIES
    KateFirst
    Finishes
