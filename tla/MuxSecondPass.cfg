\* Two passes (--two-pass): the second one starts with the counts of the first.
SPECIFICATION Spec
CONSTANTS
    NKate = 0
    Modes = {"video_only"}
    Passes = {1}
    FlushAt = 1
    EndTime = FALSE
    FrameTime = 2
    AudioTimes = {1, 3}
    KateGaps = {1, 3}
    MaxVideo = 2
    MaxAudio = 2
    MaxKate = 1
    MaxFragments = 1
INVARIANTS
    PkgIsPending
