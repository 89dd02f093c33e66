\* An end time: video_eos is raised before audio_eos.
SPECIFICATION Spec
CONSTANTS
    NKate = 0
    Modes = {"av"}
    Passes = {0}
    FlushAt = 1
    EndTime = TRUE
    FrameTime = 2
    AudioTimes = {1, 3}
    KateGaps = {1, 3}
    MaxVideo = 2
    MaxAudio = 2
    MaxKate = 1
    MaxFragments = 1
PROPERTIES
    InOrder
