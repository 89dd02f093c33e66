\* Video and audio in one pass without an end time, with one subtitle stream.
\* Bounds: three packets each, of up to two fragments; FlushAt = 1 makes the
\* 23-packet rule fire at the second waiting packet.
SPECIFICATION Spec
CONSTANTS
    NKate = 1
    Modes = {"av"}
    Passes = {0}
    FlushAt = 1
    EndTime = FALSE
    FrameTime = 2
    AudioTimes = {0, 3}
    KateGaps = {3}
    MaxVideo = 3
    MaxAudio = 3
    MaxKate = 1
    MaxFragments = 2
INVARIANTS
    TypeOK
    Conservation
    BoundedBacklog
    Drained
PROPERTIES
    InOrder
    Reliable
