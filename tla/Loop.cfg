\* Audio, video or both, one pass and two, with and without start and end time
\* (MCJobs). Bounds: three packets of twelve kinds (MCPackets); a frame lasts
\* twenty units of time; two duplicates are too many for the encoder.
SPECIFICATION FairSpec
CONSTANTS
    Jobs <- MCJobs
    InputPackets <- MCPackets
    Passes = {0, 1}
    FrameTime = 20
    ChunkSamples = 2
    Keyint = 2
    MaxPackets = 3
INVARIANTS
    TypeOK
    FramesInOrder
    InSync
    PassesAgree
    AudioOnce
    StreamsEnded
PROPERTIES
    Terminates
