\* An end time and a gap in the decoding times of the input, in default settings.
SPECIFICATION Spec
CONSTANTS
    Jobs <- EndTimeJobs
    InputPackets <- MCPackets
    Passes = {0}
    FrameTime = 20
    ChunkSamples = 2
    Keyint = 64
    MaxPackets = 4
INVARIANTS
    EndHonoured
