\* The decoder delays two frames: at the end of the input each of them is
\* encoded with the flag for the end.
SPECIFICATION Spec
CONSTANTS
    Jobs <- DelayJobs
    InputPackets <- MCPackets
    Passes = {0}
    FrameTime = 20
    ChunkSamples = 2
    Keyint = 64
    MaxPackets = 4
INVARIANTS
    EndedOnce
