\* A reserve of exactly the bytes that the first keypoint takes.
SPECIFICATION Spec
CONSTANTS
    Kinds = {"theora"}
    Reserves = {2}
    Interval = 2
    Duration = 4
    ContentOffset = 90
    Steps = {1, 3}
    PageSteps = {130}
    MaxPackets = 2
    MaxFragments = 1
INVARIANTS
    ReserveSuffices
