\* The three kinds of stream. Bounds: four packets of one or two segments on
\* pages of any segments; packets closer together than the interval and farther
\* apart; offsets that take two bytes; a reserve for one or two keypoints, and
\* the default one, which is for more than all.
SPECIFICATION Spec
CONSTANTS
    Kinds = {"theora", "vorbis", "kate"}
    Reserves = {6}
    Interval = 2
    Duration = 4
    ContentOffset = 90
    Steps = {1, 3}
    PageSteps = {130}
    MaxPackets = 4
    MaxFragments = 2
INVARIANTS
    TypeOK
    PageExists
    KeypointsExact
    Spaced
    Covers
    EnoughKeypoints
    Readable
    BytesCounted
    RangeHolds
