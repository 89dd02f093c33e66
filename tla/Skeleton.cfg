\* Video, audio and two subtitle streams, with and without Skeleton, a seekable
\* output and a known duration. Bounds: pages of two segments, an index of one
\* to three, three content pages.
SPECIFICATION Spec
CONSTANTS
    NKate = 2
    Inputs <- MCInputs
    Options = {"none", "3", "4"}
    Outputs = {TRUE, FALSE}
    Durations = {TRUE, FALSE}
    PageSegments = 2
    IndexSegments = {1, 2, 3}
    MaxContent = 3
INVARIANTS
    TypeOK
    NumbersKept
    HeadersFirst
    HeaderTrue
PROPERTIES
    InPlace
