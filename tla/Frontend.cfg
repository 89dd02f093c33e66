\* Bound: three videos are added. The window is closed at the end, so the system
\* stops.
SPECIFICATION Spec
CONSTANTS
    MaxItems = 3
CHECK_DEADLOCK FALSE
INVARIANTS
    TypeOK
    QueueShown
    OnceEach
    ClosedStops
PROPERTIES
    Served
