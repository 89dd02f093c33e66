\* Every short file, every order of options, and three turns of the loop with
\* three streams (MCJobs). Bounds: lines, options and rounds of the jobs; pages
\* that jump by up to a second and a half.
SPECIFICATION Spec
CONSTANTS
    Jobs <- MCJobs
    Arrivals <- MCArrivals
    TimeSteps = {0, 1, 3}
INVARIANTS
    TypeOK
    Labelled
    RecordsRead
    NoneLost
    FedInTime
