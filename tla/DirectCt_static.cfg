SPECIFICATION Spec
CONSTANTS
    Source = {s1}
    Static = {s1}
    Reviewed = {s1}
    Horizon = 5
    MaxJobs = 3
    RangeSize = 3
    InitialBackfill = 2
    TileSize = 2
    AnswerSizes = {2}
    Cron = {c1}
    Worker = {w1}
    LeasesRunOut = TRUE
    OneInitialises = TRUE
SYMMETRY MCSymmetry
INVARIANTS
    EveryRangeCanBeFetched
