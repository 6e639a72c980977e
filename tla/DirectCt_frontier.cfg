SPECIFICATION Spec
CONSTANTS
    Source = {s1}
    Static = {}
    Reviewed = {}
    Horizon = 3
    MaxJobs = 2
    RangeSize = 3
    InitialBackfill = 2
    TileSize = 2
    AnswerSizes = {2}
    Cron = {c1}
    Worker = {w1, w2}
    LeasesRunOut = TRUE
    OneInitialises = TRUE
SYMMETRY MCSymmetry
INVARIANTS
    HandOverInv
    EveryEntryIsHandedOver
    

    
