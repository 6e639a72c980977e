SPECIFICATION SeededSpec
CONSTANTS
    d1 = d1
    d2 = d2
    p1 = p1
    p2 = p2
    Delta = {d1, d2}
    Prefix = {p1}
    PrefixesOf <- MCPrefixesOf
    MaxGenerations = 2
    DeltaLimit = 2
    MaxReduceDeltas = 2
    Cron = {c1, c2}
    Worker = {w1, w2}
    Admin = {}
    NoWorker = NoWorker
    RollbackAllowed = FALSE
    ConsumersDrain = TRUE
SYMMETRY MCSymmetry
INVARIANTS
    CandidatesAreBasePlusDeltas
PROPERTIES
    ReducedObjectsAreImmutable
    ReducedIsFinal
