SPECIFICATION Spec
CONSTANTS
    d1 = d1
    d2 = d2
    p1 = p1
    p2 = p2
    Delta = {d1, d2}
    Prefix = {p1, p2}
    PrefixesOf <- MCPrefixesOf
    MaxGenerations = 2
    DeltaLimit = 1
    MaxReduceDeltas = 2
    Cron = {c1}
    Worker = {w1}
    Admin = {a1}
    NoWorker = NoWorker
    RollbackAllowed = TRUE
    ConsumersDrain = TRUE
SYMMETRY MCSymmetry
INVARIANTS
    MapPhaseInv
    OnlyActivatedIsVisible
    RootIsNotWithdrawn
PROPERTIES
    ImplementsCatalog
