SPECIFICATION Spec
CONSTANTS
    k1 = k1
    k2 = k2
    Subject = {s1}
    Key = {k1, k2}
    Units <- MCUnits
    Worker = {w1, w2}
    NoWorker = NoWorker
    Limit = 5
    SliceSize = 2
    MaxPending = 2
    MaxPendingPerSubject = 2
    MaxActivePerSubject = 1
    Retention = 0
    MaxDay = 1
    MaxSpent = 1
SYMMETRY MCSymmetry
INVARIANTS
    BatchInv
    QuotaIsExact
    SubjectsShareWorkers
PROPERTIES
    CancellationHolds
    KeepsTheContract
