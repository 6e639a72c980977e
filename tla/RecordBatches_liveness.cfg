SPECIFICATION LiveSpec
CONSTANTS
    k1 = k1
    k2 = k2
    Subject = {s1}
    Key = {k1, k2, k3}
    Units <- MCUnits
    Worker = {w1, w2}
    NoWorker = NoWorker
    Limit = 4
    SliceSize = 1
    MaxPending = 3
    MaxPendingPerSubject = 3
    MaxActivePerSubject = 1
    Retention = 0
    MaxDay = 0
    MaxSpent = 0
PROPERTIES
    BatchesEnd
