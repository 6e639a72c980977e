SPECIFICATION LiveSpec
CONSTANTS
    k1 = k1
    k2 = k2
    Subject = {s1}
    Key = {k1, k2}
    Units <- MCUnits
    Limit = 5
    RowSize = 2
    SliceSize = 2
    MaxFailures = 2
    MaxPending = 2
    MaxPendingPerToken = 2
    MaxDay = 1
    MaxRoot = 1
    MaxSpent = 1
    MaxFaults = 1
INVARIANTS
    QuotaIsExact
    ChunksTileTheRequest
    
    UnitsAddUp
PROPERTIES
    BatchesEnd
    KeepsTheContract
