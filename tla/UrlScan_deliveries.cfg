SPECIFICATION Spec
CONSTANTS
    a1 = a1
    Apex = {a1}
    Recurring = {a1}
    Request = {}
    Target <- MCTarget
    LastPage = 1
    MaxDay = 1
    DailyLimit = 2
    PriorityLimit = 1
    LastAttempt = 2
    MaxDeliveries = 2
    Cron = {c1}
    Client = {}
    Worker = {w1, w2}
    MaxFaults = 1
CHECK_DEADLOCK FALSE
SYMMETRY MCSymmetry
INVARIANTS
    QuotaCoversCharges
    ReadsArePaid
    NoPageIsSkipped
    AnnouncedIsStored
    PendingJobsAreCarried
