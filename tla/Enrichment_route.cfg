SPECIFICATION RouteSpec
CONSTANTS
    a1 = a1
    Apex = {a1}
    Recurring = {}
    Request = {r1, r2}
    Target <- MCTarget
    LastPage = 0
    MaxDay = 1
    DailyLimit = 1
    PriorityLimit = 1
    LastAttempt = 1
    MaxDeliveries = 1
    Cron = {}
    Client = {e1, e2}
    Worker = {w1}
    MaxFaults = 1
    Allowance = 2
CHECK_DEADLOCK FALSE
SYMMETRY MCSymmetry
INVARIANTS
    NoChargeForNothing
    AdmittedIsChargedIfPostedInTurn
