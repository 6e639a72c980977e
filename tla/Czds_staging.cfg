SPECIFICATION LiveSpec
CONSTANTS
    Zone = {z1}
    Length = 2
    PageSize = 1
    Attempts = 2
    MaxDay = 1
    MaxJobs = 1
    MaxVersion = 1
    Cron = {c1}
    Stager = {s1, s2}
    MaxFaults = 2
    OneBegins = TRUE
CHECK_DEADLOCK FALSE
INVARIANTS
    StagedIsOneFile
    AnnouncedInFull
PROPERTIES
    AnnouncedIsImmutable
    JobsEnd
