SPECIFICATION LiveSpec
CONSTANTS
    Apexes = 3
    Names = 3
    Undated = 1
    PageSize = 1
    BlockSize = 2
    MaxReads = 2
    Starts <- MCStarts
    MaxChanges = 1
    MaxSearches = 2
    WaitsForPages = TRUE
INVARIANTS
    
    PagesShowSteadyNamesOnce

    
