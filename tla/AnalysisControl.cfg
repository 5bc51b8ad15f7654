SPECIFICATION FairSpec
CONSTANTS
    Endpoints = {"stream", "signal"}
    MaxConcurrent = 2
    MaxRuns = 2
    Window = 2
    MaxEntries = 1
    MaxRequests = 4
    MaxTime = 2
INVARIANTS
    SlotsConserved
    BudgetHolds
    StoreIsTrue
PROPERTIES
    EverySlotComesBack
CHECK_DEADLOCK FALSE
