SPECIFICATION Spec
CONSTANTS
    t1 = t1
    t2 = t2
    Threads <- One
    Kinds <- Twice
    Outcomes = {"SORTED"}
    LastWindow = 1
    Limit = 1
    Enforce = TRUE
    Concurrency = 2
    Tries = 2
    MaxStalls = 1
    MaxClassifyAttempts = 2
    MaxCrashes = 2
    MaxWaiting = 1
    Events = {"fault", "bulk"}
INVARIANTS ChargedSortsLanded MeterCountsDistinctThreads
CHECK_DEADLOCK FALSE
