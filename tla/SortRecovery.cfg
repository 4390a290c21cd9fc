SPECIFICATION FairSpec
CONSTANTS
    t1 = t1
    t2 = t2
    Threads <- One
    Kinds <- Recovery
    Outcomes = {"SORTED"}
    LastWindow = 0
    Limit = 2
    Enforce = TRUE
    Concurrency = 1
    Tries = 2
    MaxStalls = 0
    MaxClassifyAttempts = 2
    MaxCrashes = 1
    MaxWaiting = 1
    Events = {"fault", "auth"}
INVARIANTS TypeOK
PROPERTIES StuckPendingRecovers FailedEventuallySorted
CHECK_DEADLOCK FALSE
