SPECIFICATION FairSpec
CONSTANTS
    t1 = t1
    t2 = t2
    Threads <- Two
    Kinds <- Quota
    Outcomes = {"SORTED"}
    LastWindow = 1
    Limit = 1
    Enforce = TRUE
    Concurrency = 2
    Tries = 1
    MaxStalls = 0
    MaxClassifyAttempts = 1
    MaxCrashes = 0
    MaxWaiting = 1
    Events = {"weak"}
INVARIANTS OvershootBounded
PROPERTIES ImplementsLedger DeferredEventuallyResumes
CHECK_DEADLOCK FALSE
