SPECIFICATION FairSpec
CONSTANTS
    t1 = t1
    t2 = t2
    Threads <- One
    Kinds <- Import
    Outcomes = {"SORTED"}
    LastWindow = 0
    Limit = 1
    Enforce = TRUE
    Concurrency = 1
    Tries = 1
    MaxStalls = 0
    MaxClassifyAttempts = 1
    MaxCrashes = 0
    MaxWaiting = 1
    Events = {"move"}
PROPERTIES ImportedThreadsResort
CHECK_DEADLOCK FALSE
