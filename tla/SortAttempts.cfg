SPECIFICATION Spec
CONSTANTS
    t1 = t1
    t2 = t2
    Threads <- One
    Kinds <- Mail
    Outcomes = {"SORTED"}
    LastWindow = 0
    Limit = 1
    Enforce = TRUE
    Concurrency = 1
    Tries = 3
    MaxStalls = 0
    MaxClassifyAttempts = 5
    MaxCrashes = 0
    MaxWaiting = 1
    Events = {"fault"}
PROPERTIES AttemptsCountPermanentFailures
CHECK_DEADLOCK FALSE
