SPECIFICATION Spec
CONSTANTS
    t1 = t1
    t2 = t2
    Threads <- One
    Recent = 1
    Tries = 2
    Sorting = TRUE
    Tears = FALSE
    MaxHistory = 3
    MaxFaults = 1
INVARIANTS ResortAfterRetry
CHECK_DEADLOCK FALSE
