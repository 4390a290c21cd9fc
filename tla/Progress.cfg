SPECIFICATION ProgressSpec
CONSTANTS
    w1 = w1
    r1 = r1
    r2 = r2
    t1 = t1
    panel = panel
    background = background
    Contexts <- BothContexts
    MaxTokens = 3
    MaxUpsets = 1
INVARIANTS OneUnusedToken
PROPERTIES SessionEndsForCause BackfillFinishes ChangesReachCursor ClientLeavesDeadSession
CHECK_DEADLOCK FALSE
