SPECIFICATION AccountsSpec
CONSTANTS
    w1 = w1
    r1 = r1
    inbox = inbox
    s1 = s1
    s2 = s2
    None = none
    Subs = {s1}
    Workspaces = {w1}
    Callers = {"webhook", "page"}
    Doings = {"portal", "settings", "cancel", "workspace", "account"}
    MaxAccounts = 1
    MaxMishaps = 0
INVARIANTS OneTrialPerIdentity
PROPERTIES DeadGrantNoticed PushComesBack EndedPlanIsLeft OrphanedPlanEnds PaidPlanUnlocks
CHECK_DEADLOCK FALSE
