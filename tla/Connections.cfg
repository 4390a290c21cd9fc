SPECIFICATION ConnectionsSpec
CONSTANTS
    w1 = w1
    w2 = w2
    j1 = j1
    j2 = j2
    inbox = inbox
    other = other
    Workspaces <- TwoWorkspaces
    Mailboxes <- TwoMailboxes
    Workers <- TwoWorkers
    MaxGrants = 4
    MaxMishaps = 1
INVARIANTS ConnectionsTypeOK ToldOncePerConnection LastDisconnectRevokes PriorInboxErased
PROPERTIES SiblingKeepsItsGrant
CHECK_DEADLOCK FALSE
