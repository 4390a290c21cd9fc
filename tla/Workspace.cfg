SPECIFICATION WorkspaceSpec
CONSTANTS
    w1 = w1
    w2 = w2
    r1 = r1
    r2 = r2
    Workspaces <- TwoWorkspaces
    Workers <- TwoWorkers
    Mail = 3
    SentOnly <- Second
    Broken <- Nothing
    PageSize = 2
    Chunk = 1
    Cap = 2
    MaxResets = 1
    MaxFaults = 0
SYMMETRY Symmetric
INVARIANTS WorkspaceTypeOK DoneMeansScanned PoolOvershootBounded MetersFollowResults OneTextPerThread PlacementFollowsEvidence
CHECK_DEADLOCK FALSE
