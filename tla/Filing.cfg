SPECIFICATION FilingSpec
CONSTANTS
    Threads <- TwoThreads
    Recent = 1
    Tries = 1
    Sorting = TRUE
    Tears = FALSE
    MaxHistory = 3
    MaxFaults = 1
    x1 = x1
    x2 = x2
    y1 = y1
    y2 = y2
    y3 = y3
    z1 = z1
    z2 = z2
    letter = letter
    none = none
SYMMETRY Symmetric
INVARIANTS FilingTypeOK NoChangeLost DoneYieldsToNewMail ChangesSorted FoldersStayTree FolderCapOvershootBounded LabelsFollowFolders
PROPERTIES DeletionKeepsThreads
CHECK_DEADLOCK FALSE
