------------------------------ MODULE MCFiling ------------------------------
(***************************************************************************)
(* Small instances of how mail is mirrored and filed: InboxSync in two     *)
(* sizes, TaxonomyTree in three, LabelWriteback in two.  A behaviour is one *)
(* of one part; the others hold nothing.                                   *)
(***************************************************************************)
EXTENDS InboxSync, TLC

CONSTANTS x1, x2, y1, y2, y3, z1, z2, letter, none

TwoThreads == {x1, x2}

VARIABLES
    part,  \* the part this behaviour is about
    role, edges, filed, ops, races,
    path, latest, name, made, carries, link, on, adding, jobs, run, adrift, edits, mishaps

treeVars  == <<role, edges, filed, ops, races>>
labelVars == <<path, latest, name, made, carries, link, on, adding, jobs, run, adrift, edits,
               mishaps>>

NoTree == role = 0 /\ edges = 0 /\ filed = 0 /\ ops = 0 /\ races = 0
NoLabels ==
    /\ path = 0 /\ latest = 0 /\ name = 0 /\ made = 0 /\ carries = 0 /\ link = 0 /\ on = 0
    /\ adding = 0 /\ jobs = 0 /\ run = 0 /\ adrift = 0 /\ edits = 0 /\ mishaps = 0

\* Mail comes to one of the threads and stores fail half-way.  In InboxSync itself it comes
\* to both, and a store is one step.
Torn == INSTANCE InboxSync WITH Tears <- TRUE

OneThread(h) == \A p, q \in DOMAIN h : h[p].thread = h[q].thread

\* Three folders and their edges.
Edged == INSTANCE TaxonomyTree WITH
    Editors <- {x1, x2}, Inbox <- "Inbox", CatchAll <- "Catch-all", Folders <- {y1, y2, y3},
    Fresh <- {}, Threads <- {}, Cap <- 9, MaxRaces <- 1, NoNode <- none

\* Folders come, up to the cap; the tree is imported and reset.
Growing == INSTANCE TaxonomyTree WITH
    Editors <- {x1, x2}, Inbox <- "Inbox", CatchAll <- "Catch-all", Folders <- {y1},
    Fresh <- {z1, z2}, Threads <- {}, Cap <- 2, MaxRaces <- 1, NoNode <- none

\* A thread is filed while folders are deleted.
Filing == INSTANCE TaxonomyTree WITH
    Editors <- {x1, x2}, Inbox <- "Inbox", CatchAll <- "Catch-all", Folders <- {y1},
    Fresh <- {z1}, Threads <- {letter}, Cap <- 2, MaxRaces <- 1, NoNode <- none

\* One folder is labelled through failures.
Failing == INSTANCE LabelWriteback WITH
    Folders <- {x1}, Threads <- {letter}, Paths <- {y1, y2}, MaxLabels <- 4,
    None <- none, MaxEdits <- 2, MaxMishaps <- 2

\* Two folders are labelled while they exchange names.
Renaming == INSTANCE LabelWriteback WITH
    Folders <- {x1, x2}, Threads <- {letter}, Paths <- {y1, y2, y3}, MaxLabels <- 4,
    None <- none, MaxEdits <- 3, MaxMishaps <- 0

\* A mailbox without mail.
NoMail ==
    /\ provider = "GMAIL" /\ history = <<>> /\ conn = FALSE
    /\ imported = {} /\ flagged = {} /\ torn = {} /\ unasked = {}
    /\ stored = [t \in Threads |-> {}] /\ asked = stored
    /\ doneAt = [t \in Threads |-> 0] /\ owedFrom = doneAt
    /\ cursor = NoCursor /\ expired = FALSE /\ sync = NoSync /\ faults = 0

FilingInit ==
    \/ /\ NoTree /\ NoLabels
       /\ \/ part = "torn" /\ Init
          \/ part = "mirror" /\ Init
    \/ /\ NoMail /\ NoLabels
       /\ \/ part = "edged" /\ Edged!Init
          \/ part = "growing" /\ Growing!Init
          \/ part = "filing" /\ Filing!Init
    \/ /\ NoMail /\ NoTree
       /\ \/ part = "failing" /\ Failing!Init
          \/ part = "renaming" /\ Renaming!Init

FilingNext ==
    /\ \/ /\ part = "torn" /\ Torn!Next /\ OneThread(history')
          /\ UNCHANGED <<treeVars, labelVars>>
       \/ part = "mirror" /\ Next /\ UNCHANGED <<treeVars, labelVars>>
       \/ part = "edged" /\ Edged!Next /\ UNCHANGED <<vars, labelVars>>
       \/ part = "growing" /\ Growing!Next /\ UNCHANGED <<vars, labelVars>>
       \/ part = "filing" /\ Filing!Next /\ UNCHANGED <<vars, labelVars>>
       \/ part = "failing" /\ Failing!Next /\ UNCHANGED <<vars, treeVars>>
       \/ part = "renaming" /\ Renaming!Next /\ UNCHANGED <<vars, treeVars>>
    /\ UNCHANGED part

filingVars == <<vars, treeVars, labelVars, part>>

FilingSpec == FilingInit /\ [][FilingNext]_filingVars

\* What x1 and x2 stand for is interchangeable (threads in one part, requests or folders
\* in others), and so are folders, or paths.
Symmetric ==
    Permutations({x1, x2}) \cup Permutations({y1, y2, y3})

-----------------------------------------------------------------------------
\* Rows mirror positions of the mailbox, edges join nodes that exist, labels have
\* distinct names, busy workers have active jobs, in every size.
FilingTypeOK ==
    /\ part \in {"torn", "mirror"} => TypeOK
    /\ part = "edged" => Edged!TreeTypeOK
    /\ part = "growing" => Growing!TreeTypeOK
    /\ part = "filing" => Filing!TreeTypeOK
    /\ part = "failing" => Failing!LabelsTypeOK
    /\ part = "renaming" => Renaming!LabelsTypeOK

\* Requests that overlap no other's write keep the folders a tree, and one pair that
\* overlaps closes no cycle the sorter can enter (taxonomy-edges.ts, sorter.ts).
FoldersStayTree ==
    /\ part = "edged" => Edged!LoneEditsKeepTree /\ Edged!DescentEnds
    /\ part = "growing" => Growing!LoneEditsKeepTree /\ Growing!DescentEnds

\* Requests that count, then create, pass the folder cap by one each (taxonomy-nodes.ts).
FolderCapOvershootBounded ==
    part = "growing" => Growing!FolderCapOvershootBounded

\* Deleting a folder strands no thread that a destination was named for (taxonomy-nodes.ts).
DeletionKeepsThreads ==
    [][part = "filing" => Filing!DeletionMovesThreads]_filingVars

\* A thread no job is due for carries the label of its folder alone, through failed
\* calls, dead workers, lost labels and renames (writeback-thread-label.ts).
LabelsFollowFolders ==
    /\ part = "failing" => Failing!LabelsFollowFolders
    /\ part = "renaming" => Renaming!LabelsFollowFolders
=============================================================================
