---------------------------- MODULE TaxonomyTree ----------------------------
(***************************************************************************)
(* The folder tree of a workspace (TaxonomyNode, TaxonomyEdge) under the   *)
(* requests that edit it: taxonomy-edges.ts, taxonomy-nodes.ts,            *)
(* taxonomy-import.ts, and the reset that wipes and seeds it again         *)
(* (workspace-ops.ts, inbox.ts).  The routes check first and write         *)
(* afterwards, in statements of their own, so a check is a step apart from *)
(* the write it guards.  Names, texts and positions are left out.          *)
(***************************************************************************)
EXTENDS Integers, FiniteSets

CONSTANTS
    Editors,         \* requests that may be under way at once
    Inbox, CatchAll, \* the nodes the workspace was seeded with
    Folders,         \* its other folders
    Fresh,           \* ids of the nodes to come (bound: nodes created)
    Threads,         \* threads that may be filed
    Cap,             \* MAX_TAXONOMY_NON_ROOT_NODES
    MaxRaces,        \* bound: pairs of tree writes that overlap
    NoNode

Nodes == {Inbox, CatchAll} \cup Folders \cup Fresh

VARIABLES
    role,   \* role[n]: what the node n is; a deleted id is not used again
    edges,  \* <<parent, child>> pairs, unique in the workspace
    filed,  \* filed[t]: the folder of t's latest classification
    ops,    \* ops[e]: the request e and what it has read
    races   \* history: pairs of tree writes, one between the other and its checks

vars == <<role, edges, filed, ops, races>>

Live == {n \in Nodes : role[n] \in {"root", "catchall", "folder"}}
NonRoot == {n \in Live : role[n] # "root"}
Unborn == {n \in Nodes : role[n] = "unborn"}

Idle == [at |-> "idle", source |-> NoNode, target |-> NoNode, into |-> NoNode,
         filled |-> FALSE, hung |-> FALSE, gone |-> FALSE, raced |-> 0, late |-> {}]

\* The nodes at or below n.
Below(E, n) ==
    LET grow[k \in 0 .. Cardinality(Nodes)] ==
            IF k = 0 THEN {n}
            ELSE LET N == grow[k - 1] IN N \cup {x[2] : x \in {y \in E : y[1] \in N}}
    IN grow[Cardinality(Nodes)]

Acyclic(E) == \A x \in E : x[1] \notin Below(E, x[2])

HasCycleIfLoop(E, source, target) ==   \* mutant: only a loop counts as a cycle
    source = target

\* hasCycle: an edge from source to target would close a cycle.
HasCycle(E, source, target) == source \in Below(E, target)

HasParent(E, n) == \E x \in E : x[2] = n

InsertableUnchecked(E, x) ==   \* mutant: no foreign keys
    x \notin E

\* An edge needs both its nodes, and is unique.
Insertable(E, x) == {x[1], x[2]} \subseteq Live /\ x \notin E

\* What a transfer file must be: a forest under the root r, with the
\* catch-all c a leaf that hangs from r or from nothing.
ValidTransfer(E, r, c) ==
    /\ \A x \in E : x[2] # r /\ x[1] # c /\ (x[2] = c => x[1] = r)
    /\ \A x, y \in E : x[2] = y[2] => x = y
    /\ Acyclic(E)

Init ==
    /\ role = [n \in Nodes |-> CASE n = Inbox -> "root" [] n = CatchAll -> "catchall"
                                 [] n \in Folders -> "folder" [] n \in Fresh -> "unborn"]
    /\ \E E \in SUBSET (({Inbox} \cup Folders) \X Folders) :
          ValidTransfer(E, Inbox, CatchAll) /\ edges = E \cup {<<Inbox, CatchAll>>}
    /\ filed = [t \in Threads |-> NoNode]
    /\ ops = [e \in Editors |-> Idle]
    /\ races = 0

\* The request e writes the tree: its write falls between the checks and the
\* write of every request under way.  An edge row that is removed stays gone
\* for the request that read it.
After(op, removed) ==
    IF op.at = "idle" THEN op
    ELSE [op EXCEPT !.raced = IF @ > MaxRaces THEN @ ELSE @ + 1,
                    !.gone = @ \/ <<op.source, op.target>> \in removed]

TreeWritten(e, removed, next) ==
    /\ ops' = [x \in Editors |-> IF x = e THEN next ELSE After(ops[x], removed)]
    /\ races' = races + ops[e].raced /\ races' <= MaxRaces

\* Removing edges is no race: it only ends what another request has read.
EdgesRemoved(e, removed, next) ==
    /\ edges' = edges \ removed
    /\ ops' = [x \in Editors |-> IF x = e THEN next
                 ELSE [ops[x] EXCEPT !.gone = @ \/ <<ops[x].source, ops[x].target>> \in removed]]
    /\ UNCHANGED races

Step(e, op) == ops' = [ops EXCEPT ![e] = op] /\ UNCHANGED races

-----------------------------------------------------------------------------
(* Edges: POST, PATCH and DELETE of taxonomy-edges.ts.                     *)

CanHold(source, target) ==
    /\ role[source] # "catchall"
    /\ role[target] = "catchall" => role[source] = "root"

ConnectReads(e, s, t) ==
    /\ ops[e].at = "idle"
    /\ {s, t} \subseteq Live /\ CanHold(s, t) /\ role[t] # "root"
    /\ <<s, t>> \notin edges /\ ~ HasParent(edges, t)
    /\ Step(e, [Idle EXCEPT !.at = "parentless", !.source = s, !.target = t])
    /\ UNCHANGED <<role, edges, filed>>

ConnectChecksCycle(e) ==
    /\ ops[e].at = "parentless"
    /\ Step(e, IF HasCycle(edges, ops[e].source, ops[e].target)
               THEN Idle ELSE [ops[e] EXCEPT !.at = "connecting"])
    /\ UNCHANGED <<role, edges, filed>>

\* The insert fails on a node that is gone and on an edge that exists.
ConnectWrites(e) ==
    /\ ops[e].at = "connecting"
    /\ LET x == <<ops[e].source, ops[e].target>> IN
         IF Insertable(edges, x)
         THEN edges' = edges \cup {x} /\ TreeWritten(e, {}, Idle)
         ELSE Step(e, Idle) /\ UNCHANGED edges
    /\ UNCHANGED <<role, filed>>

MoveReads(e, x, s) ==
    /\ ops[e].at = "idle"
    /\ x \in edges /\ s \in Live /\ s # x[1] /\ CanHold(s, x[2])
    /\ <<s, x[2]>> \notin edges
    /\ Step(e, [Idle EXCEPT !.at = "unmoved", !.source = x[1], !.target = x[2], !.into = s])
    /\ UNCHANGED <<role, edges, filed>>

MoveChecksCycle(e) ==
    /\ ops[e].at = "unmoved"
    /\ Step(e, IF HasCycle(edges, ops[e].into, ops[e].target)
               THEN Idle ELSE [ops[e] EXCEPT !.at = "moving"])
    /\ UNCHANGED <<role, edges, filed>>

\* One transaction: it rolls back when the edge it read is gone.
MoveWrites(e) ==
    /\ ops[e].at = "moving"
    /\ LET old == <<ops[e].source, ops[e].target>>
           new == <<ops[e].into, ops[e].target>>
       IN IF ~ ops[e].gone /\ Insertable(edges, new)
          THEN edges' = (edges \ {old}) \cup {new} /\ TreeWritten(e, {old}, Idle)
          ELSE Step(e, Idle) /\ UNCHANGED edges
    /\ UNCHANGED <<role, filed>>

\* The catch-all's edge is refused by the kind of its target, which never changes.
Disconnect(e, x) ==
    /\ ops[e].at = "idle"
    /\ x \in edges /\ role[x[2]] # "catchall"
    /\ EdgesRemoved(e, {x}, Idle)
    /\ UNCHANGED <<role, filed>>

-----------------------------------------------------------------------------
(* Nodes: POST and DELETE of taxonomy-nodes.ts.                            *)

CountsFoldersToo(e) ==   \* mutant: the cap itself still passes
    /\ ops[e].at = "idle"
    /\ Cardinality(NonRoot) <= Cap
    /\ Step(e, [Idle EXCEPT !.at = "counted"])
    /\ UNCHANGED <<role, edges, filed>>

CountsFolders(e) ==
    /\ ops[e].at = "idle"
    /\ Cardinality(NonRoot) < Cap
    /\ Step(e, [Idle EXCEPT !.at = "counted"])
    /\ UNCHANGED <<role, edges, filed>>

AddsFolder(e) ==
    /\ ops[e].at = "counted"
    /\ \E n \in Unborn : role' = [role EXCEPT ![n] = "folder"]
    /\ Step(e, Idle)
    /\ UNCHANGED <<edges, filed>>

DeleteReadsUncounted(e, n, d) ==   \* mutant: the classifications are not counted
    /\ ops[e].at = "idle"
    /\ role[n] = "folder" /\ d \in Live \cup {NoNode}
    /\ ~ \E x \in edges : x[1] = n
    /\ Step(e, [Idle EXCEPT !.at = "leaf", !.target = n, !.into = d,
                            !.hung = HasParent(edges, n)])
    /\ UNCHANGED <<role, edges, filed>>

\* The row is read with its counts, then the destination of its threads d, which may be
\* the folder itself.
DeleteReads(e, n, d) ==
    /\ ops[e].at = "idle"
    /\ role[n] = "folder" /\ d \in Live \cup {NoNode}
    /\ ~ \E x \in edges : x[1] = n
    /\ Step(e, [Idle EXCEPT !.at = "leaf", !.target = n, !.into = d,
                            !.hung = HasParent(edges, n),
                            !.filled = \E t \in Threads : filed[t] = n])
    /\ UNCHANGED <<role, edges, filed>>

\* Threads T arrive in the folder n, which a request may have emptied already.
Emptied(op) == op.at \in {"emptied", "cut"} \/ (op.at = "leaf" /\ ~ op.filled)

Arrive(op, T, n) ==
    IF op.target = n /\ Emptied(op) THEN [op EXCEPT !.late = @ \cup T] ELSE op

DeleteMovesThreads(e) ==
    /\ ops[e].at = "leaf"
    /\ LET d == ops[e].into
           moved == {t \in Threads : filed[t] = ops[e].target /\ ops[e].filled}
       IN IF moved # {} /\ d \notin Live \cup {NoNode}
          THEN Step(e, Idle) /\ UNCHANGED filed
          ELSE /\ filed' = [t \in Threads |-> IF t \in moved THEN d ELSE filed[t]]
               /\ ops' = [x \in Editors |-> IF x = e THEN [ops[e] EXCEPT !.at = "emptied"]
                                             ELSE Arrive(ops[x], moved, d)]
               /\ UNCHANGED races
    /\ UNCHANGED <<role, edges>>

DeleteCutsParents(e) ==
    /\ ops[e].at = "emptied"
    /\ EdgesRemoved(e, IF ops[e].hung THEN {x \in edges : x[2] = ops[e].target} ELSE {},
                    [ops[e] EXCEPT !.at = "cut"])
    /\ UNCHANGED <<role, filed>>

\* An edge restricts the delete; a classification is set to no folder by it.
DeleteRemoves(e) ==
    /\ ops[e].at = "cut"
    /\ Step(e, Idle)
    /\ IF ops[e].target \in Live /\ ~ \E x \in edges : ops[e].target \in {x[1], x[2]}
       THEN /\ role' = [role EXCEPT ![ops[e].target] = "gone"]
            /\ filed' = [t \in Threads |-> IF filed[t] = ops[e].target
                                           THEN NoNode ELSE filed[t]]
       ELSE UNCHANGED <<role, filed>>
    /\ UNCHANGED edges

\* The sorter or a person files t in n (the row needs n to exist).
Files(t, n) ==
    /\ n \in Live /\ filed[t] # n
    /\ filed' = [filed EXCEPT ![t] = n]
    /\ ops' = [e \in Editors |-> Arrive(ops[e], {t}, n)]
    /\ UNCHANGED <<role, edges, races>>

-----------------------------------------------------------------------------
(* The whole tree: an import replaces all but the root in one transaction; *)
(* a reset deletes everything in one, and seeds after it.                  *)

\* N and E are the nodes and edges of the file, c its catch-all; an old
\* folder's threads follow the mapping, or are sorted again.
Import(e, r, N, E, c) ==
    /\ ops[e].at = "idle"
    /\ role[r] = "root" /\ Cardinality(N) <= Cap
    /\ ValidTransfer(E, r, c)
    /\ role' = [n \in Nodes |-> CASE n = c -> "catchall" [] n \in N \ {c} -> "folder"
                                  [] n \in NonRoot -> "gone" [] OTHER -> role[n]]
    /\ edges' = E
    /\ \E to \in [NonRoot -> N \cup {NoNode}] :
          /\ \A n \in NonRoot : role[n] = "catchall" => to[n] = c
          /\ filed' = [t \in Threads |-> IF filed[t] \in NonRoot THEN to[filed[t]] ELSE NoNode]
    /\ TreeWritten(e, edges, Idle)

ResetWipes(e) ==
    /\ ops[e].at = "idle"
    /\ Cardinality(Unborn) >= 2
    /\ role' = [n \in Nodes |-> IF n \in Live THEN "gone" ELSE role[n]]
    /\ filed' = [t \in Threads |-> NoNode]
    /\ EdgesRemoved(e, edges, [Idle EXCEPT !.at = "wiped"])

\* ensureRootNode and ensureCatchAllNode: look, then create what is missing.
SeedLooksForRoot(e) ==
    /\ ops[e].at = "wiped"
    /\ \/ \E r \in Live : role[r] = "root" /\
             Step(e, [ops[e] EXCEPT !.at = "rooted", !.into = r])
       \/ /\ ~ \E r \in Live : role[r] = "root"
          /\ Step(e, [ops[e] EXCEPT !.at = "rootless"])
    /\ UNCHANGED <<role, edges, filed>>

SeedAddsRoot(e) ==
    /\ ops[e].at = "rootless"
    /\ \E r \in Unborn :
          /\ role' = [role EXCEPT ![r] = "root"]
          /\ TreeWritten(e, {}, [ops[e] EXCEPT !.at = "rooted", !.into = r])
    /\ UNCHANGED <<edges, filed>>

SeedLooksForCatchAll(e) ==
    /\ ops[e].at = "rooted"
    /\ Step(e, IF \E c \in Live : role[c] = "catchall"
               THEN Idle ELSE [ops[e] EXCEPT !.at = "catchless"])
    /\ UNCHANGED <<role, edges, filed>>

\* One transaction: it fails when the root it hangs the node on is gone.
SeedAddsCatchAll(e) ==
    /\ ops[e].at = "catchless"
    /\ \/ /\ ops[e].into \in Live
          /\ \E c \in Unborn : /\ role' = [role EXCEPT ![c] = "catchall"]
                               /\ edges' = edges \cup {<<ops[e].into, c>>}
          /\ TreeWritten(e, {}, Idle)
       \/ /\ ops[e].into \notin Live
          /\ Step(e, Idle) /\ UNCHANGED <<role, edges>>
    /\ UNCHANGED filed

\* The process that serves the request dies.
Crash(e) ==
    /\ ops[e].at # "idle"
    /\ Step(e, Idle)
    /\ UNCHANGED <<role, edges, filed>>

EdgeRequests(e) ==
    \/ \E s, t \in Nodes : ConnectReads(e, s, t)
    \/ ConnectChecksCycle(e) \/ ConnectWrites(e)
    \/ \E x \in edges, s \in Nodes : MoveReads(e, x, s)
    \/ MoveChecksCycle(e) \/ MoveWrites(e)
    \/ \E x \in edges : Disconnect(e, x)

NodeRequests(e) ==
    \/ CountsFolders(e) \/ AddsFolder(e)
    \/ \E n \in Nodes, d \in Nodes \cup {NoNode} : DeleteReads(e, n, d)
    \/ DeleteMovesThreads(e) \/ DeleteCutsParents(e) \/ DeleteRemoves(e)

TreeRequests(e) ==
    \/ \E r \in Live, N \in SUBSET Unborn : \E c \in N, E \in SUBSET ((N \cup {r}) \X N) :
          Import(e, r, N, E, c)
    \/ ResetWipes(e) \/ SeedLooksForRoot(e) \/ SeedAddsRoot(e)
    \/ SeedLooksForCatchAll(e) \/ SeedAddsCatchAll(e)

Next ==
    \/ \E e \in Editors : EdgeRequests(e) \/ NodeRequests(e) \/ TreeRequests(e) \/ Crash(e)
    \/ \E t \in Threads, n \in Nodes : Files(t, n)

Spec == Init /\ [][Next]_vars

-----------------------------------------------------------------------------
\* Edges join nodes that exist, and a request past a check holds what it read.
TreeTypeOK ==
    /\ role \in [Nodes -> {"root", "catchall", "folder", "unborn", "gone"}]
    /\ edges \subseteq Live \X Live
    /\ \A t \in Threads : filed[t] \in Live \cup {NoNode}
    /\ \A e \in Editors : ops[e].at \in {"parentless", "connecting", "unmoved", "moving", "leaf",
                                         "emptied", "cut"} => ops[e].target \in Nodes
    /\ races \in 0 .. MaxRaces

\* Requests that never overlap another's write keep the folders a tree: one
\* root at most and one catch-all, one parent for a folder and no cycle, the
\* catch-all a leaf under the root (the checks of taxonomy-edges.ts, which
\* look before they write and hold no lock).
LoneEditsKeepTree ==
    races = 0 =>
        /\ \A m, n \in Live : role[m] = role[n] /\ role[m] # "folder" => m = n
        /\ \A n \in Live : role[n] = "root" => \A c \in Live :
                role[c] = "catchall" => ValidTransfer(edges, n, c)

\* The sorter's descent from the root ends (sorter.ts, a loop with no visited
\* set): one pair of overlapping edits may cut a cycle off or give a folder
\* two parents, and neither is a cycle the root leads to.
DescentEnds ==
    races <= 1 =>
        \A r \in Live : role[r] = "root" =>
            Acyclic({x \in edges : x[1] \in Below(edges, r)})

\* The folder cap is passed by no more than the other requests under way
\* (taxonomy-nodes.ts counts, then creates; an import may fill it between).
FolderCapOvershootBounded == Cardinality(NonRoot) < Cap + Cardinality(Editors)

\* A deletion that names another folder for its threads leaves none without a
\* folder, but for one that arrived after they were counted or moved
\* (taxonomy-nodes.ts moves, then deletes, in statements of their own, and the
\* foreign key clears a late pointer without an error).  The route takes the
\* folder itself for a destination too, and then strands every thread of it.
DeletionMovesThreads ==
    \A e \in Editors :
        ops[e].at = "cut" /\ ops'[e].at = "idle" /\ ops[e].into \notin {NoNode, ops[e].target} =>
            \A t \in Threads : filed[t] # NoNode /\ filed'[t] = NoNode => t \in ops[e].late
=============================================================================
