---------------------------- MODULE MCConnections ----------------------------
(***************************************************************************)
(* A small instance of the connections of two workspaces: a behaviour is   *)
(* one in which they share a mailbox, one in which two jobs meet the       *)
(* failures of one mailbox, one in which a workspace changes its mailbox   *)
(* while a job runs, or one in which a workspace changes its mailbox while *)
(* its grant is widened and a sibling stays with the mailbox left.         *)
(***************************************************************************)
EXTENDS Connections, TLC

CONSTANTS w1, w2, j1, j2, inbox, other

TwoWorkspaces == {w1, w2}
TwoMailboxes  == {inbox, other}
TwoWorkers    == {j1, j2}

VARIABLE part  \* what the behaviour is about

Apart(w)   == conn'[w] = NoRow
Unused(m)  == \A g \in Grants : grants'[g].mail # m
Resting(j) == job'[j].at = "idle"
Minting(n) == \A g \in Grants : g > n => grants'[g].mail = NoMailbox
FromApi    == \A w \in Workspaces : ~link'[w].web
NoPush     == \A w \in Workspaces : reg[w] = "call" => reg'[w] = "call"

\* The sibling w2 is connected first, with grant 1; w1 connects with grant 2, then changes
\* its mailbox and widens its grant with the others.  One of them disconnects at a time.
Crossing ==
    /\ grants'[2].mail # NoMailbox => conn[w2].mail = inbox /\ link[w2] = NoLink
    /\ link'[w2].token \in {0, 1} /\ upgrade'[w2] = Idle
    /\ \/ link'[w1].token \in {0, 2} /\ link'[w1].mail # other
       \/ link'[w1].token \in {3, 4} /\ link'[w1].mail = other
    /\ upgrade'[w1].token \in {0, 3, 4}
    /\ \E w \in {w1, w2} : disc'[w] = Idle
    /\ mishaps' = 0

ConnectionsInit == Init /\ part \in {"shared", "racing", "rotating", "crossing"}

ConnectionsNext ==
    /\ Next
    /\ \/ part = "shared" /\ Unused(other) /\ Resting(j1) /\ Resting(j2) /\ FromApi /\ Minting(2)
       \/ part = "racing" /\ Unused(other) /\ Apart(w2) /\ FromApi /\ Minting(2)
       \/ part = "rotating" /\ Apart(w2) /\ upgrade'[w1] = Idle /\ Resting(j2) /\ Minting(2)
       \/ part = "crossing" /\ Crossing /\ Resting(j1) /\ Resting(j2) /\ FromApi
    /\ NoPush
    /\ UNCHANGED part

connectionsVars == <<vars, part>>

ConnectionsSpec == ConnectionsInit /\ [][ConnectionsNext]_connectionsVars
=============================================================================
