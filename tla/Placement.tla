----------------------------- MODULE Placement -----------------------------
(***************************************************************************)
(* Where the sorter puts a thread: the gate, the comparison of branches    *)
(* and the descent of sortThreadByEmbedding (sorter.ts) in the production  *)
(* mode, scale-invariant and centered, then the automated-mail policy and  *)
(* the status of the worker (classify-thread.ts).                          *)
(*                                                                         *)
(* Similarities are integers, in units of SOFTMAX_TEMPERATURE * ln 2: the  *)
(* softmax weight of a score s is then 2^s, and every comparison is exact. *)
(* Inside a behaviour nothing changes them; a folder's references are part *)
(* of its similarity.  The model's answers are arbitrary.                  *)
(***************************************************************************)
EXTENDS Integers, FiniteSets, FiniteSetsExt

CONSTANTS
    Last,       \* folders are 1 .. Last, each numbered after its parent
    Sims,       \* similarities a folder may have
    ThetaMin,   \* CENTERED_ROUTING_CONFIG.thetaMin in these units, rounded up
    TopK        \* TOP_K_LLM_CANDIDATES

Root    == 0
None    == -1
Folders == 1 .. Last

VARIABLES
    parent,     \* parent[f]: the source of the edge into f
    sim,        \* sim[f]: rawSims, of the description or the best reference
    catchAll,   \* the catch-all folder, or None
    automated,  \* suppressLlmEscalation: bulk mail never asks the model
    phase,      \* where the call stands
    here,       \* currentNodeId
    result      \* what is decided

vars == <<parent, sim, catchAll, automated, phase, here, result>>
thread == <<parent, sim, catchAll, automated>>

NoResult == [node |-> None, source |-> "none", cause |-> "none", status |-> "PENDING"]

Init ==
    /\ parent \in {p \in [Folders -> {Root} \cup Folders] : \A f \in Folders : p[f] < f}
    /\ sim \in [Folders -> Sims]
    /\ catchAll \in {None} \cup Folders
    /\ automated \in BOOLEAN
    /\ phase = "gate" /\ here = Root /\ result = NoResult

-----------------------------------------------------------------------------
(* What is computed from the edges and the similarities.                   *)

\* The catch-all and its edges are filtered out of everything the sorter reads.
Routable    == Folders \ {catchAll}
Children(n) == {c \in Routable : parent[c] = n}
Sim(n)      == IF n = Root THEN 0 ELSE sim[n]

\* The folders of n's subtree, and those of them that have no children.
Subtree(n) ==
    LET below[d \in 0 .. Last] ==
            IF d = 0 THEN {n} ELSE UNION {{m} \cup Children(m) : m \in below[d - 1]}
    IN  below[Last]
Leaves(n) == {m \in Subtree(n) : Children(m) = {}}

ScoreOfNode(n) == Sim(n)   \* mutant: what lies below a folder is not propagated

\* computeSubtreeScores with LAMBDA_DEPTH_DECAY = 1.
Score(n) == Max({Sim(m) : m \in Subtree(n)})

Count   == Cardinality(Routable)
Total   == MapThenSumSet(LAMBDA f : sim[f], Routable)
Squares == MapThenSumSet(LAMBDA f : sim[f] * sim[f], Routable)

\* Count^2 * sigmaSim^2.
Variance == Count * Squares - Total * Total

\* gap / sigmaSim < 1/2: too close to call. sigmaSim has a floor, below all other gaps.
TooClose(gap) == gap = 0 \/ 4 * gap * gap * Count * Count < Variance

\* Not below the mean of the similarities.
Contends(x) == Count * x >= Total

\* gap / sigmaSim > 1/2.
Clear(gap) == gap > 0 /\ 4 * gap * gap * Count * Count > Variance

\* Subsets of S that slicing its order by f to TopK may leave.
Top(S, f(_)) ==
    {T \in kSubset(Min({TopK, Cardinality(S)}), S) : \A a \in T, b \in S \ T : f(a) >= f(b)}

-----------------------------------------------------------------------------
(* How a call ends.                                                        *)

Ends(node, source, cause) ==
    /\ result' = [NoResult EXCEPT !.node = node, !.source = source, !.cause = cause]
    /\ phase' = "decided"
    /\ UNCHANGED <<thread, here>>

Fallback(cause) == Ends(None, "inbox_fallback", cause)

\* The traversal halts: at the root the thread stays in the inbox.
Stop == Ends(here, IF here = Root THEN "embedding_inbox" ELSE "embedding_auto", "none")

Descend(c) == here' = c /\ UNCHANGED <<thread, phase, result>>

\* The job's attempt fails, for BullMQ to try again.
Throw ==
    /\ phase' = "thrown"
    /\ UNCHANGED <<thread, here, result>>

\* The model declines, answers what does not validate, or throws: rethrown unless this is
\* the last attempt.
NoAnswer == Fallback("llm_declined") \/ Fallback("llm_error") \/ Throw

-----------------------------------------------------------------------------
(* The steps.                                                              *)

\* An embedding call may throw, or return nothing for the thread.
EmbedFails ==
    /\ phase = "gate"
    /\ Throw \/ Fallback("embedding_failed")

\* Step 6: the best score that can be reached from the root.
Gate ==
    /\ phase = "gate"
    /\ IF Score(Root) < ThetaMin
       THEN Fallback("quality_gate")
       ELSE phase' = "branches" /\ UNCHANGED <<thread, here, result>>

\* The two best branches are too close to call, and the second is a contender.
CrossBranchAmbiguous ==
    \E a, b \in Children(Root) :
        /\ a # b
        /\ \A c \in Children(Root) \ {a, b} : Score(c) <= Score(b)
        /\ Score(a) >= Score(b) /\ TooClose(Score(a) - Score(b))
        /\ Contends(Score(b))

\* The model is asked to choose among the best leaves below the branches.
AskForLeaf(branches) ==
    \/ \E offered \in Top(UNION {Leaves(b) : b \in branches}, Sim) :
          \E f \in offered : Ends(f, "llm", "none")
    \/ NoAnswer

\* Step 8.
CompareBranches ==
    /\ phase = "branches"
    /\ IF CrossBranchAmbiguous /\ ~automated
       THEN \E branches \in Top(Children(Root), Score) : AskForLeaf(branches)
       ELSE phase' = "descent" /\ UNCHANGED <<thread, here, result>>

\* Step 9: no children.
StopAtLeaf ==
    /\ phase = "descent" /\ Children(here) = {}
    /\ Stop

\* An only child is entered when it clearly beats its parent; else the model is asked,
\* or the thread stays.
EnterSoleChild ==
    \E c \in Children(here) :
        /\ phase = "descent" /\ Children(here) = {c}
        /\ IF Score(c) >= 0 /\ Clear(Sim(c) - Sim(here))
           THEN Descend(c)
           ELSE IF automated THEN Stop
           ELSE Descend(c) \/ Stop \/ NoAnswer

\* The normalized spread of the softmax is above a tenth: c is the best child.
SpreadOk(c) ==
    LET siblings == Children(here)
        low == Min({Score(s) : s \in siblings})
        weight(s) == 2 ^ (Score(s) - low)
        second == Max({weight(s) : s \in siblings \ {c}})
        k == Max({3, Cardinality(siblings)})
    IN  10 * k * (weight(c) - second) > (k - 1) * MapThenSumSet(weight, siblings)

\* Siblings that the best child does not leave behind.
MidAmbiguous(c) ==
    {s \in Children(here) \ {c} : TooClose(Score(c) - Score(s)) /\ Contends(Sim(s))}

EnterBestChild ==
    \E c \in Children(here) :
        /\ phase = "descent" /\ Cardinality(Children(here)) > 1
        /\ SpreadOk(c) /\ Score(c) >= 0
        /\ IF MidAmbiguous(c) = {} \/ automated
           THEN Descend(c)
           ELSE AskForLeaf({c} \cup MidAmbiguous(c))

StopUndecided ==
    /\ phase = "descent" /\ Cardinality(Children(here)) > 1
    /\ ~ \E c \in Children(here) : SpreadOk(c) /\ Score(c) >= 0
    /\ Stop

\* The worker: bulk mail without a confident folder goes to the catch-all.
File ==
    LET bulk == automated /\ catchAll # None /\ result.source # "embedding_auto"
        node == IF bulk THEN catchAll ELSE result.node
    IN  /\ phase = "decided"
        /\ phase' = "filed"
        /\ result' = [result EXCEPT
                        !.node = node,
                        !.source = IF bulk THEN "automated_bulk" ELSE @,
                        !.status = IF node = Root THEN "UNCLASSIFIED"
                                   ELSE IF node = None THEN "NEEDS_REVIEW" ELSE "SORTED"]
        /\ UNCHANGED <<thread, here>>

Next ==
    \/ EmbedFails \/ Gate \/ CompareBranches
    \/ StopAtLeaf \/ EnterSoleChild \/ EnterBestChild \/ StopUndecided
    \/ File

Spec == Init /\ [][Next]_vars

-----------------------------------------------------------------------------
Reachable == Subtree(Root) \ {Root}

PlacementTypeOK ==
    /\ here \in {Root} \cup Reachable
    /\ result.node \in {None, Root} \cup Reachable \cup {catchAll}
    /\ phase = "filed" <=> result.status # "PENDING"

\* A thread that embeddings place is placed on the line of its best match: no folder the
\* sorter can reach matches better, except above the destination or below it (sorter.ts,
\* steps 5 to 9).
BestMatchOnTheWay ==
    phase = "filed" /\ result.source = "embedding_auto" =>
        \A m \in Reachable :
            sim[m] = Max({sim[f] : f \in Reachable}) =>
                m \in Subtree(result.node) \/ result.node \in Subtree(m)

\* A thread is sent away for want of a match exactly when no folder that can be reached
\* matches (sorter.ts, "logically equivalent").
GateOfReachable ==
    phase = "filed" =>
        LET matches == \E f \in Reachable : sim[f] >= ThetaMin IN
        /\ result.cause = "quality_gate" => ~matches
        /\ result.source \in {"llm", "embedding_auto", "embedding_inbox"} => matches

\* Bulk mail asks nobody, model or user, where there is a catch-all, which takes nothing
\* else (classify-thread.ts, automated-mail policy).
BulkAsksNobody ==
    phase = "filed" =>
        /\ automated => result.source # "llm" /\ result.cause \notin {"llm_declined", "llm_error"}
        /\ automated /\ catchAll # None => result.status = "SORTED"
        /\ result.node = catchAll /\ catchAll # None => automated
=============================================================================
