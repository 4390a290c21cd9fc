----------------------------- MODULE MCWorkspace -----------------------------
(***************************************************************************)
(* Small instances of what happens to a workspace: the import of its       *)
(* mailbox (BackfillInbox, in three sizes), what the model writes for it   *)
(* (TaxonomyGeneration and Drafts in two, Summaries), where its mail goes  *)
(* (Placement).  A behaviour is one of one part; the others hold nothing   *)
(* in it, or stay where they began.                                        *)
(***************************************************************************)
EXTENDS BackfillInbox, TLC

CONSTANTS w1, w2, r1, r2

TwoWorkspaces == {w1, w2}
TwoWorkers    == {r1, r2}
Nothing       == {}
Second        == {2}

VARIABLES
    part,  \* the part this behaviour is about
    eligible, proposal, post, task, failing, used, tokens, saved,
    draft, req, toggle, made, toggled, overran,
    version, summary, texts, errors,
    parent, sim, catchAll, automated, phase, here, result

textVars == <<eligible, proposal, post, task, failing, used, tokens, saved,
              draft, req, toggle, made, toggled, overran, version, summary, texts, errors>>
placeVars == <<parent, sim, catchAll, automated, phase, here, result>>

\* Two workspaces import one mailbox: BackfillInbox itself while users intervene once,
\* Stumbling while an attempt fails.
Stumbling == INSTANCE BackfillInbox WITH MaxResets <- 0, MaxFaults <- 1

\* One of them imports it alone, through both.
Lone == INSTANCE BackfillInbox WITH MaxFaults <- 2

StaysAway(w) == state'[w] = NoState(0) /\ conn'[w] /\ w \notin clicking'

\* One workspace generates its taxonomy again and again.
Alone == INSTANCE TaxonomyGeneration WITH
    row <- proposal, job <- task, faults <- errors,
    Workspaces <- {w1}, Requests <- {r1}, Cap <- 2, MaxStalls <- 1, MaxMail <- 2,
    MaxJobs <- 2, MaxFaults <- 2

\* Two workspaces have one generation left for their inbox.
Pooled == INSTANCE TaxonomyGeneration WITH
    row <- proposal, job <- task, faults <- errors,
    Workspaces <- {w1, w2}, Requests <- {r1}, Cap <- 1, MaxStalls <- 1, MaxMail <- 1,
    MaxJobs <- 1, MaxFaults <- 0

\* Two requests draft replies to one thread, then to two.
Replies == INSTANCE Drafts WITH
    faults <- errors, Threads <- {w1}, Requests <- {r1, r2}, Limit <- 2, MaxDrafts <- 3,
    MaxFaults <- 1

Letters == INSTANCE Drafts WITH
    faults <- errors, Threads <- {w1, w2}, Requests <- {r1, r2}, Limit <- 1, MaxDrafts <- 2,
    MaxFaults <- 1

\* Two requests summarise two threads.
Digests == INSTANCE Summaries WITH
    row <- summary, faults <- errors, Threads <- {w1, w2}, Requests <- {r1, r2}, Limit <- 1,
    MaxVersions <- 2, MaxClaims <- 2, MaxFaults <- 1

\* A thread is placed in each tree of four folders. Three levels of similarity are about
\* the gate, and one apart from another; the fourth is far above.
Placing == INSTANCE Placement WITH Last <- 4, Sims <- {-3, 3, 4, 9}, ThetaMin <- 4, TopK <- 2

NoGeneration ==
    /\ eligible = 0 /\ proposal = 0 /\ post = 0 /\ task = 0 /\ failing = 0 /\ tokens = 0
    /\ saved = 0
NoDrafts    == draft = 0 /\ toggle = 0 /\ made = 0 /\ toggled = 0
NoSummaries == version = 0 /\ summary = 0 /\ texts = 0
NoPlacement ==
    /\ parent = 0 /\ sim = 0 /\ catchAll = 0 /\ automated = 0 /\ phase = 0 /\ here = 0
    /\ result = 0
NoTexts ==
    /\ NoGeneration /\ NoDrafts /\ NoSummaries
    /\ used = 0 /\ req = 0 /\ overran = 0 /\ errors = 0

WorkspaceInit ==
    \/ /\ NoTexts /\ NoPlacement
       /\ part \in {"backfill", "stumbling", "lone"} /\ Init
    \/ /\ Init /\ NoPlacement
       /\ \/ /\ NoDrafts /\ NoSummaries /\ req = 0 /\ overran = 0
             /\ \/ part = "alone" /\ Alone!Init
                \/ part = "pooled" /\ Pooled!Init
          \/ /\ NoGeneration /\ NoSummaries
             /\ \/ part = "replies" /\ Replies!Init
                \/ part = "letters" /\ Letters!Init
          \/ NoGeneration /\ NoDrafts /\ part = "digests" /\ Digests!Init
    \/ /\ Init /\ NoTexts
       /\ part = "placing" /\ Placing!Init

WorkspaceNext ==
    /\ \/ /\ UNCHANGED <<textVars, placeVars>>
          /\ \/ part = "backfill" /\ Next
             \/ part = "stumbling" /\ Stumbling!Next
             \/ part = "lone" /\ Lone!Next /\ (\E w \in Workspaces : StaysAway(w))
       \/ /\ UNCHANGED <<vars, placeVars>>
          /\ \/ /\ UNCHANGED <<draft, req, toggle, made, toggled, overran, version, summary, texts>>
                /\ \/ part = "alone" /\ Alone!Next
                   \/ part = "pooled" /\ Pooled!Next
             \/ /\ UNCHANGED <<eligible, proposal, post, task, failing, tokens, saved,
                               version, summary, texts>>
                /\ \/ part = "replies" /\ Replies!Next
                   \/ part = "letters" /\ Letters!Next
             \/ /\ UNCHANGED <<eligible, proposal, post, task, failing, tokens, saved,
                               draft, toggle, made, toggled>>
                /\ part = "digests" /\ Digests!Next
       \/ /\ UNCHANGED <<vars, textVars>>
          /\ part = "placing" /\ Placing!Next
    /\ UNCHANGED part

workspaceVars == <<vars, textVars, placeVars, part>>

WorkspaceSpec == WorkspaceInit /\ [][WorkspaceNext]_workspaceVars

\* Workspaces are interchangeable, and so are workers; in the other parts requests take the
\* names of workers and threads those of workspaces.
Symmetric == Permutations(TwoWorkspaces) \cup Permutations(TwoWorkers)

-----------------------------------------------------------------------------
\* The rows, jobs, grants and flows of every part have their types.
WorkspaceTypeOK ==
    /\ part \in {"backfill", "stumbling", "lone"} => Lone!TypeOK
    /\ part = "alone" => Alone!GenerationTypeOK
    /\ part = "pooled" => Pooled!GenerationTypeOK
    /\ part = "replies" => Replies!DraftsTypeOK
    /\ part = "letters" => Letters!DraftsTypeOK
    /\ part = "digests" => Digests!SummariesTypeOK
    /\ part = "placing" => Placing!PlacementTypeOK

\* The inbox is charged for what the model wrote and was kept, through dead workers and
\* requests and jobs that run twice (generate-taxonomy.ts, drafts.ts, thread-summary.ts),
\* and a quota that is read first and charged later is passed by what may be under way at
\* once and no more (usage-meter.ts).
MetersFollowResults ==
    /\ part = "alone" => Alone!ChargedForProposals /\ Alone!GenerationOvershootBounded
    /\ part = "pooled" => Pooled!ChargedForProposals /\ Pooled!GenerationOvershootBounded
    /\ part = "replies" => Replies!ChargedForDrafts /\ Replies!DraftOvershootBounded
    /\ part = "letters" => Letters!ChargedForDrafts /\ Letters!DraftOvershootBounded
    /\ part = "digests" => Digests!ChargedForTexts /\ Digests!SummaryOvershootBounded

\* Requests for one thread do not generate beside each other; one proposed draft is left,
\* and a summary that is served was made of the messages it is served for (drafts.ts,
\* thread-summary.ts).
OneTextPerThread ==
    /\ part = "replies" => Replies!OneGenerationPerThread /\ Replies!OneProposalAtRest
    /\ part = "letters" => Letters!OneGenerationPerThread /\ Letters!OneProposalAtRest
    /\ part = "digests" => Digests!OneGenerationPerThread /\ Digests!ServedTextFits

\* Embeddings place a thread on the line of its best match, the gate rejects what matches
\* no folder, and bulk mail asks nobody (sorter.ts, classify-thread.ts).
PlacementFollowsEvidence ==
    part = "placing" =>
        Placing!BestMatchOnTheWay /\ Placing!GateOfReachable /\ Placing!BulkAsksNobody
=============================================================================
