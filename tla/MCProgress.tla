----------------------------- MODULE MCProgress -----------------------------
(***************************************************************************)
(* Small instances of what must come about in the end: a client session    *)
(* that is kept or ended (Sessions, of which this instance is the          *)
(* extension with its panel and its background worker), a backfill that    *)
(* finishes, changes that are synced.  A behaviour is one of one part; the *)
(* others stay where they began, and only the part's own fairness is       *)
(* assumed.                                                                *)
(***************************************************************************)
EXTENDS Sessions

CONSTANTS w1, r1, r2, t1, panel, background

BothContexts == {panel, background}

VARIABLES
    part,  \* the part this behaviour is about
    conn, state, rows, routed, clicking, slot, extra, run, meter, seen, trimmed, resets,
    faults,
    provider, mailbox, synced, imported, stored, flagged, doneAt, asked, cursor, expired,
    owedFrom, sync, torn, unasked, syncFaults

backfillVars == <<conn, state, rows, routed, clicking, slot, extra, run, meter, seen,
                  trimmed, resets, faults>>
syncVars     == <<provider, mailbox, synced, imported, stored, flagged, doneAt, asked, cursor,
                  expired, owedFrom, sync, torn, unasked, syncFaults>>

\* Two workers serve one workspace's backfill.
Backfill == INSTANCE BackfillInbox WITH
    Workspaces <- {w1}, Workers <- {r1, r2}, Mail <- 3, SentOnly <- {2}, Broken <- {},
    PageSize <- 2, Chunk <- 1, Cap <- 2, MaxResets <- 1, MaxFaults <- 1

\* One thread; the scheduler's sync has two attempts, the API's has one.
Delta == INSTANCE InboxSync WITH
    history <- mailbox, conn <- synced, faults <- syncFaults,
    Threads <- {t1}, Recent <- 1, Tries <- 2, Sorting <- TRUE, Tears <- FALSE,
    MaxHistory <- 3, MaxFaults <- 1

ProgressInit ==
    /\ part \in {"backfill", "delta", "session"}
    /\ Backfill!Init /\ Delta!Init /\ Init
    /\ part # "delta" => provider = "GMAIL" /\ cursor = Delta!NoCursor

ProgressNext ==
    /\ \/ part = "backfill" /\ Backfill!Next /\ UNCHANGED <<syncVars, vars>>
       \/ part = "delta" /\ Delta!Next /\ UNCHANGED <<backfillVars, vars>>
       \/ part = "session" /\ Next /\ UNCHANGED <<backfillVars, syncVars>>
    /\ UNCHANGED part

progressVars == <<part, backfillVars, syncVars, vars>>

\* A worker polls its queue, an erased attempt's writes fail, the scheduler ticks,
\* time passes.
FairBackfill ==
    /\ \A r \in {r1, r2} :
          /\ WF_backfillVars(part = "backfill" /\ Backfill!Work(r))
          /\ WF_backfillVars(part = "backfill" /\ Backfill!Erased(r) /\ Backfill!Fail(r))
    /\ WF_backfillVars(part = "backfill" /\ Backfill!SyncTick(w1))
    /\ WF_backfillVars(part = "backfill" /\ Backfill!Age(w1))

\* The worker polls its queue and the scheduler ticks.
FairDelta ==
    /\ WF_syncVars(part = "delta" /\ Delta!Work)
    /\ WF_syncVars(part = "delta" /\ Delta!EnqueueSync(2))

\* Time passes and a client that is open keeps asking, as its polling does.
FairSession ==
    /\ \A c \in Contexts : WF_vars(part = "session" /\ Refresh(c))
    /\ WF_vars(part = "session" /\ CacheLapses)
    /\ WF_vars(part = "session" /\ AccessTokenLapses)
    /\ WF_vars(part = "session" /\ ClearSignedOut)

ProgressSpec ==
    /\ ProgressInit /\ [][ProgressNext]_progressVars
    /\ FairBackfill /\ FairDelta /\ FairSession

-----------------------------------------------------------------------------
\* The backfill of a workspace that stays connected finishes, whatever fails on the
\* way (backfill-inbox.ts).
BackfillFinishes == part = "backfill" => Backfill!BackfillFinishes

\* Every change of a mailbox that stays connected gets behind the cursor (sync-inbox.ts).
ChangesReachCursor == part = "delta" => Delta!ChangesReachCursor

\* The client leaves a session that the server has ended (bearer-transport.ts).
ClientLeavesDeadSession == part = "session" => DeadSessionsEnd
=============================================================================
