--------------------------- MODULE BackfillInbox ---------------------------
(***************************************************************************)
(* The historical backfill: backfill-inbox jobs import the threads a       *)
(* mailbox already had, page by page, under a claim in the workspace's     *)
(* ProviderSyncState and a monthly budget that all workspaces connected to *)
(* the mailbox share.                                                      *)
(*                                                                         *)
(* The mailbox lists its threads 1 .. Mail, newest first; a page token is  *)
(* the number of threads before the page.  Jobs of a workspace are one     *)
(* under the deduplication id (slot) and the continuations, which are      *)
(* added without one (extra).  The model covers one month of the meter.    *)
(***************************************************************************)
EXTENDS Integers, FiniteSets

CONSTANTS
    Workspaces,  \* workspaces connected to the mailbox
    Workers,     \* worker processes; each runs one backfill at a time
    Mail,        \* threads the mailbox lists
    SentOnly,    \* threads of outgoing mail alone, which are never imported
    Broken,      \* threads that fail for good (SkippableThreadError)
    PageSize,    \* BACKFILL_PAGE_SIZE
    Chunk,       \* BACKFILL_CHUNK_THREADS
    Cap,         \* getBackfillCap of the mailbox's top plan
    MaxResets,   \* bound: sweeps, disconnects and clicks of the users
    MaxFaults    \* bound: failed attempts, crashes and hours that pass under a claim

Listed     == 1 .. Mail
Importable == Listed \ SentOnly

ASSUME BackfillAssumption ==
    /\ IsFiniteSet(Workspaces) /\ IsFiniteSet(Workers) /\ Workers # {}
    /\ {Mail, Cap, MaxResets, MaxFaults} \subseteq Nat
    /\ {PageSize, Chunk} \subseteq Nat \ {0}
    /\ SentOnly \subseteq Listed /\ Broken \subseteq Importable

VARIABLES
    conn,      \* EmailConnection.status = ACTIVE
    state,     \* the ProviderSyncState row of each workspace's account
    rows,      \* rows[w]: its EmailThread rows
    routed,    \* routed[w]: rows that were enqueued for routing
    clicking,  \* workspaces whose route-unrouted request has not armed yet
    slot,      \* the job under the deduplication id: free, waiting or active
    extra,     \* extra[w]: continuations that wait
    run,       \* run[r]: the attempt worker r is in
    meter,     \* the BACKFILL row of InboxUsageMeter, its markers and grants
    seen,      \* history: threads examined since the account was made or swept
    trimmed,   \* history: threads cut off a page by the budget
    resets, faults

userVars == <<conn, clicking, resets>>
jobVars  == <<slot, extra>>
rowVars  == <<rows, routed>>
history  == <<seen, trimmed>>
vars == <<userVars, state, rowVars, jobVars, run, meter, history, faults>>

\* The row of account number n, before a sync creates it.
NoState(n) == [account |-> n, status |-> "none", started |-> "null", page |-> 0,
               processed |-> 0, generation |-> 0, armed |-> FALSE, limit |-> "NONE"]

\* An attempt: its job's queue, what it read of the row, and its page loop.
Idle == [at |-> "idle", ws |-> "none", from |-> "none", account |-> 0, gen |-> 0,
         armed |-> FALSE, page |-> 0, start |-> 0, processed |-> 0, ceiling |-> 0,
         examined |-> 0, exhausted |-> FALSE, grace |-> FALSE, blocked |-> FALSE]

Init ==
    /\ conn = [w \in Workspaces |-> TRUE]
    /\ state = [w \in Workspaces |-> NoState(0)]
    /\ rows = [w \in Workspaces |-> {}]
    /\ routed = [w \in Workspaces |-> {}]
    /\ clicking = {}
    /\ slot = [w \in Workspaces |-> "free"]
    /\ extra = [w \in Workspaces |-> 0]
    /\ run = [r \in Workers |-> Idle]
    /\ meter = [used |-> 0, graceUsed |-> FALSE, grants |-> {}, tokens |-> {}]
    /\ seen = [w \in Workspaces |-> {}]
    /\ trimmed = [w \in Workspaces |-> {}]
    /\ resets = 0 /\ faults = 0

-----------------------------------------------------------------------------
(* Around the job: the sync tick, the users, time.                         *)

ResumableUnclaimed(s) ==   \* mutant: a claim left behind is never taken over
    \/ s.status \in {"PENDING", "ERROR"}
    \/ s.status = "RUNNING" /\ s.started = "null"

\* isBackfillResumable; the same rows a claim may take.
Resumable(s) ==
    \/ s.status \in {"PENDING", "ERROR"}
    \/ s.status = "RUNNING" /\ s.started \in {"null", "stale"}

Added(q) == IF q = "free" THEN "waiting" ELSE q

\* A sync creates the row and enqueues the backfill unless it is done or running.
SyncTick(w) ==
    /\ conn[w]
    /\ state' = IF state[w].status = "none" THEN [state EXCEPT ![w].status = "PENDING"]
                                            ELSE state
    /\ Resumable(state'[w])
    /\ slot' = [slot EXCEPT ![w] = Added(@)]
    /\ UNCHANGED <<userVars, rowVars, extra, run, meter, history, faults>>

ResetKeepsClaim(s) ==   \* mutant: the claim's time stays
    [s EXCEPT !.status = "PENDING", !.page = 0, !.processed = 0]

Reset(s) == [s EXCEPT !.status = "PENDING", !.started = "null", !.page = 0, !.processed = 0]

SweepKeepsGeneration(w) ==   \* mutant: the sweep does not supersede runs in flight
    /\ conn[w] /\ state[w].status # "none"
    /\ resets < MaxResets /\ resets' = resets + 1
    /\ state' = [state EXCEPT ![w] = [Reset(@) EXCEPT !.limit = "NONE"]]
    /\ slot' = [slot EXCEPT ![w] = Added(@)]
    /\ seen' = [seen EXCEPT ![w] = {}]
    /\ trimmed' = [trimmed EXCEPT ![w] = {}]
    /\ UNCHANGED <<conn, clicking, rowVars, extra, run, meter, faults>>

\* sweep-inbox: scan again from the start, under a new generation.
SweepInbox(w) ==
    /\ conn[w] /\ state[w].status # "none"
    /\ resets < MaxResets /\ resets' = resets + 1
    /\ state' = [state EXCEPT ![w] = [Reset(@) EXCEPT !.limit = "NONE",
                                    !.generation = state[w].generation + 1]]
    /\ slot' = [slot EXCEPT ![w] = Added(@)]
    /\ seen' = [seen EXCEPT ![w] = {}]
    /\ trimmed' = [trimmed EXCEPT ![w] = {}]
    /\ UNCHANGED <<conn, clicking, rowVars, extra, run, meter, faults>>

\* route-unrouted: enqueue what is there, then arm while a backfill is under way.
RouteUnrouted(w) ==
    /\ w \notin clicking
    /\ resets < MaxResets /\ resets' = resets + 1
    /\ clicking' = clicking \cup {w}
    /\ routed' = [routed EXCEPT ![w] = rows[w]]
    /\ UNCHANGED <<conn, state, rows, jobVars, run, meter, history, faults>>

ArmAutoRouteBacklog(w) ==
    /\ w \in clicking /\ clicking' = clicking \ {w}
    /\ state' = IF state[w].status \in {"none", "DONE"} THEN state
                ELSE [state EXCEPT ![w].armed = TRUE]
    /\ UNCHANGED <<conn, resets, rowVars, jobVars, run, meter, history, faults>>

Disconnect(w) ==
    /\ conn[w]
    /\ resets < MaxResets /\ resets' = resets + 1
    /\ conn' = [conn EXCEPT ![w] = FALSE]
    /\ slot' = [slot EXCEPT ![w] = IF @ = "waiting" THEN "free" ELSE @]
    /\ UNCHANGED <<clicking, state, rowVars, extra, run, meter, history, faults>>

\* disconnect with eraseData: the account and all of its rows go. The meter stays.
EraseEmailAccountData(w) ==
    /\ ~conn[w] /\ state[w].status # "none"
    /\ state' = [state EXCEPT ![w] = NoState(@.account + 1)]
    /\ rows' = [rows EXCEPT ![w] = {}]
    /\ routed' = [routed EXCEPT ![w] = {}]
    /\ seen' = [seen EXCEPT ![w] = {}]
    /\ trimmed' = [trimmed EXCEPT ![w] = {}]
    /\ UNCHANGED <<userVars, jobVars, run, meter, faults>>

Reconnect(w) ==
    /\ ~conn[w]
    /\ conn' = [conn EXCEPT ![w] = TRUE]
    /\ UNCHANGED <<clicking, resets, state, rowVars, jobVars, run, meter, history, faults>>

Attempted(w) == \E r \in Workers : run[r].at # "idle" /\ run[r].ws = w

\* BACKFILL_RUNNING_STALE_MS pass under a claim, whether or not its owner lives.
Age(w) ==
    /\ state[w].status = "RUNNING" /\ state[w].started = "fresh"
    /\ Attempted(w) => faults < MaxFaults
    /\ faults' = IF Attempted(w) THEN faults + 1 ELSE faults
    /\ state' = [state EXCEPT ![w].started = "stale"]
    /\ UNCHANGED <<userVars, rowVars, jobVars, run, meter, history>>

-----------------------------------------------------------------------------
(* The handler.                                                            *)

At(r, step) == run[r].at = step
Goto(r, step) == run' = [run EXCEPT ![r].at = step]

\* The row is still the one the attempt claimed.
Owned(r) ==
    LET s == state[run[r].ws]
    IN  s.status # "none" /\ s.account = run[r].account /\ s.generation = run[r].gen

\* The job of attempt r completes, with a continuation added or not, or it fails and
\* is perhaps tried again.
Leave(r, again, added) ==
    LET w == run[r].ws
        more == (IF run[r].from = "extra" /\ again THEN 1 ELSE 0) + (IF added THEN 1 ELSE 0)
    IN  /\ run' = [run EXCEPT ![r] = Idle]
        /\ slot' = IF run[r].from = "slot"
                   THEN [slot EXCEPT ![w] = IF again THEN "waiting" ELSE "free"] ELSE slot
        /\ extra' = [extra EXCEPT ![w] = @ + more]

\* Sections 1 and 2. A disconnected, missing or finished backfill is skipped.
Begin(r, w, from) ==
    /\ At(r, "idle")
    /\ IF from = "slot" THEN slot[w] = "waiting" ELSE extra[w] > 0
    /\ LET skip == ~conn[w] \/ state[w].status \in {"none", "DONE"}
       IN  /\ run' = IF skip THEN run
                     ELSE [run EXCEPT ![r] = [Idle EXCEPT !.at = "claim", !.ws = w,
                                    !.from = from, !.account = state[w].account]]
           /\ slot' = IF from = "slot"
                      THEN [slot EXCEPT ![w] = IF skip THEN "free" ELSE "active"] ELSE slot
           /\ extra' = IF from = "extra" THEN [extra EXCEPT ![w] = @ - 1] ELSE extra
    /\ UNCHANGED <<userVars, state, rowVars, meter, history, faults>>

\* Section 3: the conditional update that is the lock.
Claim(r) ==
    LET w == run[r].ws
    IN  /\ At(r, "claim")
        /\ IF state[w].account = run[r].account /\ Resumable(state[w])
           THEN /\ state' = [state EXCEPT ![w].status = "RUNNING", ![w].started = "fresh"]
                /\ Goto(r, "read")
                /\ UNCHANGED jobVars
           ELSE /\ Leave(r, FALSE, FALSE)
                /\ UNCHANGED state
        /\ UNCHANGED <<userVars, rowVars, meter, history, faults>>

\* The read after the claim: the cursor, the generation and the arm.
ReadClaimed(r) ==
    LET s == state[run[r].ws]
        found == s.status # "none" /\ s.account = run[r].account
    IN  /\ At(r, "read")
        /\ run' = [run EXCEPT ![r].at = "budget",
                     ![r].page = IF found THEN s.page ELSE 0,
                     ![r].start = IF found THEN s.processed ELSE 0,
                     ![r].processed = IF found THEN s.processed ELSE 0,
                     ![r].gen = IF found THEN s.generation ELSE 0,
                     ![r].armed = found /\ s.armed]
        /\ UNCHANGED <<userVars, state, rowVars, jobVars, meter, history, faults>>

Ceiling == IF meter.graceUsed THEN 2 * Cap ELSE Cap

LeftOfWorkspace(r) == Ceiling - run[r].start   \* mutant: the pool is not looked at

\* What the mailbox may still import this month.
Left(r) == Ceiling - meter.used

\* The page loop runs while there is chunk and budget left.
Loop(x) == IF x.examined < Chunk /\ x.processed < x.ceiling /\ ~x.exhausted
           THEN [x EXCEPT !.at = "page"] ELSE [x EXCEPT !.at = "route"]

\* resolveBackfillBudget up to the grace claim.
ResolveBudget(r) ==
    LET x == run[r]
        left == Left(r)
    IN  /\ At(r, "budget")
        /\ IF left > 0
           THEN /\ meter' = [meter EXCEPT !.grants = @ \cup {x.ws}]
                /\ run' = [run EXCEPT ![r] = Loop([x EXCEPT !.ceiling = x.start + left,
                                                           !.grace = meter.graceUsed])]
           ELSE /\ run' = [run EXCEPT ![r] =
                     IF ~meter.graceUsed /\ x.ws \in meter.grants
                     THEN [x EXCEPT !.at = "grace", !.ceiling = x.start + 2 * Cap - meter.used]
                     ELSE Loop([x EXCEPT !.ceiling = x.start, !.grace = meter.graceUsed,
                                         !.blocked = meter.graceUsed])]
                /\ UNCHANGED meter
        /\ UNCHANGED <<userVars, state, rowVars, jobVars, history, faults>>

\* One conditional update unlocks the second cap; the loser imports nothing.
ClaimGrace(r) ==
    LET x == run[r]
    IN  /\ At(r, "grace")
        /\ meter' = [meter EXCEPT !.graceUsed = TRUE]
        /\ run' = [run EXCEPT ![r] =
              IF meter.graceUsed
              THEN Loop([x EXCEPT !.ceiling = x.start, !.blocked = TRUE])
              ELSE Loop([x EXCEPT !.ceiling = IF x.ceiling > x.start THEN x.ceiling ELSE x.start,
                                  !.grace = TRUE])]
        /\ UNCHANGED <<userVars, state, rowVars, jobVars, history, faults>>

Page(x) == {p \in Listed : x.page < p /\ p <= x.page + PageSize}
Taken(x) == {p \in Page(x) : p - x.page <= x.ceiling - x.processed}

\* processThread for each thread of S: sent-only and broken ones leave no row.
ImportThreads(w, S) ==
    /\ rows' = [rows EXCEPT ![w] = @ \cup (S \ (SentOnly \cup Broken))]
    /\ seen' = [seen EXCEPT ![w] = @ \cup S]

\* One page of the loop. Only what is not sent-only counts against the budget.
ImportPage(r) ==
    LET x == run[r]
        w == x.ws
    IN  /\ At(r, "page") /\ state[w].account = x.account
        /\ run' = [run EXCEPT ![r] = Loop([x EXCEPT
                     !.processed = @ + Cardinality(Taken(x) \ SentOnly),
                     !.examined = @ + Cardinality(Taken(x)),
                     !.page = @ + PageSize,
                     !.exhausted = x.page + PageSize >= Mail])]
        /\ ImportThreads(w, Taken(x))
        /\ trimmed' = [trimmed EXCEPT ![w] = @ \cup (Page(x) \ Taken(x))]
        /\ UNCHANGED <<userVars, state, routed, jobVars, meter, faults>>

\* The loop looks at the connection every fifty threads, and stops.
NoticeDisconnect(r) ==
    LET x == run[r]
        w == x.ws
    IN  /\ At(r, "page") /\ state[w].account = x.account /\ ~conn[w]
        /\ \E n \in Taken(x) : ImportThreads(w, {p \in Taken(x) : p <= n})
        /\ Goto(r, "disconnected")
        /\ UNCHANGED <<userVars, state, routed, jobVars, meter, trimmed, faults>>

\* Section 7: the page token may be stale at the reconnect; start over.
ResetDisconnected(r) ==
    LET w == run[r].ws
    IN  /\ At(r, "disconnected")
        /\ IF Owned(r)
           THEN state' = [state EXCEPT ![w] = Reset(@)]
           ELSE UNCHANGED state
        /\ Leave(r, FALSE, FALSE)
        /\ UNCHANGED <<userVars, rowVars, meter, history, faults>>

\* Section 8: an armed backfill routes the backlog as it arrives.
RouteArmed(r) ==
    LET w == run[r].ws
    IN  /\ At(r, "route")
        /\ Goto(r, "commit")
        /\ routed' = IF run[r].armed THEN [routed EXCEPT ![w] = rows[w]] ELSE routed
        /\ UNCHANGED <<userVars, state, rows, jobVars, meter, history, faults>>

Done(x) == x.exhausted \/ x.processed >= x.ceiling

\* backfillChunkDedupToken: of the mailbox, not of the workspace.
ChunkToken(x) == <<x.gen, x.start, x.processed, Done(x)>>

\* recordMeterUsage under its marker.
Charge(x, token) ==
    IF x.processed = x.start \/ token \in meter.tokens THEN meter
    ELSE [meter EXCEPT !.used = @ + x.processed - x.start, !.tokens = @ \cup {token}]

LimitState(x) ==
    IF x.blocked THEN "BLOCKED"
    ELSE IF ~x.exhausted THEN (IF x.grace THEN "CAPPED_RETRY" ELSE "CAPPED")
    ELSE "NONE"

Finished(s, x) ==
    IF Done(x)
    THEN [s EXCEPT !.status = "DONE", !.started = "null", !.page = 0,
                   !.processed = x.processed, !.armed = FALSE, !.limit = LimitState(x)]
    ELSE [s EXCEPT !.status = "RUNNING", !.started = "null", !.page = x.page,
                   !.processed = x.processed]

\* Sections 9 and 10: the cursor and the meter move in one transaction, unless a
\* reset has superseded the attempt.
Commit(r) ==
    LET x == run[r]
        w == x.ws
    IN  /\ At(r, "commit")
        /\ IF Owned(r)
           THEN /\ state' = [state EXCEPT ![w] = Finished(@, x)]
                /\ meter' = Charge(x, ChunkToken(x))
           ELSE UNCHANGED <<state, meter>>
        /\ IF Owned(r) /\ Done(x) THEN Leave(r, FALSE, FALSE)
                                  ELSE Goto(r, "add") /\ UNCHANGED jobVars
        /\ UNCHANGED <<userVars, rowVars, seen, trimmed, faults>>

\* The continuation, without a deduplication id.
AddContinuation(r) ==
    /\ At(r, "add")
    /\ Leave(r, FALSE, TRUE)
    /\ UNCHANGED <<userVars, state, rowVars, meter, history, faults>>

\* Anything throws: ERROR with the cursor kept, and a second attempt or none. The call
\* after the last write may be what throws, with DONE or the continuation written. An
\* attempt whose account was erased cannot write a thread and fails this way too.
Fail(r) ==
    LET x == run[r]
        w == x.ws
        erased == At(r, "page") /\ state[w].account # x.account
        ends == At(r, "commit") /\ Owned(r) /\ Done(x)
    IN  /\ x.at \in {"budget", "grace", "page", "disconnected", "route", "commit", "add"}
        /\ ~erased => faults < MaxFaults
        /\ faults' = IF erased THEN faults ELSE faults + 1
        /\ IF At(r, "page") /\ ~erased
           THEN \E n \in 0 .. Mail : ImportThreads(w, {p \in Taken(x) : p <= n})
           ELSE UNCHANGED <<rows, seen>>
        /\ \E wrote, again \in BOOLEAN :
              /\ wrote => ends \/ At(r, "add")
              /\ Leave(r, again, wrote /\ At(r, "add"))
              /\ meter' = IF wrote /\ ends THEN Charge(x, ChunkToken(x)) ELSE meter
              /\ state' = IF ~Owned(r) THEN state ELSE
                    LET s == IF wrote /\ ends THEN Finished(state[w], x) ELSE state[w]
                    IN  [state EXCEPT ![w] = [s EXCEPT !.status = "ERROR", !.started = "null"]]
        /\ UNCHANGED <<userVars, routed, trimmed>>

\* The worker dies: nothing is written, and the stalled job is taken up or lost.
Crash(r) ==
    /\ ~At(r, "idle")
    /\ faults < MaxFaults /\ faults' = faults + 1
    /\ \E again \in BOOLEAN : Leave(r, again, FALSE)
    /\ UNCHANGED <<userVars, state, rowVars, meter, history>>

-----------------------------------------------------------------------------
(* The specification.                                                      *)

Work(r) ==
    \/ \E w \in Workspaces, from \in {"slot", "extra"} : Begin(r, w, from)
    \/ Claim(r)
    \/ ReadClaimed(r)
    \/ ResolveBudget(r)
    \/ ClaimGrace(r)
    \/ ImportPage(r)
    \/ NoticeDisconnect(r)
    \/ ResetDisconnected(r)
    \/ RouteArmed(r)
    \/ Commit(r)
    \/ AddContinuation(r)

Next ==
    \/ \E r \in Workers : Work(r) \/ Fail(r) \/ Crash(r)
    \/ \E w \in Workspaces :
          \/ SyncTick(w)
          \/ SweepInbox(w)
          \/ RouteUnrouted(w)
          \/ ArmAutoRouteBacklog(w)
          \/ Disconnect(w)
          \/ EraseEmailAccountData(w)
          \/ Reconnect(w)
          \/ Age(w)

Spec == Init /\ [][Next]_vars

\* The writes of an attempt fail when its account was erased.
Erased(r) == run[r].at = "page" /\ state[run[r].ws].account # run[r].account

-----------------------------------------------------------------------------
(* Properties.                                                             *)

Steps == {"idle", "claim", "read", "budget", "grace", "page", "disconnected", "route",
          "commit", "add"}

\* The variables have their types; the row's cursor is a page token of the listing;
\* only an attempt in flight has the deduplication id.
TypeOK ==
    /\ conn \in [Workspaces -> BOOLEAN]
    /\ clicking \subseteq Workspaces
    /\ \A w \in Workspaces :
          /\ state[w].status \in {"none", "PENDING", "RUNNING", "ERROR", "DONE"}
          /\ state[w].started \in {"null", "fresh", "stale"}
          /\ state[w].page \in 0 .. Mail
          /\ state[w].processed \in Nat
          /\ state[w].limit \in {"NONE", "CAPPED", "CAPPED_RETRY", "BLOCKED"}
          /\ state[w].status # "RUNNING" => state[w].started = "null"
          /\ rows[w] \subseteq Importable \ Broken /\ routed[w] \subseteq rows[w]
          /\ slot[w] \in {"free", "waiting", "active"} /\ extra[w] \in Nat
          /\ slot[w] = "active" <=>
                \E r \in Workers : run[r].at # "idle" /\ run[r].ws = w /\ run[r].from = "slot"
    /\ \A r \in Workers : run[r].at \in Steps
    /\ meter.used \in Nat /\ meter.grants \subseteq Workspaces
    /\ resets \in 0 .. MaxResets /\ faults \in 0 .. MaxFaults

\* A finished backfill without a banner has looked at every thread since the account
\* was made or last swept, and every thread that can be imported and that the budget did not cut off
\* its page has a row: whoever claimed, failed, was taken over or was superseded on
\* the way (sections 3, 7, 9 and 10 of backfill-inbox.ts).
DoneMeansScanned ==
    \A w \in Workspaces : state[w].status = "DONE" /\ state[w].limit = "NONE" =>
        /\ Listed \ trimmed[w] \subseteq seen[w]
        /\ Importable \ (Broken \cup trimmed[w]) \subseteq rows[w]

\* What one attempt may examine: the page that fills its chunk is the last one.
ChunkLength == Chunk + PageSize - 1

\* The pooled budget of a month is overdrawn by no more than what the other workers
\* can have in flight, and twice the cap is lent once: the check and the charge are
\* apart, the grace claim is one update (usage-meter.ts resolveBackfillBudget).
PoolOvershootBounded == meter.used <= Ceiling + (Cardinality(Workers) - 1) * ChunkLength

\* As long as the workspace stays connected, its backfill comes to an end, through
\* crashes, failed attempts, lost continuations and claims left behind.
BackfillFinishes ==
    \A w \in Workspaces : <>[]conn[w] => <>[](state[w].status = "DONE")
=============================================================================
