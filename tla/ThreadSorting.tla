--------------------------- MODULE ThreadSorting ---------------------------
(***************************************************************************)
(* The sorting of the threads of one workspace: the classify-thread queue  *)
(* and its worker, the API requests that feed it, the recovery sweeps of   *)
(* the inbox sync, manual moves, and the inbox's monthly sort meter.       *)
(*                                                                         *)
(* A job of the queue is named by its thread and by the prefix of its      *)
(* deduplication id (its kind): while a job is queued or running, another  *)
(* one of the same thread and kind collapses into it, and jobs of          *)
(* different kinds may run at once.  The handler is split at every await   *)
(* that reads or writes state another actor can touch; Job(j).at is the    *)
(* step a running job is about to take.                                    *)
(***************************************************************************)
EXTENDS Naturals, FiniteSets

CONSTANTS
    Threads,        \* the workspace's persisted email threads
    Kinds,          \* the job kinds in play, a subset of AllKinds
    Outcomes,       \* the statuses a sort may end in
    LastWindow,     \* bound: calendar months run from 0 to LastWindow
    Limit,          \* getThreadSortLimit(plan)
    Enforce,        \* config.billing.enforceThreadSortQuota
    Concurrency,    \* classify jobs the worker processes run at once
    Tries,          \* attempts of a job enqueued through the worker's queue
    MaxStalls,      \* maxStalledCount
    MaxClassifyAttempts,
    MaxCrashes,     \* bound: crashes and lost enqueues in a behaviour
    MaxWaiting,     \* bound: users and mail wait while so much is enqueued
    Events          \* the optional events of the environment that may happen

LiveKinds == {"liveA", "liveB"}   \* classify_live, for two message-set signatures
AllKinds  == LiveKinds \cup
    {"classify", "triage", "quota", "failed", "stale", "unrouted", "resume",
     "unclassified", "needsReview", "migration"}
Sources   == {"LIVE", "BACKFILL", "REROUTE", "MANUAL"}   \* of jobs; rows have two more
Statuses  == {"PENDING", "SORTED", "NEEDS_REVIEW", "UNCLASSIFIED", "QUOTA_BLOCKED"}
Windows   == 0 .. LastWindow
Jobs      == Threads \X Kinds
SyncOps   == {"quota", "failed", "stale", "armed"}
Ops       == SyncOps \cup {"resume", "routeFirst", "route", "unclassified",
                           "needsReview", "import", "migrate"}
\* The dedup prefix a sweep enqueues under.
SweepKind == [quota |-> "quota", failed |-> "failed", stale |-> "stale", armed |-> "unrouted"]
Running   == {"pin", "count", "gate", "defer", "stamp", "sort", "commit",
              "file", "status", "review", "triage", "settle", "failed"}

ASSUME ConstantsAssumption ==
    /\ IsFiniteSet(Threads)
    /\ IsFiniteSet(Kinds) /\ Kinds \subseteq AllKinds
    /\ Outcomes \subseteq {"SORTED", "NEEDS_REVIEW", "UNCLASSIFIED"}
    /\ {LastWindow, Limit, MaxStalls, MaxCrashes, MaxWaiting} \subseteq Nat
    /\ {Concurrency, Tries, MaxClassifyAttempts} \subseteq Nat \ {0}
    /\ Enforce \in BOOLEAN

VARIABLES
    job,        \* the queue: job[j] is idle, queued or at a step of the handler
    adds,       \* enqueues whose threads are stamped and whose addBulk is pending
    picked,     \* picked[op]: threads a bulk operation has read and not yet written
    sweeps,     \* the recovery sweeps a running sync has still to do
    status,     \* EmailThread.triageStatus
    stamp,      \* EmailThread.classifyingAt: "null", "fresh" or older than 15 min
    failedAt,   \* EmailThread.classifyFailedAt is set
    attempts,   \* EmailThread.classifyAttempts, saturated at MaxClassifyAttempts
    lastRow,    \* source of the thread's latest EmailClassification: "NONE", or
                \* "AUTO" for the automatic sources, which no code tells apart
    counted,    \* months holding a row of the thread the quota guard counts
    markers,    \* IdempotencyMarker tokens: <<month, thread>>
    used,       \* InboxUsageMeter.used of the inbox's THREAD_SORT meter, by month
    month,      \* the current calendar month
    conn,       \* EmailConnection.status = ACTIVE
    paused,     \* GmailSyncSettings.sortingPaused
    routable,   \* isTaxonomyRoutable
    started,    \* ProviderSyncState.backfillRoutingStartedAt is set
    filling,    \* ProviderSyncState.backfillStatus is not DONE
    armed,      \* ProviderSyncState.autoRouteBacklogArmed
    crashes     \* crashes and lost enqueues so far

queueVars   == <<job, adds, picked, sweeps>>
threadVars  == <<status, stamp, failedAt, attempts, lastRow>>
meterVars   == <<counted, markers, used, month>>
switchVars  == <<conn, paused, routable, started, filling, armed>>
vars == <<queueVars, threadVars, meterVars, switchVars, crashes>>

\* A job keeps its source, the attempts it has left and its stalls; a running
\* one also whether it is to be metered, in which month, and how it ends.
Idle == [at |-> "idle", src |-> "LIVE", left |-> 0, stalls |-> 0, met |-> FALSE,
         win |-> 0, out |-> "PENDING", ok |-> TRUE]

JobStates ==
    [at: Running \cup {"idle", "queued"}, src: Sources, left: 0 .. Tries,
     stalls: 0 .. MaxStalls, met: BOOLEAN, win: Windows,
     out: Statuses, ok: BOOLEAN]

QueueOK ==
    /\ job \in [Jobs -> JobStates]
    /\ \A j \in Jobs : job[j].at # "idle" => job[j].left > 0
    /\ adds \in SUBSET [job: Jobs, src: Sources, left: 1 .. Tries]
    /\ picked \in [Ops -> SUBSET Threads]
    /\ sweeps \in SUBSET {op \in SyncOps : SweepKind[op] \in Kinds}

ThreadsOK ==
    /\ status \in [Threads -> Statuses]
    /\ stamp \in [Threads -> {"null", "fresh", "old"}]
    /\ failedAt \in [Threads -> BOOLEAN]
    /\ attempts \in [Threads -> 0 .. MaxClassifyAttempts]
    /\ lastRow \in [Threads -> {"NONE", "AUTO", "MANUAL", "MOVE", "MIGRATION"}]

MetersOK ==
    /\ counted \in [Threads -> SUBSET Windows]
    /\ markers \in SUBSET (Windows \X Threads)
    /\ used \in [Windows -> Nat]
    /\ month \in Windows

SwitchesOK == {conn, paused, routable, started, filling, armed} \subseteq BOOLEAN

TypeOK == QueueOK /\ ThreadsOK /\ MetersOK /\ SwitchesOK /\ crashes \in 0 .. MaxCrashes

\* A connected workspace whose imported threads wait to be sorted.
Init ==
    /\ job = [j \in Jobs |-> Idle]
    /\ adds = {}
    /\ picked = [op \in Ops |-> {}]
    /\ sweeps = {}
    /\ status = [t \in Threads |-> "PENDING"]
    /\ stamp = [t \in Threads |-> "null"]
    /\ failedAt = [t \in Threads |-> FALSE]
    /\ attempts = [t \in Threads |-> 0]
    /\ lastRow = [t \in Threads |-> "NONE"]
    /\ counted = [t \in Threads |-> {}]
    /\ markers = {}
    /\ used = [w \in Windows |-> 0]
    /\ month = 0
    /\ conn = TRUE /\ paused = FALSE
    /\ routable \in (IF "weak" \in Events THEN BOOLEAN ELSE {TRUE})
    /\ started \in (IF "unrouted" \in Kinds THEN BOOLEAN ELSE {TRUE})
    /\ filling \in (IF "unrouted" \in Kinds THEN BOOLEAN ELSE {FALSE})
    /\ armed = FALSE
    /\ crashes = 0

-----------------------------------------------------------------------------
(* The queue.                                                              *)

Goto(j, step) == job' = [job EXCEPT ![j].at = step]

\* The job at another step, with what only its earlier steps knew forgotten.
At(j, step) == [Idle EXCEPT !.at = step, !.src = job[j].src, !.left = job[j].left,
                            !.stalls = job[j].stalls]

\* Leave the try block, by a return or by an exception.
Return(j) == job' = [job EXCEPT ![j] = At(j, "settle")]
Throw(j)  == /\ "fault" \in Events
             /\ job' = [job EXCEPT ![j] = [At(j, "settle") EXCEPT !.ok = FALSE]]

\* UnrecoverableError: BullMQ does not try again.
ThrowForGood(j) ==
    /\ "fault" \in Events
    /\ job' = [job EXCEPT ![j] = [At(j, "settle") EXCEPT !.ok = FALSE, !.left = 1]]

\* A job of the same deduplication id that has not ended swallows the new one.
AddBulk(a) ==
    /\ adds' = adds \ {a}
    /\ job' = IF job[a.job].at = "idle"
              THEN [job EXCEPT ![a.job] = [Idle EXCEPT !.at = "queued",
                                           !.src = a.src, !.left = a.left]]
              ELSE job
    /\ UNCHANGED <<picked, sweeps, threadVars, meterVars, switchVars, crashes>>

\* The process that stamped the threads dies, or Redis refuses the addBulk.
LoseAdd(a) ==
    /\ crashes < MaxCrashes
    /\ crashes' = crashes + 1
    /\ adds' = adds \ {a}
    /\ UNCHANGED <<job, picked, sweeps, threadVars, meterVars, switchVars>>

\* The enqueues of one bulk operation. API queues set no attempts: BullMQ then
\* runs a job once.
AddsFor(S, kind, src, tries) ==
    {[job |-> <<t, kind>>, src |-> src, left |-> tries] : t \in S}

Stamped(S) == [t \in Threads |-> IF t \in S THEN "fresh" ELSE stamp[t]]

-----------------------------------------------------------------------------
(* The classify-thread handler.                                            *)

Thread(j) == j[1]
IsTriage(j) == j[2] = "triage"

Active == {j \in Jobs : job[j].at \in Running}

OneTooMany == Cardinality(Active) <= Concurrency   \* mutant

HasSlot == Cardinality(Active) < Concurrency

\* Section 1: load the thread, the connection and the bulk-mail setting. A
\* workspace without an active connection returns before the try block.
Load(j) ==
    /\ job[j].at = "queued"
    /\ HasSlot
    /\ \/ /\ ~conn
          /\ job' = [job EXCEPT ![j] = Idle]
       \/ /\ conn
          /\ \E bulk \in (IF "bulk" \in Events THEN BOOLEAN ELSE {FALSE}) :
                job' = [job EXCEPT
                          ![j].at = IF IsTriage(j) THEN "stamp"
                                    ELSE IF job[j].src = "MANUAL" THEN "count" ELSE "pin",
                          ![j].met = ~IsTriage(j) /\ job[j].src # "BACKFILL" /\ ~bulk]
    /\ UNCHANGED <<adds, picked, sweeps, threadVars, meterVars, switchVars, crashes>>

CheckPinOfLiveSorts(j) ==   \* mutant
    /\ job[j].at = "pin"
    /\ IF job[j].src = "LIVE" /\ lastRow[Thread(j)] = "MOVE"
       THEN Return(j) ELSE Goto(j, "count")
    /\ UNCHANGED <<adds, picked, sweeps, threadVars, meterVars, switchVars, crashes>>

\* Section 1a: a thread whose latest classification is a manual move is pinned.
CheckPin(j) ==
    /\ job[j].at = "pin"
    /\ IF lastRow[Thread(j)] = "MOVE" THEN Return(j) ELSE Goto(j, "count")
    /\ UNCHANGED <<adds, picked, sweeps, threadVars, meterVars, switchVars, crashes>>

\* Section 1b: a thread already counted in this month's window is neither gated
\* nor metered again.
CountRows(j) ==
    /\ job[j].at = "count"
    /\ LET met == job[j].met /\ month \notin counted[Thread(j)]
       IN  job' = [job EXCEPT ![j].at = IF met /\ Enforce THEN "gate" ELSE "stamp",
                              ![j].met = met,
                              ![j].win = IF met THEN month ELSE 0]
    /\ UNCHANGED <<adds, picked, sweeps, threadVars, meterVars, switchVars, crashes>>

\* The read of the pooled meter against the plan's limit.
CheckQuota(j) ==
    /\ job[j].at = "gate"
    /\ Goto(j, IF used[job[j].win] >= Limit THEN "defer" ELSE "stamp")
    /\ UNCHANGED <<adds, picked, sweeps, threadVars, meterVars, switchVars, crashes>>

Defer(j) ==
    /\ job[j].at = "defer"
    /\ status' = [status EXCEPT ![Thread(j)] = "QUOTA_BLOCKED"]
    /\ Return(j)
    /\ UNCHANGED <<adds, picked, sweeps, stamp, failedAt, attempts, lastRow>>
    /\ UNCHANGED <<meterVars, switchVars, crashes>>

\* Section 1c.
StampThread(j) ==
    /\ job[j].at = "stamp"
    /\ stamp' = [stamp EXCEPT ![Thread(j)] = "fresh"]
    /\ Goto(j, "sort")
    /\ UNCHANGED <<adds, picked, sweeps, status, failedAt, attempts, lastRow>>
    /\ UNCHANGED <<meterVars, switchVars, crashes>>

\* Sections 2 to 6b: fetch the thread, load the taxonomy, embed and route. No
\* shared state is written; what matters is how it ends. The taxonomy may not be
\* routable, the provider may have lost the thread, the thread may hold no text;
\* triage-only jobs touch no status.
Sort(j) ==
    /\ job[j].at = "sort"
    /\ \/ IsTriage(j) /\ lastRow[Thread(j)] # "NONE" /\ Return(j)
       \/ ~IsTriage(j) /\ ~routable /\ Return(j)
       \/ "gone" \in Events /\ Return(j)
       \/ /\ ~IsTriage(j) /\ routable
          /\ \E out \in Outcomes :
                job' = [job EXCEPT ![j].at = "commit", ![j].out = out]
       \/ /\ ~IsTriage(j) /\ routable /\ "noText" \in Events
          /\ Goto(j, "file")
       \/ Throw(j)
       \/ ThrowForGood(j)
    /\ UNCHANGED <<adds, picked, sweeps, threadVars, meterVars, switchVars, crashes>>

\* A MailAuthError while fetching flips the connection and ends the job.
AuthFailure(j) ==
    /\ "auth" \in Events
    /\ job[j].at = "sort"
    /\ conn' = FALSE
    /\ Return(j)
    /\ UNCHANGED <<adds, picked, sweeps, threadVars, meterVars, crashes>>
    /\ UNCHANGED <<paused, routable, started, filling, armed>>

\* The definitions named "mutant" are what a plausible bug would turn the next
\* definition into; no specification uses them, and each must break a property.
RecordMeterUsageUntokened(w, t) ==   \* mutant
    /\ markers' = markers \cup {<<w, t>>}
    /\ used' = [used EXCEPT ![w] = @ + 1]

\* recordMeterUsage with a token: the first claim of the token adds one.
RecordMeterUsage(w, t) ==
    /\ markers' = markers \cup {<<w, t>>}
    /\ used' = IF <<w, t>> \in markers THEN used ELSE [used EXCEPT ![w] = @ + 1]

CountedSource(src) == src \notin {"BACKFILL", "MOVE", "MIGRATION"}

\* A new EmailClassification becomes the thread's latest.
AddRow(t, src) ==
    /\ lastRow' = [lastRow EXCEPT ![t] = IF src \in {"LIVE", "BACKFILL", "REROUTE"}
                                         THEN "AUTO" ELSE src]
    /\ counted' = IF CountedSource(src)
                  THEN [counted EXCEPT ![t] = @ \cup {month}] ELSE counted

CommitMeterApart(j) ==   \* mutant: the meter survives a rolled-back sort
    /\ job[j].at = "commit"
    /\ IF job[j].met THEN RecordMeterUsage(job[j].win, Thread(j))
                     ELSE UNCHANGED <<markers, used>>
    /\ \/ AddRow(Thread(j), job[j].src) /\ Goto(j, "status")
       \/ Throw(j) /\ UNCHANGED <<lastRow, counted>>
    /\ UNCHANGED <<month, adds, picked, sweeps, status, stamp, failedAt, attempts>>
    /\ UNCHANGED <<switchVars, crashes>>

\* Section 7: the classification and its meter increment, in one transaction.
Commit(j) ==
    /\ job[j].at = "commit"
    /\ \/ /\ AddRow(Thread(j), job[j].src)
          /\ IF job[j].met
             THEN RecordMeterUsage(job[j].win, Thread(j))
             ELSE UNCHANGED <<markers, used>>
          /\ job' = [job EXCEPT ![j] = [At(j, "status") EXCEPT !.out = job[j].out]]
          /\ UNCHANGED month
       \/ /\ Throw(j)
          /\ UNCHANGED <<lastRow, meterVars>>
    /\ UNCHANGED <<adds, picked, sweeps, status, stamp, failedAt, attempts, switchVars, crashes>>

\* The status is a second write, after the transaction.
WriteStatus(j) ==
    /\ job[j].at = "status"
    /\ \/ /\ status' = [status EXCEPT ![Thread(j)] = job[j].out]
          /\ failedAt' = [failedAt EXCEPT ![Thread(j)] = FALSE]
          /\ attempts' = [attempts EXCEPT ![Thread(j)] = 0]
          /\ job' = [job EXCEPT ![j] = At(j, "triage")]
       \/ /\ Throw(j)
          /\ UNCHANGED <<status, failedAt, attempts>>
    /\ UNCHANGED <<adds, picked, sweeps, stamp, lastRow, meterVars, switchVars, crashes>>

FileNoTextWithoutRow(j) ==   \* mutant
    /\ job[j].at = "file"
    /\ Goto(j, "review")
    /\ UNCHANGED <<adds, picked, sweeps, threadVars, meterVars, switchVars, crashes>>

\* A thread without text is filed for review: a row that is not metered, then
\* the status.
FileNoText(j) ==
    /\ job[j].at = "file"
    /\ \/ /\ AddRow(Thread(j), job[j].src)
          /\ job' = [job EXCEPT ![j] = At(j, "review")]
       \/ /\ Throw(j)
          /\ UNCHANGED <<lastRow, counted>>
    /\ UNCHANGED <<adds, picked, sweeps, status, stamp, failedAt, attempts>>
    /\ UNCHANGED <<markers, used, month, switchVars, crashes>>

ReviewNoText(j) ==
    /\ job[j].at = "review"
    /\ \/ /\ status' = [status EXCEPT ![Thread(j)] = "NEEDS_REVIEW"]
          /\ failedAt' = [failedAt EXCEPT ![Thread(j)] = FALSE]
          /\ attempts' = [attempts EXCEPT ![Thread(j)] = 0]
          /\ Return(j)
       \/ /\ Throw(j)
          /\ UNCHANGED <<status, failedAt, attempts>>
    /\ UNCHANGED <<adds, picked, sweeps, stamp, lastRow, meterVars, switchVars, crashes>>

\* persistEmbeddingTriage can still throw once the sort has landed.
PersistTriage(j) ==
    /\ job[j].at = "triage"
    /\ Return(j) \/ Throw(j)
    /\ UNCHANGED <<adds, picked, sweeps, threadVars, meterVars, switchVars, crashes>>

\* The finally block.
Settle(j) ==
    /\ job[j].at = "settle"
    /\ stamp' = [stamp EXCEPT ![Thread(j)] = "null"]
    /\ job' = IF job[j].ok THEN [job EXCEPT ![j] = Idle]
                           ELSE [job EXCEPT ![j].at = "failed"]
    /\ UNCHANGED <<adds, picked, sweeps, status, failedAt, attempts, lastRow>>
    /\ UNCHANGED <<meterVars, switchVars, crashes>>

MarkClassifyFailed(t) ==
    /\ stamp' = [stamp EXCEPT ![t] = "null"]
    /\ failedAt' = [failedAt EXCEPT ![t] = TRUE]
    /\ attempts' = [attempts EXCEPT ![t] = IF @ < MaxClassifyAttempts THEN @ + 1 ELSE @]

FailedEventOnceMore(j) ==   \* mutant: >= for >
    /\ job[j].at = "failed"
    /\ job' = [job EXCEPT ![j] = IF job[j].left >= 1
                                    THEN [At(j, "queued") EXCEPT !.left = @ - 1]
                                    ELSE Idle]
    /\ MarkClassifyFailed(Thread(j))
    /\ UNCHANGED <<adds, picked, sweeps, status, lastRow, meterVars, switchVars, crashes>>

\* BullMQ requeues the job while attempts are left, and emits "failed" each time.
FailedEvent(j) ==
    /\ job[j].at = "failed"
    /\ job' = [job EXCEPT ![j] = IF job[j].left > 1
                                    THEN [At(j, "queued") EXCEPT !.left = @ - 1]
                                    ELSE Idle]
    /\ MarkClassifyFailed(Thread(j))
    /\ UNCHANGED <<adds, picked, sweeps, status, lastRow, meterVars, switchVars, crashes>>

\* The worker process dies: no finally block. The stalled check requeues the
\* job, or fails it once it has stalled too often.
Crash(j) ==
    /\ job[j].at \in Running
    /\ crashes < MaxCrashes
    /\ crashes' = crashes + 1
    /\ IF job[j].stalls < MaxStalls
       THEN /\ job' = [job EXCEPT ![j] = [At(j, "queued") EXCEPT !.stalls = @ + 1]]
            /\ UNCHANGED <<stamp, failedAt, attempts>>
       ELSE /\ job' = [job EXCEPT ![j] = Idle]
            /\ MarkClassifyFailed(Thread(j))
    /\ UNCHANGED <<adds, picked, sweeps, status, lastRow, meterVars, switchVars>>

-----------------------------------------------------------------------------
(* Bulk enqueues: a findMany picks the threads, an unconditional updateMany *)
(* stamps them, addBulk enqueues them.                                     *)

Unstamped(S) == {t \in Threads : status[t] \in S /\ stamp[t] = "null"}

CandidatesUnstamped(op) ==   \* mutant: every sweep wants classifyingAt null
    CASE op = "quota"  -> Unstamped({"QUOTA_BLOCKED"})
      [] op = "failed" -> {t \in Unstamped({"PENDING"}) :
                              failedAt[t] /\ attempts[t] < MaxClassifyAttempts}
      [] OTHER         -> {}

CandidatesTooFew(op) ==   \* mutant: the bound on attempts is off by one
    CASE op = "quota"  -> Unstamped({"QUOTA_BLOCKED"})
      [] op = "failed" -> {t \in Unstamped({"PENDING"}) :
                              failedAt[t] /\ attempts[t] < MaxClassifyAttempts - 1}
      [] op = "stale"  -> {t \in Threads : status[t] = "PENDING" /\ stamp[t] = "old"}
      [] op = "armed"  -> {t \in Unstamped({"PENDING"}) : ~failedAt[t]}

Candidates(op) ==
    CASE op = "quota"  -> Unstamped({"QUOTA_BLOCKED"})
      [] op = "failed" -> {t \in Unstamped({"PENDING"}) :
                              failedAt[t] /\ attempts[t] < MaxClassifyAttempts}
      [] op = "stale"  -> {t \in Threads : status[t] = "PENDING" /\ stamp[t] = "old"}
      [] op = "armed"  -> {t \in Unstamped({"PENDING"}) : ~failedAt[t]}

\* The end of an inbox sync: when sorting is on and the taxonomy is routable it
\* runs its recovery sweeps in this order, the last one if it has read the armed
\* flag; a backfill chunk runs that one alone.
Rank == [quota |-> 1, failed |-> 2, stale |-> 3, armed |-> 4]

StartRecovery ==
    /\ sweeps = {}
    /\ conn /\ ~paused /\ routable
    /\ \/ sweeps' = {op \in SyncOps : SweepKind[op] \in Kinds /\ (op = "armed" => armed)}
       \/ filling /\ armed /\ sweeps' = {"armed"}
    /\ UNCHANGED <<job, adds, picked, threadVars, meterVars, switchVars, crashes>>

Due(op) == op \in sweeps /\ \A other \in sweeps : Rank[op] <= Rank[other]

PickRecovery(op) ==
    /\ Due(op)
    /\ picked[op] = {}
    /\ picked' = [picked EXCEPT ![op] = Candidates(op)]
    /\ sweeps' = IF Candidates(op) = {} THEN sweeps \ {op} ELSE sweeps
    /\ UNCHANGED <<job, adds, threadVars, meterVars, switchVars, crashes>>

RoomBelowLimit(S) == IF ~Enforce \/ used[month] + Cardinality(S) < Limit   \* mutant
                     THEN {S} ELSE {{}}

\* enqueueRecovery takes no more threads than the month has sorts left;
\* enqueueArmedBacklog routes the never-attempted backlog as BACKFILL.
Room(S) == IF ~Enforce \/ Cardinality(S) + used[month] <= Limit THEN {S}
           ELSE IF used[month] >= Limit THEN {{}}
           ELSE {R \in SUBSET S : Cardinality(R) = Limit - used[month]}

\* The thread rows are stamped, then the jobs added; a sweep's limit of 200 is left out.
EnqueueRecovery(op) ==
    /\ Due(op)
    /\ picked[op] # {}
    /\ \E S \in (IF op = "armed" THEN {picked[op]} ELSE Room(picked[op])) :
          /\ stamp' = Stamped(S)
          /\ status' = [t \in Threads |->
                           IF t \in S /\ op = "quota" THEN "PENDING" ELSE status[t]]
          /\ adds' = adds \cup AddsFor(S, SweepKind[op],
                                       IF op = "armed" THEN "BACKFILL" ELSE "LIVE", Tries)
    /\ picked' = [picked EXCEPT ![op] = {}]
    /\ sweeps' = sweeps \ {op}
    /\ UNCHANGED <<job, failedAt, attempts, lastRow, meterVars, switchVars, crashes>>

\* Nothing more is asked for while MaxWaiting requests, enqueues and jobs wait
\* (a bound).
Calm == Cardinality(adds) + Cardinality({op \in Ops : picked[op] # {}})
          + Cardinality({j \in Jobs : job[j].at = "queued"}) < MaxWaiting

\* Step 5 of a sync that stored a changed message set: stamp, then enqueue.
SyncChanged(t) ==
    /\ Calm
    /\ conn /\ ~paused /\ routable /\ started
    /\ \E k \in LiveKinds \cap Kinds :
          adds' = adds \cup AddsFor({t}, k, "LIVE", Tries)
    /\ stamp' = Stamped({t})
    /\ UNCHANGED <<job, picked, sweeps, status, failedAt, attempts, lastRow>>
    /\ UNCHANGED <<meterVars, switchVars, crashes>>

-----------------------------------------------------------------------------
(* The API. At most one request per endpoint is between its read and its   *)
(* write (a bound).                                                        *)

\* POST triage (move): the row and the status in one transaction.
Move(t) ==
    /\ "move" \in Events
    /\ AddRow(t, "MOVE")
    /\ status' = [status EXCEPT ![t] = "SORTED"]
    /\ UNCHANGED <<queueVars, stamp, failedAt, attempts, markers, used, month>>
    /\ UNCHANGED <<switchVars, crashes>>

\* POST ai-classify: a soft check of the quota, the stamp, the enqueue.
AiClassify(t) ==
    /\ "classify" \in Kinds /\ Calm
    /\ routable
    /\ Enforce /\ conn => used[month] < Limit
    /\ stamp' = Stamped({t})
    /\ adds' = adds \cup AddsFor({t}, "classify", "MANUAL", 1)
    /\ UNCHANGED <<job, picked, sweeps, status, failedAt, attempts, lastRow>>
    /\ UNCHANGED <<meterVars, switchVars, crashes>>

\* POST ai-triage: re-analyse without routing.
AiTriage(t) ==
    /\ "triage" \in Kinds /\ Calm
    /\ lastRow[t] # "NONE"
    /\ stamp' = Stamped({t})
    /\ adds' = adds \cup AddsFor({t}, "triage", "LIVE", 1)
    /\ UNCHANGED <<job, picked, sweeps, status, failedAt, attempts, lastRow>>
    /\ UNCHANGED <<meterVars, switchVars, crashes>>

Pause ==
    /\ "resume" \in Kinds
    /\ paused' = TRUE
    /\ UNCHANGED <<queueVars, threadVars, meterVars, crashes>>
    /\ UNCHANGED <<conn, routable, started, filling, armed>>

\* POST resume unpauses, and re-enqueues the waiting threads when the taxonomy
\* is routable.
Resume ==
    /\ "resume" \in Kinds /\ Calm
    /\ picked["resume"] = {}
    /\ paused' = FALSE
    /\ picked' = IF routable THEN [picked EXCEPT !["resume"] = Unstamped({"PENDING"})]
                             ELSE picked
    /\ UNCHANGED <<job, adds, sweeps, threadVars, meterVars, crashes>>
    /\ UNCHANGED <<conn, routable, started, filling, armed>>

\* POST route-unrouted: the first call stamps the boundary and routes the
\* backlog as BACKFILL, a later one as REROUTE; both end by arming auto-routing
\* while a backfill is in flight.
RouteUnrouted ==
    /\ "unrouted" \in Kinds /\ Calm
    /\ routable
    /\ picked["routeFirst"] \cup picked["route"] = {}
    /\ started' = TRUE
    /\ picked' = [picked EXCEPT ![IF started THEN "route" ELSE "routeFirst"] =
                                    Unstamped({"PENDING"})]
    /\ armed' = (armed \/ (filling /\ Unstamped({"PENDING"}) = {}))
    /\ UNCHANGED <<job, adds, sweeps, threadVars, meterVars, crashes>>
    /\ UNCHANGED <<conn, paused, routable, filling>>

\* POST reroute-unclassified and reroute-needs-review. Which threads the second
\* finds eligible depends on the age of the taxonomy and of their last row.
StatusToReroute == [unclassified |-> "UNCLASSIFIED", needsReview |-> "NEEDS_REVIEW"]

Reroute(op) ==
    /\ op \in Kinds /\ Calm
    /\ picked[op] = {}
    /\ LET waiting == Unstamped({StatusToReroute[op]})
       IN  \E S \in (IF op = "needsReview" THEN SUBSET waiting ELSE {waiting}) :
              picked' = [picked EXCEPT ![op] = S]
    /\ UNCHANGED <<job, adds, sweeps, threadVars, meterVars, switchVars, crashes>>

\* enqueueThreadsForRouting and resume: the write half.
RouteKind   == [resume |-> "resume", routeFirst |-> "unrouted", route |-> "unrouted",
                unclassified |-> "unclassified", needsReview |-> "needsReview"]

EnqueueForRouting(op) ==
    /\ picked[op] # {}
    /\ stamp' = Stamped(picked[op])
    /\ status' = [t \in Threads |->
                     IF t \in picked[op] /\ op # "resume" THEN "PENDING" ELSE status[t]]
    /\ adds' = adds \cup AddsFor(picked[op], RouteKind[op],
                                 IF op = "routeFirst" THEN "BACKFILL" ELSE "REROUTE", 1)
    /\ picked' = [picked EXCEPT ![op] = {}]
    /\ armed' = (armed \/ (filling /\ op \in {"routeFirst", "route"}))
    /\ UNCHANGED <<job, sweeps, failedAt, attempts, lastRow, meterVars, crashes>>
    /\ UNCHANGED <<conn, paused, routable, started, filling>>

\* POST taxonomy import: threads of mapped folders migrate, the others re-sort.
ImportTaxonomy ==
    /\ "migration" \in Kinds /\ Calm
    /\ picked["import"] \cup picked["migrate"] = {}
    /\ \E mapped \in SUBSET {t \in Threads : lastRow[t] # "NONE"} :
          picked' = [picked EXCEPT
            !["migrate"] = {t \in mapped : status[t] \in {"SORTED", "QUOTA_BLOCKED"}},
            !["import"] = {t \in Threads :
                /\ lastRow[t] # "NONE"
                /\ \/ status[t] \in {"NEEDS_REVIEW", "UNCLASSIFIED"}
                   \/ status[t] = "SORTED" /\ t \notin mapped}]
    /\ UNCHANGED <<job, adds, sweeps, threadVars, meterVars, switchVars, crashes>>

\* The import's transaction: PENDING and stamped for the re-sort, a MIGRATION
\* row for the others.
ApplyImport ==
    /\ picked["import"] \cup picked["migrate"] # {}
    /\ LET resort == picked["import"]
           moved  == picked["migrate"]
       IN  /\ status' = [t \in Threads |-> IF t \in resort THEN "PENDING" ELSE status[t]]
           /\ stamp' = Stamped(resort)
           /\ lastRow' = [t \in Threads |-> IF t \in moved THEN "MIGRATION" ELSE lastRow[t]]
           /\ adds' = adds \cup AddsFor(resort, "migration", "REROUTE", 1)
    /\ picked' = [picked EXCEPT !["import"] = {}, !["migrate"] = {}]
    /\ UNCHANGED <<job, sweeps, failedAt, attempts, meterVars, switchVars, crashes>>

\* DELETE classify: removes the first waiting job it finds under the listed
\* keys (live and failure-recovery keys are not among them) and unstamps.
CancelKeys == {"classify", "resume", "quota", "unrouted", "unclassified",
               "needsReview", "migration"}

\* One queued job is removed, if one is found, and the stamp cleared in any case (a job
\* added between the two is left queued without a stamp, as after a late add).
Cancel(t) ==
    /\ "cancel" \in Events
    /\ LET found == {k \in CancelKeys \cap Kinds : job[<<t, k>>].at = "queued"}
       IN  IF found = {} THEN UNCHANGED job
           ELSE \E k \in found : job' = [job EXCEPT ![<<t, k>>] = Idle]
    /\ stamp' = [stamp EXCEPT ![t] = "null"]
    /\ UNCHANGED <<adds, picked, sweeps, status, failedAt, attempts, lastRow>>
    /\ UNCHANGED <<meterVars, switchVars, crashes>>

\* A user's disconnect: flip, remove the queued jobs, unstamp every thread.
Disconnect ==
    /\ "disconnect" \in Events
    /\ conn
    /\ conn' = FALSE
    /\ job' = [j \in Jobs |-> IF job[j].at = "queued" THEN Idle ELSE job[j]]
    /\ stamp' = [t \in Threads |-> "null"]
    /\ UNCHANGED <<adds, picked, sweeps, status, failedAt, attempts, lastRow>>
    /\ UNCHANGED <<meterVars, paused, routable, started, filling, armed, crashes>>

Reconnect ==
    /\ ~conn
    /\ conn' = TRUE
    /\ UNCHANGED <<queueVars, threadVars, meterVars, crashes>>
    /\ UNCHANGED <<paused, routable, started, filling, armed>>

-----------------------------------------------------------------------------
(* The environment.                                                        *)

\* Fifteen minutes pass. Only the stale sweep can tell.
Age(t) ==
    /\ "stale" \in Kinds
    /\ stamp[t] = "fresh"
    /\ stamp' = [stamp EXCEPT ![t] = "old"]
    /\ UNCHANGED <<queueVars, status, failedAt, attempts, lastRow>>
    /\ UNCHANGED <<meterVars, switchVars, crashes>>

NewMonth ==
    /\ month < LastWindow
    /\ month' = month + 1
    /\ UNCHANGED <<queueVars, threadVars, counted, markers, used, switchVars, crashes>>

EditTaxonomy ==
    /\ "weak" \in Events
    /\ routable' = ~routable
    /\ UNCHANGED <<queueVars, threadVars, meterVars, crashes>>
    /\ UNCHANGED <<conn, paused, started, filling, armed>>

\* backfill-inbox reaches DONE and disarms.
BackfillDone ==
    /\ filling
    /\ filling' = FALSE
    /\ armed' = FALSE
    /\ UNCHANGED <<queueVars, threadVars, meterVars, crashes>>
    /\ UNCHANGED <<conn, paused, routable, started>>

-----------------------------------------------------------------------------
Work(j) ==
    \/ Load(j) \/ CheckPin(j) \/ CountRows(j) \/ CheckQuota(j) \/ Defer(j)
    \/ StampThread(j) \/ Sort(j) \/ AuthFailure(j) \/ Commit(j) \/ WriteStatus(j)
    \/ FileNoText(j) \/ ReviewNoText(j)
    \/ PersistTriage(j) \/ Settle(j) \/ FailedEvent(j)

Sync ==
    \/ StartRecovery
    \/ \E op \in SyncOps : PickRecovery(op) \/ EnqueueRecovery(op)

Request ==
    \/ \E t \in Threads : Move(t) \/ AiClassify(t) \/ AiTriage(t) \/ Cancel(t)
    \/ Pause \/ Resume \/ RouteUnrouted
    \/ \E op \in DOMAIN StatusToReroute : Reroute(op)
    \/ \E op \in DOMAIN RouteKind : EnqueueForRouting(op)
    \/ ImportTaxonomy \/ ApplyImport \/ Disconnect \/ Reconnect

Environment ==
    \/ \E t \in Threads : SyncChanged(t) \/ Age(t)
    \/ \E j \in Jobs : Crash(j)
    \/ \E a \in adds : LoseAdd(a)
    \/ NewMonth \/ EditTaxonomy \/ BackfillDone

Next ==
    \/ \E j \in Jobs : Work(j)
    \/ \E a \in adds : AddBulk(a)
    \/ Sync \/ Request \/ Environment

Spec == Init /\ [][Next]_vars

\* Workers keep running, the scheduler keeps starting syncs, stamps grow old, and
\* a request that has begun ends. Users, mail, crashes and faults owe nothing.
Fairness ==
    /\ \A j \in Jobs : WF_vars(Work(j))
    /\ WF_vars(\E a \in adds : AddBulk(a))
    /\ WF_vars(Sync)
    /\ \A t \in Threads : WF_vars(Age(t))
    /\ WF_vars(ApplyImport \/ \E op \in DOMAIN RouteKind : EnqueueForRouting(op))

FairSpec == Spec /\ Fairness

-----------------------------------------------------------------------------
(* What must hold.                                                         *)

\* A thread leaves PENDING for a sorted state only with a classification behind
\* it: the row is written before the status, and a crash between the two leaves
\* the thread PENDING.
StatusBackedByRow ==
    \A t \in Threads :
        status[t] \in {"SORTED", "NEEDS_REVIEW", "UNCLASSIFIED"} => lastRow[t] # "NONE"

\* The month's meter is the number of distinct threads metered in it, however
\* often a thread is sorted, retried or sorted by two jobs at once
\* (recordMeterUsage and its dedup token).
MeterCountsDistinctThreads ==
    \A w \in Windows : used[w] = Cardinality({t \in Threads : <<w, t>> \in markers})

Ledger == INSTANCE UsageLedger WITH
            Meters <- Windows, Units <- Threads, used <- used,
            charged <- [w \in Windows |-> {t \in Threads : <<w, t>> \in markers}]

\* The sorter is an implementation of the usage ledger: whatever jobs, retries
\* and crashes do, each step charges new units once or leaves the meters alone.
ImplementsLedger == Ledger!LedgerSpec

\* No unit is charged for a sort that did not land: a crash or a fault rolls
\* back the meter together with the classification row (step 7).
ChargedSortsLanded ==
    \A w \in Windows, t \in Threads :
        <<w, t>> \in markers => \E v \in counted[t] : v >= w

\* The quota gate is check-then-act, yet what is charged and what jobs past the
\* gate are about to charge exceed the plan's limit by less than the number of
\* jobs that run at once.
AboutToMeter(w) ==
    {j \in Jobs : job[j].at \in {"stamp", "sort", "commit"} /\ job[j].met /\ job[j].win = w}

OvershootBounded ==
    Enforce => \A w \in Windows :
                  used[w] + Cardinality(AboutToMeter(w)) < Limit + Concurrency

\* A thread under a manual move, with no automatic sort past its pin check.
PastPin == {"count", "gate", "defer", "stamp", "sort", "commit", "status", "file", "review"}

Pinned(t) ==
    /\ lastRow[t] = "MOVE"
    /\ \A j \in Jobs : (Thread(j) = t /\ ~IsTriage(j) /\ job[j].src # "MANUAL")
                        => job[j].at \notin PastPin

\* Once pinned, a thread stays where the user put it through every re-sort,
\* retry and sweep, until the user sorts it or imports a taxonomy.
PinHolds == [][\A t \in Threads : Pinned(t) =>
                  Pinned(t)' \/ lastRow'[t] \in {"MANUAL", "MIGRATION"}]_vars

Healthy == conn /\ ~paused /\ routable /\ (Enforce => used[month] < Limit)

\* A thread does not show "Sorting" for ever, although an enqueue may be lost
\* and a worker may die: the stale sweep finds it, once the workspace stays able
\* to sort.
Sorting(t) == status[t] = "PENDING" /\ stamp[t] # "null"

StuckPendingRecovers ==
    <>[]Healthy => \A t \in Threads : Sorting(t) ~> ~Sorting(t)

\* A thread whose sort failed for good is sorted in the end, or has used up its
\* classifyAttempts.
FailedEventuallySorted ==
    <>[]Healthy => \A t \in Threads :
        (status[t] = "PENDING" /\ failedAt[t]) ~>
            (status[t] # "PENDING" \/ attempts[t] = MaxClassifyAttempts)

\* A quota-deferred thread that no enqueue has stamped resumes once the month
\* has sorts left.
DeferredEventuallyResumes ==
    <>[]Healthy => \A t \in Threads :
        (status[t] = "QUOTA_BLOCKED" /\ stamp[t] = "null") ~>
            ~(status[t] = "QUOTA_BLOCKED" /\ stamp[t] = "null")

-----------------------------------------------------------------------------
(* What the repository says of the program and the code does not do.       *)

\* "Stamp failure markers when a classify job fails permanently" (classify-
\* thread.ts): an attempt is counted only when a job leaves the queue for good.
AttemptsCountPermanentFailures ==
    [][\A t \in Threads : attempts'[t] > attempts[t] =>
          \E k \in Kinds : job[<<t, k>>].at # "idle" /\ job'[<<t, k>>].at = "idle"]_vars

\* A thread the import leaves PENDING for an AI re-sort (taxonomy-import.ts) is
\* sorted in the end, when sorts neither fail nor hit the quota.
ImportedThreadsResort ==
    <>[]Healthy => \A t \in Threads :
        (status[t] = "PENDING" /\ lastRow[t] # "NONE") ~> status[t] # "PENDING"
=============================================================================
