----------------------------- MODULE InboxSync -----------------------------
(***************************************************************************)
(* The delta sync of one mailbox: the sync-inbox queue and its worker,     *)
(* which mirror the provider's threads into EmailThread and EmailMessage   *)
(* rows from a history cursor, and ask for a sort of each thread whose     *)
(* message set changed.                                                    *)
(*                                                                         *)
(* The mailbox is its history: a sequence of changes, and a position in it *)
(* is a cursor.  A message is named by the position it arrived at, so that *)
(* positions also order the messages in time.  One sync at most is queued  *)
(* or running (all enqueuers share a deduplication id); the historical     *)
(* backfill is over or has not begun.                                      *)
(***************************************************************************)
EXTENDS Integers, Sequences, FiniteSets

CONSTANTS
    Threads,     \* the provider's threads
    Recent,      \* length of the page listRecentThreadIds reads
    Tries,       \* attempts of a job the scheduler enqueued
    Sorting,     \* sorting is not paused, the taxonomy is routable, routing has started
    Tears,       \* faults hit in the middle of a thread's writes too
    MaxHistory,  \* bound: changes in the mailbox
    MaxFaults    \* bound: faults, crashes and auth failures in a behaviour

Positions == 1 .. MaxHistory
NoCursor  == -1
Changes   == [kind: {"in", "out", "removed", "hide", "show"}, thread: Threads,
              msg: 0 .. MaxHistory]

ASSUME InboxAssumption ==
    /\ IsFiniteSet(Threads)
    /\ MaxFaults \in Nat
    /\ {Recent, Tries, MaxHistory} \subseteq Nat \ {0}
    /\ {Sorting, Tears} \subseteq BOOLEAN

VARIABLES
    provider,   \* EmailConnection.provider
    history,    \* the mailbox
    conn,       \* EmailConnection.status = ACTIVE
    imported,   \* threads with an EmailThread row
    stored,     \* stored[t]: the EmailMessage rows of the thread
    flagged,    \* threads whose row carries an excluding label flag
    doneAt,     \* EmailThread.resolvedAt, 0 when null
    asked,      \* asked[t]: the message set of the last LIVE sort enqueued
    cursor,     \* ProviderSyncState.historyId
    expired,    \* the provider no longer keeps the history from the cursor
    owedFrom,   \* history: the sync answers for changes of t after owedFrom[t], and for
                \* all of them once it has stored the thread, when it is 0
    sync,       \* the sync-inbox job
    torn,       \* history: threads whose last store failed half-way
    unasked,    \* history: threads an attempt stored and failed before it asked
    faults

mailVars  == <<provider, history, conn>>
rowVars   == <<imported, stored, flagged, doneAt, asked>>
curVars   == <<cursor, expired, owedFrom>>
faultVars == <<torn, unasked, faults>>
vars == <<mailVars, rowVars, curVars, sync, faultVars>>

-----------------------------------------------------------------------------
(* The mailbox.                                                            *)

Now == Len(history)

Of(t) == {p \in 1 .. Now : history[p].thread = t}
Inbound(S) == {p \in S : history[p].kind = "in"}
Arrived(t) == {p \in Of(t) : history[p].kind \in {"in", "out"}}

Latest(S) == IF S = {} THEN 0 ELSE CHOOSE p \in S : \A q \in S : q <= p

\* The messages not removed: trashed in Gmail, moved out of the folder in Outlook.
Box(t) == {m \in Arrived(t) :
             \A p \in Of(t) : ~(history[p].kind = "removed" /\ history[p].msg = m)}

\* Spam and promotions labels, which the user may give and take back.
Labelled(m, t) ==
    LET since(kind) == Latest({p \in Of(t) : p > m /\ history[p].kind = kind})
    IN  since("hide") > since("show")

\* What getThreadSnapshot returns. Gmail keeps trashed messages in the thread;
\* Outlook finds no thread once no message of it is left in the inbox folder.
Raw(t)  == IF provider = "GMAIL" THEN Arrived(t) ELSE Box(t)
Gone(t) == IF provider = "GMAIL" THEN Arrived(t) = {} ELSE Inbound(Box(t)) = {}

\* isSentOnlyThreadSnapshot, applyThreadFilter, computeThreadLabelFlags.
SentOnly(t) == Inbound(Raw(t)) = {}
Eligible(t) == {m \in Box(t) : ~Labelled(m, t)}
Excluded(t) == Box(t) = {} \/ \A m \in Raw(t) : Labelled(m, t)

LastChange(t) == Latest(Of(t))

\* The mailbox was not synced for too long.
Expire ==
    /\ cursor # NoCursor /\ ~expired
    /\ expired' = TRUE
    /\ UNCHANGED <<mailVars, rowVars, cursor, owedFrom, sync, faultVars>>

Change(kind, t, m) ==
    /\ Now < MaxHistory
    /\ history' = Append(history, [kind |-> kind, thread |-> t, msg |-> m])
    /\ UNCHANGED <<provider, conn, rowVars, curVars, sync, faultVars>>

Arrive(t, kind)  == Change(kind, t, Now + 1)
Remove(t, m)     == Change("removed", t, m)
Relabel(t, kind) == provider = "GMAIL" /\ Change(kind, t, 0)

\* listChangesSince. Gmail reports every change with its thread. Outlook reports
\* messages still in a folder with their thread, and removals as message ids.
Reported(p) == provider = "GMAIL" \/ p \in Box(history[p].thread)

ChangedSince(c) == {history[p].thread : p \in {q \in c + 1 .. Now : Reported(q)}}

RemovedSince(c) ==
    IF provider = "GMAIL" THEN {}
    ELSE {history[p].msg : p \in {q \in c + 1 .. Now : history[q].kind = "removed"}}

\* Threads whose whole delta is the user's own outgoing mail.
SentOnlySince(c) ==
    {t \in ChangedSince(c) :
        \A p \in Of(t) : p > c /\ Reported(p) => history[p].kind = "out"}

-----------------------------------------------------------------------------
(* The sync-inbox handler.                                                 *)

NoSync == [at |-> "idle", left |-> 0, since |-> NoCursor, upTo |-> 0, reads |-> {},
           todo |-> {}, cand |-> {}, lapsed |-> {}, snap |-> {}, ask |-> {}]

Snapshots == [thread: Threads, keep: SUBSET Positions, eligible: SUBSET Positions,
              excluded: BOOLEAN]

SyncStates == [at : {"idle", "queued", "discover", "resync", "changed", "fetch", "store",
                     "enqueue", "advance"},
               left : 0 .. Tries, since : NoCursor .. MaxHistory, upTo : 0 .. MaxHistory,
               reads : SUBSET {"profile", "recent"}, todo : SUBSET Threads,
               cand : SUBSET Threads, lapsed : SUBSET Threads, snap : SUBSET Snapshots,
               ask : SUBSET Threads]

MailOK ==
    /\ provider \in {"GMAIL", "OUTLOOK"}
    /\ history \in Seq(Changes) /\ Now \in 1 .. MaxHistory
    /\ conn \in BOOLEAN /\ expired \in BOOLEAN
    /\ cursor \in NoCursor .. Now
    /\ owedFrom \in [Threads -> 0 .. Now]
    /\ faults \in 0 .. MaxFaults

RowsOK ==
    /\ imported \subseteq Threads /\ flagged \subseteq imported
    /\ stored \in [Threads -> SUBSET Positions]
    /\ asked \in [Threads -> SUBSET Positions]
    /\ doneAt \in [Threads -> 0 .. MaxHistory]
    /\ torn \cup unasked \subseteq imported

SyncOK ==
    /\ sync \in SyncStates
    /\ sync.at # "idle" => sync.left > 0
    /\ sync.since <= Now /\ sync.upTo <= Now
    /\ sync.ask \subseteq imported
    /\ \A s1, s2 \in sync.snap : s1 = s2

TypeOK == MailOK /\ RowsOK /\ SyncOK

\* A mailbox with some mail: just connected, or with its backfill done, when some
\* of its threads are imported and a cursor has been taken.
Init ==
    /\ provider \in {"GMAIL", "OUTLOOK"}
    /\ history \in {<<[kind |-> "in", thread |-> t, msg |-> 1]>> : t \in Threads}
    /\ conn = TRUE
    /\ cursor \in {NoCursor, Now}
    /\ imported \in (IF cursor = NoCursor THEN {{}} ELSE SUBSET {t \in Threads : Of(t) # {}})
    /\ stored = [t \in Threads |-> IF t \in imported THEN Box(t) ELSE {}]
    /\ flagged = {}
    /\ doneAt = [t \in Threads |-> 0]
    /\ asked = stored
    /\ expired = FALSE
    /\ owedFrom = [t \in Threads |-> IF t \in imported THEN 0 ELSE Now]
    /\ sync = NoSync
    /\ torn = {} /\ unasked = {}
    /\ faults = 0

\* The scheduler's tick sets the queue's attempts; webhooks and trigger-sync add
\* through the API's queue, which sets none.
EnqueueSync(left) ==
    /\ conn
    /\ sync.at = "idle"
    /\ sync' = [NoSync EXCEPT !.at = "queued", !.left = left]
    /\ UNCHANGED <<mailVars, rowVars, curVars, faultVars>>

\* Sections 1 and 2: without an active connection nothing is done.
Begin ==
    /\ sync.at = "queued"
    /\ sync' = IF conn THEN [NoSync EXCEPT !.at = "discover", !.left = sync.left,
                                           !.since = cursor]
                       ELSE NoSync
    /\ UNCHANGED <<mailVars, rowVars, curVars, faultVars>>

\* Section 3 on the first sync: a cursor at "now", and nothing to import. What
\* came before is the backfill's.
DiscoverFirst ==
    /\ sync.at = "discover" /\ sync.since = NoCursor
    /\ sync' = [sync EXCEPT !.at = "advance", !.upTo = Now, !.lapsed = Threads]
    /\ UNCHANGED <<mailVars, rowVars, curVars, faultVars>>

ResolveByNothing(S) == {}   \* mutant: a removal reported without its thread is dropped

\* A removed message's thread is looked up in our own rows.
ResolveRemovedThreadIds(S) == {t \in Threads : stored[t] \cap S # {}}

DiscoverDelta ==
    /\ sync.at = "discover" /\ sync.since # NoCursor /\ ~expired
    /\ sync' = [sync EXCEPT !.at = "changed", !.upTo = Now,
                  !.todo = ChangedSince(sync.since) \cup
                           ResolveRemovedThreadIds(RemovedSince(sync.since)),
                  !.cand = SentOnlySince(sync.since)]
    /\ UNCHANGED <<mailVars, rowVars, curVars, faultVars>>

ExpiredIsAnError ==   \* mutant: the expired cursor is not told from other errors
    /\ sync.at = "discover" /\ sync.since # NoCursor /\ expired
    /\ sync' = IF sync.left = 1 THEN NoSync
               ELSE [NoSync EXCEPT !.at = "queued", !.left = sync.left - 1]
    /\ UNCHANGED <<mailVars, rowVars, curVars, faultVars>>

\* The provider no longer keeps the history: a full resync from two reads that
\* run at the same time.
CursorExpired ==
    /\ sync.at = "discover" /\ sync.since # NoCursor /\ expired
    /\ sync' = [sync EXCEPT !.at = "resync", !.reads = {"profile", "recent"}]
    /\ UNCHANGED <<mailVars, rowVars, curVars, faultVars>>

ReadDone(read) == IF sync.reads = {read} THEN "changed" ELSE "resync"

ReadProfile ==
    /\ sync.at = "resync" /\ "profile" \in sync.reads
    /\ sync' = [sync EXCEPT !.at = ReadDone("profile"), !.reads = @ \ {"profile"},
                            !.upTo = Now]
    /\ UNCHANGED <<mailVars, rowVars, curVars, faultVars>>

\* What listRecentThreadIds lists of a thread: its latest message in Gmail, which
\* leaves spam out and lists promotions, and each inbox message in Outlook.
Heads(t, spam) ==
    LET box == IF spam THEN Eligible(t) ELSE Box(t)
    IN  IF provider = "GMAIL" THEN {Latest(box)} \ {0} ELSE Inbound(box)

ListRecent(spam) ==
    LET later(m) == {n \in UNION {Heads(t, spam) : t \in Threads} : n > m}
    IN  {t \in Threads : \E m \in Heads(t, spam) : Cardinality(later(m)) < Recent}

\* The sync no longer answers for what happened meanwhile to threads not listed.
ReadRecent ==
    /\ sync.at = "resync" /\ "recent" \in sync.reads
    /\ \E S \in {ListRecent(spam) : spam \in BOOLEAN} :
          sync' = [sync EXCEPT !.at = ReadDone("recent"), !.reads = @ \ {"recent"},
                               !.todo = S, !.lapsed = Threads \ S]
    /\ UNCHANGED <<mailVars, rowVars, curVars, faultVars>>

\* Section 3b: outgoing mail that was never imported is skipped without a fetch.
DropSentOnly ==
    /\ sync.at = "changed"
    /\ LET kept == sync.todo \ (sync.cand \ imported)
       IN  sync' = [sync EXCEPT !.at = IF kept = {} THEN "advance" ELSE "fetch",
                                !.todo = kept, !.cand = {}]
    /\ UNCHANGED <<mailVars, rowVars, curVars, faultVars>>

\* The loop of section 4 with one thread less to do.
NextThread(s, t) ==
    [s EXCEPT !.todo = @ \ {t}, !.snap = {},
              !.at = IF s.todo # {t} THEN "fetch"
                     ELSE IF s.ask # {} /\ Sorting THEN "enqueue" ELSE "advance"]

\* A thread that is gone, or holds only the user's own mail and was never
\* imported, is skipped.
Fetch(t) ==
    /\ sync.at = "fetch" /\ t \in sync.todo
    /\ sync' = IF Gone(t) \/ (SentOnly(t) /\ t \notin imported)
               THEN NextThread(sync, t)
               ELSE [sync EXCEPT !.at = "store", !.snap =
                       {[thread |-> t, keep |-> Box(t), eligible |-> Eligible(t),
                         excluded |-> Excluded(t)]}]
    /\ UNCHANGED <<mailVars, rowVars, curVars, faultVars>>

UpsertThread(s) ==
    /\ imported' = imported \cup {s.thread}
    /\ flagged' = IF s.excluded THEN flagged \cup {s.thread} ELSE flagged \ {s.thread}

\* The rows after the upsert of the eligible messages and the delete of those no
\* longer in the thread.
Mirrored(s) == (stored[s.thread] \cup s.eligible) \cap s.keep

ClearDoneByFirst(s) ==   \* mutant: the earliest external message is compared
    LET first == CHOOSE m \in Positions \cup {0} :
                    /\ m \in Inbound(s.eligible) \/ (m = 0 /\ Inbound(s.eligible) = {})
                    /\ \A n \in Inbound(s.eligible) : m <= n
    IN  doneAt' = [doneAt EXCEPT ![s.thread] = IF @ < first THEN 0 ELSE @]

\* The done mark yields to an external message that arrived after it.
ClearDone(s) ==
    doneAt' = [doneAt EXCEPT ![s.thread] =
                 IF @ < Latest(Inbound(s.eligible)) THEN 0 ELSE @]

SetGrew(s) == s.eligible \ stored[s.thread] # {}   \* mutant: removals are not asked for

\* messageAdded or messageRemoved.
SetChanged(s) == s.eligible \ stored[s.thread] # {} \/ stored[s.thread] \ s.keep # {}

\* A thread whose message set changed is to be sorted again.
Store(s) ==
    /\ sync.at = "store" /\ s \in sync.snap
    /\ UpsertThread(s)
    /\ torn' = torn \ {s.thread}
    /\ owedFrom' = [owedFrom EXCEPT ![s.thread] = 0]
    /\ IF s.eligible = {}
       THEN /\ UNCHANGED <<stored, doneAt>>
            /\ sync' = NextThread(sync, s.thread)
       ELSE /\ stored' = [stored EXCEPT ![s.thread] = Mirrored(s)]
            /\ ClearDone(s)
            /\ sync' = NextThread([sync EXCEPT !.ask =
                          IF SetChanged(s) THEN @ \cup {s.thread} ELSE @],
                          s.thread)
    /\ UNCHANGED <<mailVars, asked, cursor, expired, unasked, faults>>

\* Section 5.
EnqueueClassify ==
    /\ sync.at = "enqueue"
    /\ asked' = [t \in Threads |-> IF t \in sync.ask THEN stored[t] ELSE asked[t]]
    /\ sync' = [sync EXCEPT !.at = "advance", !.ask = {}]
    /\ unasked' = unasked \ sync.ask
    /\ UNCHANGED <<mailVars, imported, stored, flagged, doneAt, curVars, torn, faults>>

\* Section 6, and the quiet branch. The recovery sweeps that follow are modelled
\* with the sorter.
AdvanceCursor ==
    /\ sync.at = "advance"
    /\ cursor' = sync.upTo /\ expired' = FALSE
    /\ owedFrom' = [t \in Threads |-> IF t \in sync.lapsed THEN sync.upTo ELSE owedFrom[t]]
    /\ sync' = NoSync
    /\ UNCHANGED <<mailVars, rowVars, faultVars>>

\* The job is tried again from the start, or has had its last attempt. The failed
\* event follows every attempt, and an auth error flips the connection.
Again(left) == IF left = 0 THEN NoSync ELSE [NoSync EXCEPT !.at = "queued", !.left = left]

Busy == sync.at \notin {"idle", "queued"} /\ faults < MaxFaults

Fail(auth) ==
    /\ Busy
    /\ faults' = faults + 1
    /\ conn' = (conn /\ ~auth)
    /\ unasked' = unasked \cup sync.ask
    /\ sync' = Again(sync.left - 1)
    /\ UNCHANGED <<provider, history, rowVars, curVars, torn>>

\* The worker dies: the stalled job is queued again.
Crash ==
    /\ Busy
    /\ faults' = faults + 1
    /\ unasked' = unasked \cup sync.ask
    /\ sync' = Again(sync.left)
    /\ UNCHANGED <<mailVars, rowVars, curVars, torn>>

\* A fault in the middle of the writes of one thread: the messages are upserted
\* one by one, then deleted, then the done mark is cleared.
FailInStore(s) ==
    /\ Busy /\ Tears
    /\ sync.at = "store" /\ s \in sync.snap
    /\ UpsertThread(s)
    /\ \E S \in {stored[s.thread] \cup E : E \in SUBSET s.eligible} \cup {Mirrored(s)} :
          stored' = [stored EXCEPT ![s.thread] = S]
    /\ torn' = torn \cup {s.thread}
    /\ unasked' = unasked \cup sync.ask \cup {s.thread}
    /\ faults' = faults + 1
    /\ sync' = Again(sync.left - 1)
    /\ UNCHANGED <<mailVars, doneAt, asked, curVars>>

-----------------------------------------------------------------------------
\* POST and DELETE resolve.
Resolve(t) ==
    /\ t \in imported
    /\ doneAt' = [doneAt EXCEPT ![t] = IF @ = 0 THEN Now ELSE 0]
    /\ UNCHANGED <<mailVars, imported, stored, flagged, asked, curVars, sync, faultVars>>

Reconnect ==
    /\ ~conn
    /\ conn' = TRUE
    /\ UNCHANGED <<provider, history, rowVars, curVars, sync, faultVars>>

Work ==
    \/ Begin \/ DiscoverFirst \/ DiscoverDelta \/ CursorExpired
    \/ ReadProfile \/ ReadRecent \/ DropSentOnly
    \/ \E t \in Threads : Fetch(t)
    \/ \E s \in sync.snap : Store(s)
    \/ EnqueueClassify \/ AdvanceCursor

Mailbox ==
    \E t \in Threads :
        \/ \E kind \in {"in", "out"} : Arrive(t, kind)
        \/ \E m \in Box(t) : Remove(t, m)
        \/ \E kind \in {"hide", "show"} : Relabel(t, kind)

Next ==
    \/ Work
    \/ \E left \in {1, Tries} : EnqueueSync(left)
    \/ Mailbox
    \/ Expire
    \/ \E auth \in BOOLEAN : Fail(auth)
    \/ Crash
    \/ \E s \in sync.snap : FailInStore(s)
    \/ \E t \in Threads : Resolve(t)
    \/ Reconnect

Spec == Init /\ [][Next]_vars

\* The worker polls its queue and the scheduler ticks. Mail, users and faults owe
\* nothing.
FairSpec == Spec /\ WF_vars(Work) /\ WF_vars(EnqueueSync(Tries))

-----------------------------------------------------------------------------
(* What must hold.                                                         *)

\* The sync answers for the thread: it has stored it, and has listed it ever since the
\* cursor expired, or there is a later change that is reported, in a thread that is
\* imported already or of mail from others.
Answered(t) ==
    \/ owedFrom[t] = 0
    \/ \E p \in Of(t) : /\ owedFrom[t] < p /\ Reported(p)
                        /\ t \in imported \/ p \in Inbound(Box(t))

\* The thread's last change is behind a valid cursor. Outlook does not report a thread
\* again whose new mail was removed before the retry of an attempt that failed while it
\* stored the thread.
Behind(t) ==
    /\ ~Gone(t) /\ ~expired
    /\ provider = "OUTLOOK" => t \notin torn
    /\ LastChange(t) <= cursor
    /\ Answered(t)

\* Once a change is behind the cursor it is mirrored, whatever attempts failed
\* half-way and wherever mail arrived in between: the cursor advances last, and a
\* removal that only the rows can resolve is not missed (sync-inbox.ts sections 3
\* to 6).
NoChangeLost ==
    \A t \in Threads : Behind(t) =>
        /\ t \in imported
        /\ Excluded(t) <=> t \in flagged
        /\ Eligible(t) # {} => Eligible(t) \subseteq stored[t] /\ stored[t] \subseteq Box(t)

\* A thread marked as done has no external mail later than its mark once the
\* cursor has passed that mail.
DoneYieldsToNewMail ==
    \A t \in Threads : Behind(t) /\ doneAt[t] # 0 =>
        Latest(Inbound(Eligible(t))) <= doneAt[t]

\* The last sort asked for is one of the messages stored now, in the threads S.
SortedAsStored(S) ==
    sync.at = "idle" /\ Sorting =>
        \A t \in S : LastChange(t) <= cursor => asked[t] = stored[t]

\* A changed message set is asked a sort for before the cursor leaves the change
\* behind, and a label change never hides one (sync-inbox.ts sections 4 to 6). The
\* threads an attempt stored before it failed are the exception.
ChangesSorted == SortedAsStored(Threads \ unasked)

\* Every change is behind the cursor in the end, as long as the mailbox stays
\* connected.
ChangesReachCursor ==
    <>[]conn => \A p \in Positions : Now >= p ~> cursor >= p

-----------------------------------------------------------------------------
(* What the repository says of the program and the code does not do.       *)

\* "If addBulk fails, the job throws and BullMQ retries with the old historyId, so
\* the same changed thread IDs are re-discovered and classification is
\* re-attempted" (sync-inbox.ts): a retry asks for the sort that an attempt owed a
\* sorted thread when it failed after it stored the thread.
ResortAfterRetry == SortedAsStored({t \in Threads : asked[t] # {}})
=============================================================================
