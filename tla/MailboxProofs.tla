---------------------------- MODULE MailboxProofs ----------------------------
(***************************************************************************)
(* What is mirrored from a mailbox and into it, for every value of the     *)
(* constants: the rows the delta sync of InboxSync keeps, and the labels   *)
(* LabelWriteback puts on threads (Mirror below).                          *)
(***************************************************************************)
EXTENDS InboxSync, FiniteSetTheorems, TLAPS

CONSTANTS Folders, Paths, MaxLabels, None, MaxEdits, MaxMishaps
VARIABLES path, latest, name, made, carries, link, on, adding, jobs, run, adrift, edits,
          mishaps

Mirror == INSTANCE LabelWriteback

-----------------------------------------------------------------------------
(* The delta sync.                                                         *)

LEMMA Constants ==
    /\ MaxHistory \in Nat /\ MaxHistory >= 1 /\ MaxFaults \in Nat
    /\ Tries \in Nat /\ Tries >= 1
BY InboxAssumption

\* The messages of a thread are positions of the mailbox so far.
LEMMA BoxTyped ==
    ASSUME MailOK, NEW t \in Threads
    PROVE  /\ Box(t) \subseteq Arrived(t) /\ Arrived(t) \subseteq Of(t)
           /\ Of(t) \subseteq 1 .. Now
           /\ Eligible(t) \subseteq Box(t)
           /\ 1 .. Now \subseteq Positions
BY Constants DEF MailOK, Box, Arrived, Of, Eligible, Positions

LEMMA NoSyncTyped == NoSync \in SyncStates
BY Constants DEF NoSync, SyncStates, NoCursor

LEMMA InitTyped == Init => TypeOK
<1>.  SUFFICES ASSUME Init PROVE TypeOK
      OBVIOUS
<1>1. PICK u \in Threads : history = <<[kind |-> "in", thread |-> u, msg |-> 1]>>
      BY DEF Init
<1>2. history \in Seq(Changes) /\ Now = 1
      BY <1>1, Constants DEF Changes, Now
<1>3. MailOK
      <2>1. cursor \in NoCursor .. Now
            BY <1>2 DEF Init, NoCursor
      <2>2. owedFrom \in [Threads -> 0 .. Now]
            BY <1>2 DEF Init
      <2>3. Now \in 1 .. MaxHistory /\ faults \in 0 .. MaxFaults
            BY <1>2, Constants DEF Init
      <2>.  QED BY <1>2, <2>1, <2>2, <2>3 DEF Init, MailOK
<1>4. \A t \in Threads : Box(t) \subseteq Positions
      BY <1>3, BoxTyped
<1>5. RowsOK
      BY <1>4, Constants DEF Init, RowsOK
<1>6. SyncOK
      BY <1>2, NoSyncTyped DEF Init, SyncOK, NoSync, NoCursor
<1>.  QED BY <1>3, <1>5, <1>6 DEF TypeOK

-----------------------------------------------------------------------------
(* The variables keep their types.                                         *)

LEMMA AgainTyped ==
    ASSUME NEW left \in 0 .. Tries
    PROVE  /\ Again(left) \in SyncStates
           /\ Again(left).at # "idle" => Again(left).left > 0
           /\ Again(left).since = NoCursor /\ Again(left).upTo = 0
           /\ Again(left).ask = {} /\ Again(left).snap = {}
           /\ Again(left).at \in {"idle", "queued"}
<1>1. CASE left = 0
      BY <1>1, NoSyncTyped DEF Again, NoSync
<1>2. CASE left # 0
      <2>1. Again(left) = [NoSync EXCEPT !.at = "queued", !.left = left]
            BY <1>2 DEF Again
      <2>2. Again(left) \in SyncStates
            BY <2>1, NoSyncTyped DEF SyncStates
      <2>3. left > 0
            BY <1>2, Constants
      <2>.  QED BY <2>1, <2>2, <2>3 DEF NoSync
<1>.  QED BY <1>1, <1>2

LEMMA NextThreadTyped ==
    ASSUME NEW s \in SyncStates, NEW t
    PROVE  /\ NextThread(s, t) \in SyncStates
           /\ NextThread(s, t) = [s EXCEPT !.todo = s.todo \ {t}, !.snap = {},
                                           !.at = NextThread(s, t).at]
           /\ NextThread(s, t).at \in {"fetch", "enqueue", "advance"}
BY DEF NextThread, SyncStates

\* What a step of the mailbox, the scheduler or the users keeps.
LEMMA OutsideTyped ==
    ASSUME TypeOK,
           \/ Mailbox \/ Expire \/ Reconnect
           \/ \E left \in {1, Tries} : EnqueueSync(left)
           \/ \E t \in Threads : Resolve(t)
    PROVE  TypeOK'
<1>1. ASSUME NEW t \in Threads, NEW kind \in {"in", "out", "removed", "hide", "show"},
             NEW m \in 0 .. MaxHistory, Change(kind, t, m)
      PROVE  TypeOK'
      <2>1. history' \in Seq(Changes) /\ Now' = Now + 1 /\ Now' \in 1 .. MaxHistory
            BY <1>1, Constants DEF Change, TypeOK, MailOK, Changes, Now
      <2>2. MailOK'
            BY <1>1, <2>1, Constants DEF Change, TypeOK, MailOK, curVars, faultVars, NoCursor
      <2>3. RowsOK'
            BY <1>1 DEF Change, TypeOK, RowsOK, rowVars, faultVars
      <2>4. SyncOK'
            BY <1>1, <2>1 DEF Change, TypeOK, MailOK, SyncOK, rowVars, SyncStates, NoCursor
      <2>.  QED BY <2>2, <2>3, <2>4 DEF TypeOK
<1>2. CASE Mailbox
      <2>1. PICK t \in Threads :
                \/ \E kind \in {"in", "out"} : Arrive(t, kind)
                \/ \E m \in Box(t) : Remove(t, m)
                \/ \E kind \in {"hide", "show"} : Relabel(t, kind)
            BY <1>2 DEF Mailbox
      <2>2. ASSUME NEW kind \in {"in", "out"}, Arrive(t, kind)
            PROVE  TypeOK'
            <3>1. Now + 1 \in 0 .. MaxHistory
                  BY <2>2, Constants DEF Arrive, Change, TypeOK, MailOK
            <3>.  QED BY <2>2, <3>1, <1>1 DEF Arrive
      <2>3. ASSUME NEW m \in Box(t), Remove(t, m)
            PROVE  TypeOK'
            <3>1. m \in 0 .. MaxHistory
                  BY BoxTyped DEF TypeOK, Positions
            <3>.  QED BY <2>3, <3>1, <1>1 DEF Remove
      <2>4. ASSUME NEW kind \in {"hide", "show"}, Relabel(t, kind)
            PROVE  TypeOK'
            <3>1. 0 \in 0 .. MaxHistory
                  BY Constants
            <3>.  QED BY <2>4, <3>1, <1>1 DEF Relabel
      <2>.  QED BY <2>1, <2>2, <2>3, <2>4
<1>3. CASE Expire
      BY <1>3 DEF Expire, TypeOK, MailOK, RowsOK, SyncOK, mailVars, rowVars, faultVars, Now
<1>4. CASE Reconnect
      BY <1>4 DEF Reconnect, TypeOK, MailOK, RowsOK, SyncOK, rowVars, curVars, faultVars, Now
<1>5. CASE \E left \in {1, Tries} : EnqueueSync(left)
      <2>1. MailOK' /\ RowsOK'
            BY <1>5 DEF EnqueueSync, TypeOK, MailOK, RowsOK, mailVars, rowVars, curVars,
               faultVars, Now
      <2>2. PICK left \in {1, Tries} :
                sync' = [NoSync EXCEPT !.at = "queued", !.left = left]
            BY <1>5 DEF EnqueueSync
      <2>3. left \in 0 .. Tries /\ left > 0
            BY Constants
      <2>4. sync' \in SyncStates
            BY <2>2, <2>3, NoSyncTyped DEF SyncStates
      <2>5. SyncOK'
            BY <1>5, <2>1, <2>2, <2>3, <2>4 DEF SyncOK, MailOK, NoSync, NoCursor
      <2>.  QED BY <2>1, <2>5 DEF TypeOK
<1>6. CASE \E t \in Threads : Resolve(t)
      <2>1. PICK t \in Threads : Resolve(t)
            BY <1>6
      <2>2. doneAt' \in [Threads -> 0 .. MaxHistory]
            BY <2>1, Constants DEF Resolve, TypeOK, MailOK, RowsOK
      <2>.  QED BY <2>1, <2>2 DEF Resolve, TypeOK, MailOK, RowsOK, SyncOK, mailVars, curVars,
               faultVars, Now
<1>.  QED BY <1>2, <1>3, <1>4, <1>5, <1>6

\* A step of the attempt that writes no row.
Reads ==
    \/ Begin \/ DiscoverFirst \/ DiscoverDelta \/ CursorExpired
    \/ ReadProfile \/ ReadRecent \/ DropSentOnly
    \/ \E t \in Threads : Fetch(t)

LEMMA ReadsTyped ==
    ASSUME TypeOK, Reads
    PROVE  TypeOK'
<1>1. /\ sync \in SyncStates /\ Now \in 0 .. MaxHistory /\ cursor \in NoCursor .. MaxHistory
      /\ cursor <= Now /\ sync.ask \subseteq imported
      BY Constants DEF TypeOK, MailOK, SyncOK, NoCursor
<1>2. UNCHANGED <<mailVars, rowVars, curVars, faultVars>>
      BY DEF Reads, Begin, DiscoverFirst, DiscoverDelta, CursorExpired, ReadProfile, ReadRecent,
         DropSentOnly, Fetch
<1>3. MailOK' /\ RowsOK' /\ Now' = Now /\ imported' = imported
      BY <1>2 DEF TypeOK, MailOK, RowsOK, mailVars, rowVars, curVars, faultVars, Now
<1>4. SyncOK'
      <2>1. CASE Begin
            <3>1. CASE conn
                  <4>1. sync' = [NoSync EXCEPT !.at = "discover", !.left = sync.left,
                                               !.since = cursor]
                        BY <2>1, <3>1 DEF Begin
                  <4>2. sync' \in SyncStates
                        BY <4>1, <1>1, NoSyncTyped DEF SyncStates
                  <4>.  QED BY <4>1, <4>2, <1>1, <1>3, <2>1 DEF Begin, TypeOK, MailOK, SyncOK,
                               NoSync, NoCursor
            <3>2. CASE ~conn
                  BY <2>1, <3>2, <1>3, NoSyncTyped DEF Begin, MailOK, SyncOK, NoSync, NoCursor
            <3>.  QED BY <3>1, <3>2
      <2>2. CASE DiscoverFirst
            <3>1. sync' \in SyncStates
                  BY <2>2, <1>1 DEF DiscoverFirst, SyncStates
            <3>.  QED BY <3>1, <2>2, <1>1, <1>3 DEF DiscoverFirst, TypeOK, SyncOK, SyncStates
      <2>3. CASE DiscoverDelta
            <3>1. /\ ChangedSince(sync.since) \subseteq Threads
                  /\ SentOnlySince(sync.since) \subseteq Threads
                  <4>1. \A p \in 1 .. Now : history[p] \in Changes
                        BY DEF TypeOK, MailOK, Now
                  <4>2. \A q \in sync.since + 1 .. Now : q \in 1 .. Now
                        BY <1>1, <2>3 DEF DiscoverDelta, SyncStates, NoCursor
                  <4>.  QED BY <4>1, <4>2 DEF ChangedSince, SentOnlySince, Changes
            <3>2. ResolveRemovedThreadIds(RemovedSince(sync.since)) \subseteq Threads
                  BY DEF ResolveRemovedThreadIds
            <3>3. sync' \in SyncStates
                  BY <2>3, <3>1, <3>2, <1>1 DEF DiscoverDelta, SyncStates
            <3>.  QED BY <2>3, <3>3, <1>1, <1>3 DEF DiscoverDelta, TypeOK, SyncOK, SyncStates
      <2>4. CASE CursorExpired
            BY <2>4, <1>1, <1>3 DEF CursorExpired, TypeOK, SyncOK, SyncStates
      <2>5. CASE ReadProfile
            <3>1. ReadDone("profile") \in {"changed", "resync"}
                  BY DEF ReadDone
            <3>2. sync' \in SyncStates
                  BY <2>5, <3>1, <1>1 DEF ReadProfile, SyncStates
            <3>.  QED BY <2>5, <3>2, <1>1, <1>3 DEF ReadProfile, TypeOK, SyncOK, SyncStates
      <2>6. CASE ReadRecent
            <3>1. PICK S \in {ListRecent(spam) : spam \in BOOLEAN} :
                      sync' = [sync EXCEPT !.at = ReadDone("recent"), !.reads = @ \ {"recent"},
                                           !.todo = S, !.lapsed = Threads \ S]
                  BY <2>6 DEF ReadRecent
            <3>2. S \subseteq Threads
                  BY DEF ListRecent
            <3>.  QED BY <3>1, <3>2, <2>6, <1>1, <1>3 DEF ReadRecent, ReadDone, TypeOK, SyncOK,
                         SyncStates
      <2>7. CASE DropSentOnly
            BY <2>7, <1>1, <1>3 DEF DropSentOnly, TypeOK, SyncOK, SyncStates
      <2>8. ASSUME NEW t \in Threads, Fetch(t)
            PROVE  SyncOK'
            <3>1. CASE sync' = NextThread(sync, t)
                  <4>1. /\ sync' \in SyncStates
                        /\ sync' = [sync EXCEPT !.todo = sync.todo \ {t}, !.snap = {},
                                                !.at = NextThread(sync, t).at]
                        BY <3>1, <1>1, NextThreadTyped
                  <4>.  QED BY <4>1, <1>1, <1>3, <2>8 DEF Fetch, TypeOK, SyncOK, SyncStates
            <3>2. CASE sync' = [sync EXCEPT !.at = "store", !.snap =
                                   {[thread |-> t, keep |-> Box(t), eligible |-> Eligible(t),
                                     excluded |-> Excluded(t)]}]
                  <4>1. [thread |-> t, keep |-> Box(t), eligible |-> Eligible(t),
                         excluded |-> Excluded(t)] \in Snapshots
                        BY BoxTyped DEF TypeOK, Snapshots, Excluded
                  <4>2. sync' \in SyncStates
                        BY <1>1, <3>2, <4>1 DEF SyncStates
                  <4>3. \A s1, s2 \in sync'.snap : s1 = s2
                        BY <1>1, <3>2 DEF SyncStates
                  <4>4. sync'.left = sync.left /\ sync'.since = sync.since /\ sync'.upTo = sync.upTo
                        /\ sync'.ask = sync.ask
                        BY <1>1, <3>2 DEF SyncStates
                  <4>.  QED BY <4>2, <4>3, <4>4, <1>1, <1>3, <2>8 DEF Fetch, TypeOK, SyncOK
            <3>.  QED BY <3>1, <3>2, <2>8 DEF Fetch
      <2>.  QED BY <2>1, <2>2, <2>3, <2>4, <2>5, <2>6, <2>7, <2>8 DEF Reads
<1>.  QED BY <1>3, <1>4 DEF TypeOK

LEMMA StoreTyped ==
    ASSUME TypeOK, NEW s \in sync.snap, Store(s)
    PROVE  TypeOK'
<1>1. /\ s \in Snapshots /\ sync \in SyncStates /\ s.thread \in Threads
      /\ Now' = Now /\ imported' = imported \cup {s.thread}
      BY DEF TypeOK, SyncOK, SyncStates, Snapshots, Store, mailVars, UpsertThread, Now
<1>2. MailOK'
      BY <1>1 DEF Store, TypeOK, MailOK, mailVars
<1>3. RowsOK'
      <2>1. Mirrored(s) \subseteq Positions /\ Mirrored(s) \in SUBSET Positions
            BY <1>1 DEF Mirrored, Snapshots
      <2>2. stored' \in [Threads -> SUBSET Positions]
            BY <2>1, <1>1 DEF Store, TypeOK, RowsOK
      <2>3. doneAt' \in [Threads -> 0 .. MaxHistory]
            BY <1>1, Constants DEF Store, TypeOK, RowsOK, ClearDone
      <2>4. flagged' \subseteq imported'
            BY <1>1 DEF Store, TypeOK, RowsOK, UpsertThread
      <2>.  QED BY <2>2, <2>3, <2>4, <1>1 DEF Store, TypeOK, RowsOK
<1>4. SyncOK'
      <2>1. PICK S \in {sync.ask, sync.ask \cup {s.thread}} :
                sync' = NextThread([sync EXCEPT !.ask = S], s.thread)
            <3>1. CASE s.eligible = {}
                  <4>1. sync = [sync EXCEPT !.ask = sync.ask]
                        BY <1>1 DEF SyncStates
                  <4>.  QED BY <3>1, <4>1 DEF Store
            <3>2. CASE s.eligible # {}
                  BY <3>2, <1>1 DEF Store, SyncStates
            <3>.  QED BY <3>1, <3>2
      <2>2. [sync EXCEPT !.ask = S] \in SyncStates
            BY <1>1 DEF SyncStates
      <2>3. /\ sync' \in SyncStates
            /\ sync' = [[sync EXCEPT !.ask = S] EXCEPT !.todo = sync.todo \ {s.thread},
                            !.snap = {}, !.at = sync'.at]
            BY <2>1, <2>2, <1>1, NextThreadTyped DEF SyncStates
      <2>4. /\ sync'.left = sync.left /\ sync'.since = sync.since /\ sync'.upTo = sync.upTo
            /\ sync'.ask = S /\ sync'.snap = {}
            BY <2>3, <1>1 DEF SyncStates
      <2>.  QED BY <2>3, <2>4, <1>1 DEF Store, TypeOK, SyncOK
<1>.  QED BY <1>2, <1>3, <1>4 DEF TypeOK

\* The attempt asks for sorts or moves the cursor.
LEMMA LastStepsTyped ==
    ASSUME TypeOK, EnqueueClassify \/ AdvanceCursor
    PROVE  TypeOK'
<1>1. sync \in SyncStates /\ Now' = Now /\ imported' = imported
      BY DEF TypeOK, SyncOK, EnqueueClassify, AdvanceCursor, mailVars, rowVars, Now
<1>2. CASE EnqueueClassify
      <2>1. sync' \in SyncStates
            BY <1>1, <1>2 DEF EnqueueClassify, SyncStates
      <2>2. SyncOK'
            BY <1>1, <1>2, <2>1 DEF EnqueueClassify, TypeOK, SyncOK, SyncStates
      <2>3. RowsOK'
            BY <1>2 DEF EnqueueClassify, TypeOK, RowsOK
      <2>.  QED BY <1>1, <1>2, <2>2, <2>3 DEF EnqueueClassify, TypeOK, MailOK, mailVars, curVars
<1>3. CASE AdvanceCursor
      <2>1. MailOK'
            <3>1. sync.upTo \in 0 .. Now
                  BY <1>1 DEF TypeOK, MailOK, SyncOK, SyncStates
            <3>2. owedFrom' \in [Threads -> 0 .. Now] /\ cursor' \in NoCursor .. Now
                  BY <3>1, <1>3 DEF AdvanceCursor, TypeOK, MailOK, NoCursor
            <3>.  QED BY <3>2, <1>1, <1>3 DEF AdvanceCursor, TypeOK, MailOK, mailVars, faultVars
      <2>2. RowsOK'
            BY <1>3 DEF AdvanceCursor, TypeOK, RowsOK, rowVars, faultVars
      <2>3. SyncOK'
            BY <1>1, <1>3, NoSyncTyped DEF AdvanceCursor, TypeOK, MailOK, SyncOK, NoSync, NoCursor
      <2>.  QED BY <2>1, <2>2, <2>3 DEF TypeOK
<1>.  QED BY <1>2, <1>3

LEMMA FaultsTyped ==
    ASSUME TypeOK,
           \/ \E auth \in BOOLEAN : Fail(auth)
           \/ Crash
           \/ \E s \in sync.snap : FailInStore(s)
    PROVE  TypeOK'
<1>1. /\ sync \in SyncStates /\ sync.left \in 1 .. Tries /\ Now' = Now
      /\ faults' \in 0 .. MaxFaults
      BY Constants DEF TypeOK, MailOK, SyncOK, SyncStates, Fail, Crash, FailInStore, Busy,
         mailVars, Now
<1>2. \E left \in 0 .. Tries : sync' = Again(left)
      BY <1>1, Constants DEF Fail, Crash, FailInStore
<1>3. imported \subseteq imported'
      BY DEF Fail, Crash, FailInStore, rowVars, UpsertThread
<1>4. SyncOK'
      BY <1>1, <1>2, <1>3, AgainTyped DEF TypeOK, MailOK, SyncOK, NoCursor
<1>5. MailOK'
      BY <1>1 DEF Fail, Crash, FailInStore, TypeOK, MailOK, mailVars, curVars
<1>6. RowsOK'
      <2>1. CASE (\E auth \in BOOLEAN : Fail(auth)) \/ Crash
            BY <2>1 DEF Fail, Crash, TypeOK, RowsOK, SyncOK, rowVars
      <2>2. ASSUME NEW s \in sync.snap, FailInStore(s)
            PROVE  RowsOK'
            <3>1. s \in Snapshots /\ s.thread \in Threads
                  BY <1>1 DEF SyncStates, Snapshots
            <3>2. stored[s.thread] \in SUBSET Positions /\ Mirrored(s) \in SUBSET Positions
                  BY <3>1 DEF TypeOK, RowsOK, Mirrored, Snapshots
            <3>3. \A E \in SUBSET s.eligible : stored[s.thread] \cup E \in SUBSET Positions
                  BY <3>1, <3>2 DEF Snapshots
            <3>4. stored' \in [Threads -> SUBSET Positions]
                  BY <2>2, <3>1, <3>2, <3>3 DEF FailInStore, TypeOK, RowsOK
            <3>5. flagged' \subseteq imported' /\ imported' = imported \cup {s.thread}
                  BY <2>2 DEF FailInStore, TypeOK, RowsOK, UpsertThread
            <3>.  QED BY <2>2, <3>1, <3>4, <3>5 DEF FailInStore, TypeOK, RowsOK, SyncOK
      <2>.  QED BY <2>1, <2>2
<1>.  QED BY <1>4, <1>5, <1>6 DEF TypeOK

LEMMA NextTyped == TypeOK /\ [Next]_vars => TypeOK'
<1>.  SUFFICES ASSUME TypeOK, [Next]_vars PROVE TypeOK'
      OBVIOUS
<1>1. CASE UNCHANGED vars
      BY <1>1 DEF vars, TypeOK, MailOK, RowsOK, SyncOK, mailVars, rowVars, curVars, faultVars, Now
<1>2. CASE Work
      BY <1>2, ReadsTyped, StoreTyped, LastStepsTyped DEF Work, Reads
<1>.  QED BY <1>1, <1>2, OutsideTyped, FaultsTyped DEF Next

\* The rows, the cursor and the job keep their types for any number of threads, any
\* bounds and any interleaving of mail, users and faults: an attempt never asks a sort
\* for a thread without a row, and a queued job has an attempt left.
THEOREM SyncTypeCorrect == Spec => []TypeOK
<1>.  QED BY InitTyped, NextTyped, PTL DEF Spec

-----------------------------------------------------------------------------
(* Sorts are asked for.                                                    *)

\* What the last sort of a thread saw is what is stored, unless the attempt under way
\* or one that failed stored it since; the attempt forgets none before it moves the
\* cursor.
AskInv ==
    Sorting => /\ \A t \in Threads \ (unasked \cup sync.ask) : asked[t] = stored[t]
               /\ sync.at \notin {"fetch", "store", "enqueue"} => sync.ask = {}

LEMMA NextThreadAsks ==
    ASSUME NEW s \in SyncStates, NEW t
    PROVE  /\ NextThread(s, t).ask = s.ask
           /\ Sorting /\ s.ask # {} => NextThread(s, t).at \in {"fetch", "enqueue"}
BY DEF NextThread, SyncStates

LEMMA StoreAsks ==
    ASSUME TypeOK, AskInv, NEW s \in sync.snap, Store(s)
    PROVE  AskInv'
<1>1. s \in Snapshots /\ sync \in SyncStates /\ s.thread \in Threads
      BY DEF TypeOK, SyncOK, SyncStates, Snapshots
<1>2. CASE s.eligible = {}
      <2>1. stored' = stored /\ asked' = asked /\ unasked' = unasked
            /\ sync' = NextThread(sync, s.thread)
            BY <1>2 DEF Store
      <2>.  QED BY <2>1, <1>1, NextThreadAsks DEF AskInv
<1>3. CASE s.eligible # {}
      <2>.  DEFINE S == IF SetChanged(s) THEN sync.ask \cup {s.thread} ELSE sync.ask
      <2>1. /\ stored' = [stored EXCEPT ![s.thread] = Mirrored(s)]
            /\ asked' = asked /\ unasked' = unasked
            /\ sync' = NextThread([sync EXCEPT !.ask = S], s.thread)
            BY <1>1, <1>3 DEF Store, SyncStates
      <2>2. [sync EXCEPT !.ask = S] \in SyncStates /\ [sync EXCEPT !.ask = S].ask = S
            BY <1>1 DEF SyncStates
      <2>3. ~SetChanged(s) => Mirrored(s) = stored[s.thread]
            BY DEF SetChanged, Mirrored
      <2>5. stored \in [Threads -> SUBSET Positions]
            BY DEF TypeOK, RowsOK
      <2>6. \A t \in Threads \ (unasked \cup S) : stored'[t] = stored[t]
            BY <2>1, <2>3, <2>5, <1>1
      <2>7. sync.ask \subseteq S
            OBVIOUS
      <2>.  HIDE DEF S
      <2>4. /\ sync'.ask = S
            /\ Sorting /\ S # {} => sync'.at \in {"fetch", "enqueue"}
            <3>1. PICK u \in SyncStates : u = [sync EXCEPT !.ask = S] /\ u.ask = S
                  BY <2>2
            <3>2. sync' = NextThread(u, s.thread)
                  BY <2>1, <3>1
            <3>3. /\ NextThread(u, s.thread).ask = u.ask
                  /\ Sorting /\ u.ask # {} => NextThread(u, s.thread).at \in {"fetch", "enqueue"}
                  BY <3>1, NextThreadAsks, Zenon
            <3>4. sync'.ask = S
                  BY <3>1, <3>2, <3>3
            <3>5. ASSUME Sorting, S # {}
                  PROVE  sync'.at \in {"fetch", "enqueue"}
                  BY <3>1, <3>2, <3>3, <3>5
            <3>.  QED BY <3>4, <3>5
      <2>8. ASSUME Sorting, NEW t \in Threads \ (unasked' \cup sync'.ask)
            PROVE  asked'[t] = stored'[t]
            <3>1. t \in Threads \ (unasked \cup S)
                  BY <2>1, <2>4, <2>8
            <3>2. asked[t] = stored[t]
                  BY <2>7, <2>8, <3>1 DEF AskInv
            <3>.  QED BY <2>1, <2>6, <3>1, <3>2
      <2>9. Sorting /\ sync'.at \notin {"fetch", "store", "enqueue"} => sync'.ask = {}
            BY <2>4
      <2>.  QED BY <2>8, <2>9 DEF AskInv
<1>.  QED BY <1>2, <1>3

LEMMA AskStep == TypeOK /\ AskInv /\ [Next]_vars => AskInv'
<1>.  SUFFICES ASSUME TypeOK, AskInv, [Next]_vars PROVE AskInv'
      OBVIOUS
<1>1. sync \in SyncStates
      BY DEF TypeOK, SyncOK
<1>2. CASE Reads
      <2>1. UNCHANGED <<stored, asked, unasked>>
            BY <1>2 DEF Reads, Begin, DiscoverFirst, DiscoverDelta, CursorExpired, ReadProfile,
               ReadRecent, DropSentOnly, Fetch, rowVars, faultVars
      <2>2. sync'.ask = sync.ask \/ (sync.at = "queued" /\ sync'.ask = {})
            <3>1. ASSUME NEW t \in Threads, Fetch(t)
                  PROVE  sync'.ask = sync.ask
                  BY <1>1, <3>1, NextThreadAsks DEF Fetch, SyncStates
            <3>2. CASE Begin
                  BY <3>2 DEF Begin, NoSync
            <3>3. CASE DiscoverFirst \/ DiscoverDelta \/ CursorExpired
                  BY <1>1, <3>3 DEF DiscoverFirst, DiscoverDelta, CursorExpired, SyncStates
            <3>4. CASE ReadProfile \/ ReadRecent \/ DropSentOnly
                  BY <1>1, <3>4 DEF ReadProfile, ReadRecent, DropSentOnly, SyncStates
            <3>.  QED BY <1>2, <3>1, <3>2, <3>3, <3>4 DEF Reads
      <2>3. Sorting /\ sync'.at \notin {"fetch", "store", "enqueue"} => sync'.ask = {}
            <3>1. ASSUME NEW t \in Threads, Fetch(t), Sorting, sync.ask # {}
                  PROVE  sync'.at \in {"fetch", "store", "enqueue"}
                  BY <1>1, <3>1, NextThreadAsks DEF Fetch, SyncStates
            <3>2. CASE \E t \in Threads : Fetch(t)
                  BY <3>1, <3>2, <2>2 DEF Fetch
            <3>3. CASE ~\E t \in Threads : Fetch(t)
                  <4>1. sync.at \notin {"fetch", "store", "enqueue"}
                        BY <1>2, <3>3 DEF Reads, Begin, DiscoverFirst, DiscoverDelta, CursorExpired,
                           ReadProfile, ReadRecent, DropSentOnly
                  <4>.  QED BY <4>1, <2>2 DEF AskInv
            <3>.  QED BY <3>2, <3>3
      <2>4. sync.at = "queued" => sync.ask = {} \/ ~Sorting
            BY DEF AskInv
      <2>.  QED BY <2>1, <2>2, <2>3, <2>4 DEF AskInv
<1>3. CASE \E s \in sync.snap : Store(s)
      BY <1>3, StoreAsks
<1>4. CASE EnqueueClassify
      <2>1. sync'.ask = {} /\ unasked' = unasked \ sync.ask /\ stored' = stored
            BY <1>1, <1>4 DEF EnqueueClassify, SyncStates
      <2>2. \A t \in Threads : asked'[t] = IF t \in sync.ask THEN stored[t] ELSE asked[t]
            BY <1>4 DEF EnqueueClassify
      <2>.  QED BY <2>1, <2>2 DEF AskInv
<1>5. CASE AdvanceCursor
      BY <1>5 DEF AdvanceCursor, AskInv, NoSync, rowVars, faultVars
<1>6. CASE \/ \E auth \in BOOLEAN : Fail(auth)
           \/ Crash
           \/ \E s \in sync.snap : FailInStore(s)
      <2>1. sync.left \in 1 .. Tries
            BY <1>1, <1>6, Constants DEF TypeOK, SyncOK, SyncStates, Fail, Crash, FailInStore, Busy
      <2>2. \E left \in 0 .. Tries : sync' = Again(left)
            BY <1>6, <2>1, Constants DEF Fail, Crash, FailInStore
      <2>3. sync'.ask = {}
            BY <2>2, AgainTyped
      <2>4. CASE (\E auth \in BOOLEAN : Fail(auth)) \/ Crash
            BY <2>3, <2>4 DEF Fail, Crash, AskInv, rowVars
      <2>5. ASSUME NEW s \in sync.snap, FailInStore(s)
            PROVE  AskInv'
            <3>1. \A t \in Threads \ {s.thread} : stored'[t] = stored[t]
                  BY <2>5 DEF FailInStore, TypeOK, RowsOK
            <3>2. asked' = asked /\ unasked' = unasked \cup sync.ask \cup {s.thread}
                  BY <2>5 DEF FailInStore
            <3>.  QED BY <2>3, <3>1, <3>2 DEF AskInv
      <2>.  QED BY <1>6, <2>4, <2>5
<1>7. CASE Mailbox
      BY <1>7 DEF Mailbox, Arrive, Remove, Relabel, Change, AskInv, rowVars, faultVars
<1>8. CASE \/ \E left \in {1, Tries} : EnqueueSync(left)
           \/ Expire \/ Reconnect \/ UNCHANGED vars
           \/ \E t \in Threads : Resolve(t)
      BY <1>8 DEF EnqueueSync, Expire, Reconnect, Resolve, vars, AskInv, NoSync, rowVars, faultVars
<1>.  QED BY <1>2, <1>3, <1>4, <1>5, <1>6, <1>7, <1>8 DEF Next, Work, Reads

\* Once the sync is at rest, the last sort asked for a thread is one of the messages
\* stored for it now, unless an attempt stored it and failed: whatever is added, removed
\* or relabelled meanwhile, and for any number of threads (sync-inbox.ts sections 4 to 6).
THEOREM ChangesAlwaysSorted == Spec => []ChangesSorted
<1>1. Init => AskInv
      BY DEF Init, AskInv, NoSync
<1>2. TypeOK /\ AskInv => ChangesSorted
      BY DEF AskInv, ChangesSorted, SortedAsStored
<1>.  QED BY <1>1, <1>2, InitTyped, NextTyped, AskStep, PTL DEF Spec

-----------------------------------------------------------------------------
(* What the rows keep of the mailbox.                                      *)

\* The changes of the thread are all at c or before.
DoneBy(t, c) == \A p \in Of(t) : p <= c

\* The rows of the thread are what the provider has of it.
Clean(t) ==
    /\ t \in imported
    /\ Excluded(t) <=> t \in flagged
    /\ Eligible(t) # {} => Eligible(t) \subseteq stored[t] /\ stored[t] \subseteq Box(t)
    /\ doneAt[t] = 0 \/ \A m \in Inbound(Eligible(t)) : m <= doneAt[t]

\* Gmail reports each change with its thread: a thread with mail from others between o,
\* from where on the sync answers for it, and c is imported, and one with no change after
\* c is clean.
GmailKept(t, c, o) ==
    /\ (\E p \in Inbound(Arrived(t)) : o < p /\ p <= c) => t \in imported
    /\ /\ ~Gone(t) /\ DoneBy(t, c)
       /\ \/ o = 0
          \/ \E p \in Of(t) : o < p /\ (t \in imported \/ p \in Inbound(Box(t)))
       => Clean(t)

RemovedAfter(t, c) == {history[p].msg : p \in {q \in Of(t) : c < q /\ history[q].kind = "removed"}}

\* Outlook reports removals by message alone, which only the rows can resolve: the rows
\* have every message up to c, and nothing but what was removed after c besides.
OutlookRows(t, c) ==
    /\ t \in imported /\ t \notin flagged
    /\ \A m \in Box(t) : m <= c => m \in stored[t]
    /\ stored[t] \subseteq Box(t) \cup RemovedAfter(t, c)
    /\ doneAt[t] = 0 \/ \A m \in Inbound(Box(t)) : m <= c => m <= doneAt[t]

OutlookKept(t, c, o) ==
    /\ t \notin torn
    /\ \E m \in Inbound(Box(t)) : m <= c
    /\ \/ o = 0
       \/ \E m \in Box(t) : o < m /\ m <= c /\ (t \in imported \/ m \in Inbound(Box(t)))
    => o = 0 /\ OutlookRows(t, c)

Kept(t, c, o) == IF provider = "GMAIL" THEN GmailKept(t, c, o) ELSE OutlookKept(t, c, o)

-----------------------------------------------------------------------------
(* What an attempt knows.                                                  *)

InFlight == sync.at \in {"changed", "fetch", "store", "enqueue", "advance"}

\* Where the sync answers from once the attempt is through.
OwedNext(t) == IF t \in sync.lapsed THEN sync.upTo ELSE owedFrom[t]

\* The threads the attempt has yet to fetch.
Ahead == IF sync.at = "changed" THEN sync.todo \ (sync.cand \ imported) ELSE sync.todo

\* A snapshot is at least as late as the position c the attempt ends at.
SnapFits(s, c) ==
    LET t == s.thread
    IN  IF provider = "GMAIL"
        THEN DoneBy(t, c) => /\ s.keep = Box(t) /\ s.eligible = Eligible(t)
                             /\ s.excluded <=> Excluded(t)
        ELSE /\ s.eligible = s.keep /\ s.keep # {} /\ ~s.excluded
             /\ \A m \in Box(t) : m <= c => m \in s.keep
             /\ s.keep \subseteq Box(t) \cup RemovedAfter(t, c)

Cursors == NoCursor .. MaxHistory

NoLabelsMoved == provider = "OUTLOOK" => \A p \in 1 .. Now : history[p].kind \notin {"hide", "show"}

RestInv ==
    /\ NoLabelsMoved
    /\ \A t \in Threads : owedFrom[t] = 0 => t \in imported
    /\ sync.at \notin {"idle", "queued"} => sync.since = cursor
    /\ sync.at = "discover" => sync.todo = {} /\ sync.cand = {} /\ sync.lapsed = {}
    /\ ~expired => \A t \in Threads, c, o \in Cursors :
                      c = cursor /\ o = owedFrom[t] => Kept(t, c, o)

\* The two reads of a resync, in either order.
ResyncInv ==
    sync.at = "resync" =>
        /\ expired /\ sync.cand = {} /\ sync.reads # {}
        /\ "profile" \notin sync.reads => 1 <= sync.upTo /\ cursor <= sync.upTo
        /\ "recent" \notin sync.reads => sync.lapsed = Threads \ sync.todo

FlightInv ==
    InFlight =>
        /\ cursor <= sync.upTo
        /\ sync.lapsed \cap sync.todo = {}
        /\ sync.lapsed # {} => 1 <= sync.upTo
        /\ sync.at \in {"enqueue", "advance"} => sync.todo = {}
        /\ ~expired /\ provider = "GMAIL" =>
              \A t \in sync.todo, c \in Cursors : c = cursor => ~DoneBy(t, c)
        /\ \A t \in Threads \ Ahead, c, o \in Cursors :
              c = sync.upTo /\ o = OwedNext(t) => Kept(t, c, o)

SnapInv ==
    sync.at = "store" =>
        \A s \in sync.snap : /\ s.thread \in sync.todo
                             /\ \A c \in Cursors : c = sync.upTo => SnapFits(s, c)

MirrorInv == RestInv /\ ResyncInv /\ FlightInv /\ SnapInv

-----------------------------------------------------------------------------
(* The mailbox moves on.                                                   *)

\* Nothing happens to the thread at the provider.
SameThread(t) ==
    /\ provider' = provider
    /\ Of(t)' = Of(t) /\ Arrived(t)' = Arrived(t) /\ Box(t)' = Box(t)
    /\ \A p \in Of(t) : history'[p] = history[p]
    /\ Inbound(Box(t))' = Inbound(Box(t))
    /\ Eligible(t)' = Eligible(t) /\ Inbound(Eligible(t))' = Inbound(Eligible(t))
    /\ Excluded(t)' <=> Excluded(t)
    /\ Gone(t)' <=> Gone(t)
    /\ SentOnly(t)' <=> SentOnly(t)

LEMMA ThreadUntouched ==
    ASSUME NEW t \in Threads, provider' = provider, Of(t)' = Of(t),
           \A p \in Of(t) : history'[p] = history[p]
    PROVE  SameThread(t)
<1>1. Arrived(t)' = Arrived(t)
      BY DEF Arrived
<1>2. Box(t)' = Box(t)
      BY <1>1 DEF Box
<1>3. \A S : S \subseteq Of(t) => {p \in S : history'[p].kind = "in"} = {p \in S : history[p].kind = "in"}
      OBVIOUS
<1>4. Box(t) \subseteq Arrived(t) /\ Arrived(t) \subseteq Of(t) /\ Eligible(t) \subseteq Of(t)
      BY DEF Box, Arrived, Eligible
<1>5. Inbound(Box(t))' = Inbound(Box(t)) /\ Inbound(Arrived(t))' = Inbound(Arrived(t))
      BY <1>1, <1>2, <1>3, <1>4 DEF Inbound
<1>6. \A m : Labelled(m, t)' <=> Labelled(m, t)
      <2>1. \A m, kind : {p \in Of(t)' : p > m /\ history'[p].kind = kind}
                          = {p \in Of(t) : p > m /\ history[p].kind = kind}
            OBVIOUS
      <2>.  QED BY <2>1 DEF Labelled
<1>7. Eligible(t)' = Eligible(t)
      BY <1>2, <1>6 DEF Eligible
<1>8. Inbound(Eligible(t))' = Inbound(Eligible(t))
      BY <1>3, <1>4, <1>7 DEF Inbound
<1>9. Raw(t)' = Raw(t) /\ Inbound(Raw(t))' = Inbound(Raw(t))
      BY <1>1, <1>2, <1>3, <1>4 DEF Raw, Inbound
<1>10. (Excluded(t)' <=> Excluded(t)) /\ (Gone(t)' <=> Gone(t)) /\ (SentOnly(t)' <=> SentOnly(t))
      BY <1>1, <1>2, <1>5, <1>6, <1>9 DEF Excluded, Gone, SentOnly
<1>.  QED BY <1>1, <1>2, <1>5, <1>7, <1>8, <1>10 DEF SameThread

LEMMA MailboxStill ==
    ASSUME NEW t \in Threads, UNCHANGED <<provider, history>>
    PROVE  SameThread(t)
<1>1. Of(t)' = Of(t)
      BY DEF Of, Now
<1>.  QED BY <1>1, ThreadUntouched

LEMMA HistoryGrows ==
    ASSUME TypeOK, NEW kind, NEW u, NEW m, Change(kind, u, m)
    PROVE  /\ provider' = provider /\ Now' = Now + 1
           /\ \A p \in 1 .. Now : history'[p] = history[p]
           /\ history'[Now + 1].kind = kind /\ history'[Now + 1].thread = u
           /\ history'[Now + 1].msg = m
<1>1. history \in Seq(Changes) /\ history' = Append(history, [kind |-> kind, thread |-> u, msg |-> m])
      BY DEF Change, TypeOK, MailOK
<1>2. history'[Now + 1] = [kind |-> kind, thread |-> u, msg |-> m]
      BY <1>1 DEF Now
<1>.  QED BY <1>1, <1>2 DEF Change, Now

LEMMA ThreadGrows ==
    ASSUME TypeOK, NEW kind, NEW u, NEW m, Change(kind, u, m), NEW t
    PROVE  Of(t)' = Of(t) \cup (IF t = u THEN {Now + 1} ELSE {})
<1>1. Now \in Nat /\ 1 .. Now + 1 = (1 .. Now) \cup {Now + 1} /\ Now + 1 \notin 1 .. Now
      BY DEF TypeOK, MailOK
<1>2. Of(t)' = {p \in 1 .. Now + 1 : history'[p].thread = t}
      BY HistoryGrows DEF Of
<1>3. \A p \in 1 .. Now : history'[p].thread = history[p].thread
      BY HistoryGrows
<1>4. history'[Now + 1].thread = u
      BY HistoryGrows
<1>.  QED BY <1>1, <1>2, <1>3, <1>4 DEF Of

LEMMA ChangeElsewhere ==
    ASSUME TypeOK, NEW kind, NEW u, NEW m, Change(kind, u, m), NEW t \in Threads, t # u
    PROVE  SameThread(t)
<1>1. Of(t)' = Of(t)
      BY ThreadGrows
<1>2. \A p \in Of(t) : history'[p] = history[p]
      BY HistoryGrows DEF Of
<1>.  QED BY <1>1, <1>2, HistoryGrows, ThreadUntouched

\* A change of a thread is after all before it, and leaves the box as it was but for
\* what arrives or is removed.
LEMMA ChangeHere ==
    ASSUME TypeOK, NEW kind, NEW u \in Threads, NEW m, Change(kind, u, m)
    PROVE  /\ Of(u)' = Of(u) \cup {Now + 1}
           /\ \A x \in Box(u)' : x <= Now => x \in Box(u)
           /\ \A x \in Inbound(Box(u))' : x <= Now => x \in Inbound(Box(u))
           /\ \A x \in Box(u) \ (Box(u)') : kind = "removed" /\ x = m
           /\ \A p \in Of(u) : history'[p] = history[p]
<1>1. Now \in Nat
      BY DEF TypeOK, MailOK
<1>2. Of(u)' = Of(u) \cup {Now + 1}
      BY ThreadGrows
<1>3. Of(u) \subseteq 1 .. Now /\ \A p \in Of(u) : history'[p] = history[p]
      BY HistoryGrows DEF Of
<1>4. \A x \in Arrived(u)' : x <= Now => x \in Arrived(u)
      BY <1>1, <1>2, <1>3 DEF Arrived
<1>5. \A x \in Box(u)' : x <= Now => x \in Box(u)
      BY <1>2, <1>3, <1>4 DEF Box
<1>6. \A x \in Inbound(Box(u))' : x <= Now => x \in Inbound(Box(u))
      BY <1>3, <1>5, BoxTyped DEF Inbound, TypeOK
<1>7. \A x \in Box(u) \ (Box(u)') : kind = "removed" /\ x = m
      <2>1. Arrived(u) \subseteq Arrived(u)'
            BY <1>2, <1>3 DEF Arrived
      <2>2. SUFFICES ASSUME NEW x \in Box(u), x \notin Box(u)'
                     PROVE  kind = "removed" /\ x = m
            OBVIOUS
      <2>3. PICK p \in Of(u)' : history'[p].kind = "removed" /\ history'[p].msg = x
            BY <2>1, <2>2 DEF Box
      <2>4. p = Now + 1
            BY <1>2, <1>3, <2>2, <2>3 DEF Box
      <2>5. history'[Now + 1].kind = kind /\ history'[Now + 1].msg = m
            BY HistoryGrows
      <2>.  QED BY <2>3, <2>4, <2>5
<1>.  QED BY <1>2, <1>3, <1>5, <1>6, <1>7

-----------------------------------------------------------------------------
(* What is kept of a thread stays kept.                                    *)

\* No row of the thread is written.
SameRows(t) ==
    /\ t \in imported' <=> t \in imported
    /\ t \in flagged' <=> t \in flagged
    /\ stored'[t] = stored[t] /\ doneAt'[t] = doneAt[t]
    /\ t \in torn => t \in torn'

\* A bounded set of positions has a last one.
LEMMA HasLast ==
    ASSUME NEW n \in Nat, NEW S, S \subseteq 1 .. n, S # {}
    PROVE  \E p \in S : \A q \in S : q <= p
<1>.  DEFINE T == {n - p : p \in S}
             R == OpToRel(<, Nat)
<1>1. \A p \in S : p \in Nat /\ p <= n /\ n - p \in Nat
      OBVIOUS
<1>2. T \subseteq Nat /\ T # {}
      BY <1>1
<1>3. IsWellFoundedOn(R, Nat)
      BY NatLessThanWellFounded
<1>4. PICK x \in T : \A y \in T : ~(<<y, x>> \in R)
      <2>. HIDE DEF T, R
      <2>. QED BY <1>2, <1>3, WFMin, Zenon
<1>5. ASSUME NEW y \in Nat, NEW z \in Nat, y < z
      PROVE  <<y, z>> \in R
      BY <1>5 DEF OpToRel
<1>6. PICK p \in S : x = n - p
      OBVIOUS
<1>7. ASSUME NEW q \in S
      PROVE  q <= p
      <2>1. n - q \in T /\ n - q \in Nat /\ n - p \in Nat
            BY <1>1
      <2>2. ~(n - q < n - p)
            BY <1>4, <1>5, <1>6, <2>1
      <2>.  QED BY <1>1, <2>2
<1>.  QED BY <1>7

LEMMA LatestIsLast ==
    ASSUME NEW n \in Nat, NEW S, S \subseteq 1 .. n
    PROVE  /\ Latest(S) \in 0 .. n
           /\ S # {} => Latest(S) \in S
           /\ \A p \in S : p <= Latest(S)
<1>1. CASE S = {}
      BY <1>1 DEF Latest
<1>2. CASE S # {}
      <2>1. Latest(S) \in S /\ \A p \in S : p <= Latest(S)
            BY <1>2, HasLast DEF Latest
      <2>2. \A p \in S : p \in 0 .. n
            OBVIOUS
      <2>.  QED BY <2>1, <2>2, Zenon
<1>.  QED BY <1>1, <1>2

LEMMA RemovedSame ==
    ASSUME NEW t \in Threads, NEW c, SameThread(t)
    PROVE  RemovedAfter(t, c)' = RemovedAfter(t, c)
BY DEF SameThread, RemovedAfter

LEMMA KeptStays ==
    ASSUME NEW t \in Threads, NEW c, NEW o, SameThread(t), SameRows(t), Kept(t, c, o)
    PROVE  Kept(t, c, o)'
<1>1. /\ Of(t)' = Of(t) /\ Box(t)' = Box(t) /\ Eligible(t)' = Eligible(t)
      /\ Inbound(Box(t))' = Inbound(Box(t)) /\ Inbound(Eligible(t))' = Inbound(Eligible(t))
      /\ Excluded(t)' <=> Excluded(t)
      /\ Gone(t)' <=> Gone(t)
      /\ provider' = provider
      BY DEF SameThread
<1>2. Inbound(Arrived(t))' = Inbound(Arrived(t))
      BY DEF SameThread, Inbound, Arrived
<1>3. DoneBy(t, c)' <=> DoneBy(t, c)
      BY <1>1 DEF DoneBy
<1>4. Clean(t)' <=> Clean(t)
      BY <1>1 DEF Clean, SameRows
<1>5. OutlookRows(t, c)' <=> OutlookRows(t, c)
      BY <1>1, RemovedSame DEF OutlookRows, SameRows
<1>6. CASE provider = "GMAIL"
      <2>1. GmailKept(t, c, o)'
            BY <1>1, <1>2, <1>3, <1>4, <1>6 DEF Kept, GmailKept, SameRows
      <2>.  QED BY <1>1, <1>6, <2>1 DEF Kept
<1>7. CASE provider # "GMAIL"
      <2>1. OutlookKept(t, c, o)'
            BY <1>1, <1>5, <1>7 DEF Kept, OutlookKept, SameRows
      <2>.  QED BY <1>1, <1>7, <2>1 DEF Kept
<1>.  QED BY <1>6, <1>7

LEMMA SnapStays ==
    ASSUME NEW s, s.thread \in Threads, NEW c, SameThread(s.thread), SnapFits(s, c)
    PROVE  SnapFits(s, c)'
<1>.  DEFINE t == s.thread
<1>1. /\ Of(t)' = Of(t) /\ Box(t)' = Box(t) /\ Eligible(t)' = Eligible(t)
      /\ Excluded(t)' <=> Excluded(t)
      /\ provider' = provider
      BY DEF SameThread
<1>2. RemovedAfter(t, c)' = RemovedAfter(t, c)
      BY RemovedSame
<1>.  QED BY <1>1, <1>2 DEF SnapFits, DoneBy

\* The sync owes nothing of a thread up to the position it answers from.
LEMMA NothingOwed ==
    ASSUME TypeOK, NEW t \in Threads, NEW c \in Cursors, NEW o \in Cursors, c <= o, 1 <= o
    PROVE  Kept(t, c, o)
<1>1. Of(t) \subseteq Positions /\ Box(t) \subseteq Of(t) /\ Arrived(t) \subseteq Of(t)
      BY BoxTyped DEF TypeOK
<1>2. GmailKept(t, c, o)
      BY <1>1 DEF GmailKept, DoneBy, Inbound, Cursors, Positions, NoCursor
<1>3. OutlookKept(t, c, o)
      BY <1>1 DEF OutlookKept, Cursors, Positions, NoCursor
<1>.  QED BY <1>2, <1>3 DEF Kept

LEMMA RemovedGrows ==
    ASSUME TypeOK, NEW kind, NEW u \in Threads, NEW m, Change(kind, u, m), NEW c \in Cursors,
           c <= Now
    PROVE  Box(u) \cup RemovedAfter(u, c) \subseteq Box(u)' \cup RemovedAfter(u, c)'
<1>1. Now \in Nat /\ c < Now + 1
      BY DEF TypeOK, MailOK, Cursors, NoCursor
<1>2. /\ Of(u)' = Of(u) \cup {Now + 1}
      /\ \A x \in Box(u) \ (Box(u)') : kind = "removed" /\ x = m
      /\ \A p \in Of(u) : history'[p] = history[p]
      BY ChangeHere
<1>3. history'[Now + 1].kind = kind /\ history'[Now + 1].msg = m
      BY HistoryGrows
<1>4. RemovedAfter(u, c) \subseteq RemovedAfter(u, c)'
      BY <1>2 DEF RemovedAfter
<1>5. \A x \in Box(u) \ (Box(u)') : x \in RemovedAfter(u, c)'
      BY <1>1, <1>2, <1>3 DEF RemovedAfter
<1>.  QED BY <1>4, <1>5

\* A change of the thread itself is after every cursor taken before it.
LEMMA KeptUnderChange ==
    ASSUME TypeOK, NEW kind, NEW u \in Threads, NEW m, Change(kind, u, m),
           NEW c \in Cursors, c <= Now, NEW o \in Cursors, Kept(u, c, o)
    PROVE  Kept(u, c, o)'
<1>1. Now \in Nat /\ c \in Int
      BY DEF TypeOK, MailOK, Cursors, NoCursor
<1>2. UNCHANGED <<provider, rowVars, torn>>
      BY DEF Change, faultVars
<1>3. /\ Of(u)' = Of(u) \cup {Now + 1}
      /\ \A x \in Box(u)' : x <= Now => x \in Box(u)
      /\ \A x \in Inbound(Box(u))' : x <= Now => x \in Inbound(Box(u))
      /\ \A p \in Of(u) : history'[p] = history[p]
      BY ChangeHere
<1>4. CASE provider = "GMAIL"
      <2>1. ~DoneBy(u, c)'
            <3>1. Now + 1 \in Of(u)' /\ ~(Now + 1 <= c)
                  BY <1>1, <1>3
            <3>.  QED BY <3>1 DEF DoneBy
      <2>2. \A p \in Inbound(Arrived(u))' : p <= c => p \in Inbound(Arrived(u))
            BY <1>1, <1>3 DEF Inbound, Arrived
      <2>3. GmailKept(u, c, o)'
            BY <1>2, <1>4, <2>1, <2>2 DEF Kept, GmailKept, rowVars
      <2>.  QED BY <1>2, <1>4, <2>3 DEF Kept
<1>5. CASE provider # "GMAIL"
      <2>1. \A x \in Box(u)' : x <= c => x \in Box(u) /\ (x \in Inbound(Box(u))' => x \in Inbound(Box(u)))
            <3>1. \A x \in Box(u)' : x \in Int
                  BY <1>3, BoxTyped DEF TypeOK, Box, Arrived, Of
            <3>.  QED BY <1>1, <1>3, <3>1
      <2>2. \A x \in Inbound(Box(u))' : x \in Box(u)'
            BY DEF Inbound
      <2>3. OutlookRows(u, c) => OutlookRows(u, c)'
            BY <1>2, <2>1, <2>2, RemovedGrows DEF OutlookRows, rowVars
      <2>4. OutlookKept(u, c, o)'
            BY <1>2, <1>5, <2>1, <2>2, <2>3 DEF Kept, OutlookKept, rowVars
      <2>.  QED BY <1>2, <1>5, <2>4 DEF Kept
<1>.  QED BY <1>4, <1>5

LEMMA SnapUnderChange ==
    ASSUME TypeOK, NEW kind, NEW u \in Threads, NEW m, Change(kind, u, m),
           NEW c \in Cursors, c <= Now, NEW s, s.thread = u, SnapFits(s, c)
    PROVE  SnapFits(s, c)'
<1>1. Now \in Nat /\ c \in Int /\ provider' = provider
      BY DEF TypeOK, MailOK, Cursors, NoCursor, Change
<1>2. /\ Of(u)' = Of(u) \cup {Now + 1}
      /\ \A x \in Box(u)' : x <= Now => x \in Box(u)
      BY ChangeHere
<1>3. ~DoneBy(u, c)'
      BY <1>1, <1>2 DEF DoneBy
<1>4. \A x \in Box(u)' : x <= c => x \in Box(u)
      <2>1. \A x \in Box(u)' : x \in Int
            BY <1>2, BoxTyped DEF TypeOK, Box, Arrived, Of
      <2>.  QED BY <1>1, <1>2, <2>1
<1>.  QED BY <1>1, <1>3, <1>4, RemovedGrows DEF SnapFits

-----------------------------------------------------------------------------
(* The mailbox, the scheduler and the users keep the invariant.            *)

LEMMA Positioned ==
    ASSUME TypeOK
    PROVE  /\ Now \in Nat /\ 1 <= Now /\ Now \in Cursors
           /\ cursor \in Cursors /\ cursor <= Now
           /\ sync \in SyncStates /\ sync.upTo \in Cursors /\ sync.upTo <= Now
           /\ \A t \in Threads : owedFrom[t] \in Cursors /\ OwedNext(t) \in Cursors
BY Constants DEF TypeOK, MailOK, SyncOK, SyncStates, Cursors, NoCursor, OwedNext

LEMMA MailboxMirrors ==
    ASSUME TypeOK, MirrorInv, Mailbox
    PROVE  MirrorInv'
<1>0. \E u \in Threads : \E kind, m : /\ Change(kind, u, m)
                                      /\ provider = "OUTLOOK" => kind \notin {"hide", "show"}
      <2>1. PICK t \in Threads :
                \/ \E kind \in {"in", "out"} : Arrive(t, kind)
                \/ \E m \in Box(t) : Remove(t, m)
                \/ \E kind \in {"hide", "show"} : Relabel(t, kind)
            BY DEF Mailbox
      <2>2. CASE \E kind \in {"in", "out"} : Arrive(t, kind)
            BY <2>2 DEF Arrive
      <2>3. CASE \E m \in Box(t) : Remove(t, m)
            BY <2>3 DEF Remove
      <2>4. CASE \E kind \in {"hide", "show"} : Relabel(t, kind)
            BY <2>4 DEF Relabel
      <2>.  QED BY <2>1, <2>2, <2>3, <2>4
<1>a. PICK u \in Threads : \E kind, m : /\ Change(kind, u, m)
                                        /\ provider = "OUTLOOK" => kind \notin {"hide", "show"}
      BY <1>0
<1>1. PICK kind, m : /\ Change(kind, u, m)
                     /\ provider = "OUTLOOK" => kind \notin {"hide", "show"}
      BY <1>a
<1>2. UNCHANGED <<provider, rowVars, curVars, sync, faultVars>>
      BY <1>1 DEF Change
<1>3. \A t \in Threads \ {u} : SameThread(t) /\ SameRows(t)
      BY <1>1, <1>2, ChangeElsewhere DEF SameRows, rowVars, faultVars
<1>4. ASSUME NEW t \in Threads, NEW c \in Cursors, NEW o \in Cursors, c <= Now, Kept(t, c, o)
      PROVE  Kept(t, c, o)'
      <2>1. CASE t = u
            BY <1>1, <1>4, <2>1, KeptUnderChange
      <2>2. CASE t # u
            BY <1>3, <1>4, <2>2, KeptStays
      <2>.  QED BY <2>1, <2>2
<1>5. NoLabelsMoved'
      <2>1. /\ Now' = Now + 1 /\ \A p \in 1 .. Now : history'[p] = history[p]
            /\ history'[Now + 1].kind = kind
            BY <1>1, HistoryGrows
      <2>2. \A p \in 1 .. Now + 1 : p \in 1 .. Now \/ p = Now + 1
            BY Positioned
      <2>.  QED BY <1>1, <1>2, <2>1, <2>2 DEF MirrorInv, RestInv, NoLabelsMoved
<1>6. RestInv'
      BY <1>2, <1>4, <1>5, Positioned DEF MirrorInv, RestInv, rowVars, curVars
<1>7. ResyncInv'
      BY <1>2 DEF MirrorInv, ResyncInv, curVars
<1>8. FlightInv'
      <2>1. \A t \in Threads : \A c : DoneBy(t, c)' => DoneBy(t, c)
            BY <1>1, ThreadGrows DEF DoneBy
      <2>2. /\ InFlight' <=> InFlight
            /\ Ahead' = Ahead
            /\ \A t : OwedNext(t)' = OwedNext(t)
            BY <1>2 DEF InFlight, Ahead, OwedNext, rowVars, curVars
      <2>.  QED BY <1>2, <1>4, <2>1, <2>2, Positioned DEF MirrorInv, FlightInv, SyncStates, curVars
<1>9. SnapInv'
      <2>1. \A s \in sync.snap : s.thread \in Threads
            BY Positioned DEF SyncStates, Snapshots
      <2>2. ASSUME NEW s \in sync.snap, NEW c \in Cursors, c <= Now, SnapFits(s, c)
            PROVE  SnapFits(s, c)'
            <3>1. CASE s.thread = u
                  BY <1>1, <2>2, <3>1, SnapUnderChange
            <3>2. CASE s.thread # u
                  BY <1>3, <2>1, <2>2, <3>2, SnapStays
            <3>.  QED BY <3>1, <3>2
      <2>.  QED BY <1>2, <2>2, Positioned DEF MirrorInv, SnapInv
<1>.  QED BY <1>6, <1>7, <1>8, <1>9 DEF MirrorInv

\* When neither the mailbox nor the rows of the thread change, what is kept stays.
LEMMA StillKept ==
    ASSUME UNCHANGED <<provider, history, imported, stored, flagged, doneAt, torn>>
    PROVE  /\ \A t \in Threads : SameThread(t) /\ SameRows(t)
           /\ \A t \in Threads : \A c, o : Kept(t, c, o) => Kept(t, c, o)'
           /\ \A t \in Threads : \A c : DoneBy(t, c)' <=> DoneBy(t, c)
           /\ \A s, c : s.thread \in Threads /\ SnapFits(s, c) => SnapFits(s, c)'
<1>1. \A t \in Threads : SameThread(t) /\ SameRows(t)
      BY MailboxStill DEF SameRows
<1>2. \A t \in Threads : \A c : DoneBy(t, c)' <=> DoneBy(t, c)
      BY <1>1 DEF SameThread, DoneBy
<1>.  QED BY <1>1, <1>2, KeptStays, SnapStays

\* Steps that leave the attempt and the rows alone.
LEMMA AsideMirrors ==
    ASSUME TypeOK, MirrorInv,
           \/ Expire \/ Reconnect \/ UNCHANGED vars
           \/ \E left \in {1, Tries} : EnqueueSync(left)
    PROVE  MirrorInv'
<1>1. /\ UNCHANGED <<provider, history, imported, stored, flagged, doneAt, torn>>
      /\ UNCHANGED <<cursor, owedFrom>> /\ (expired => expired')
      BY DEF Expire, Reconnect, EnqueueSync, vars, mailVars, rowVars, curVars, faultVars
<1>2. /\ \A t \in Threads : \A c, o : Kept(t, c, o) => Kept(t, c, o)'
      /\ \A t \in Threads : \A c : DoneBy(t, c)' <=> DoneBy(t, c)
      /\ \A s, c : s.thread \in Threads /\ SnapFits(s, c) => SnapFits(s, c)'
      BY <1>1, StillKept
<1>3. NoLabelsMoved'
      BY <1>1 DEF MirrorInv, RestInv, NoLabelsMoved, Now
<1>4. CASE sync' = sync
      <2>1. RestInv' /\ ResyncInv'
            BY <1>1, <1>2, <1>3, <1>4 DEF MirrorInv, RestInv, ResyncInv
      <2>2. FlightInv'
            <3>1. /\ InFlight' <=> InFlight
                  /\ Ahead' = Ahead
                  /\ \A t : OwedNext(t)' = OwedNext(t)
                  BY <1>1, <1>4 DEF InFlight, Ahead, OwedNext
            <3>.  QED BY <1>1, <1>2, <1>4, <3>1, Positioned DEF MirrorInv, FlightInv, SyncStates
      <2>3. SnapInv'
            <3>1. \A s \in sync.snap : s.thread \in Threads
                  BY Positioned DEF SyncStates, Snapshots
            <3>.  QED BY <1>2, <1>4, <3>1 DEF MirrorInv, SnapInv
      <2>.  QED BY <2>1, <2>2, <2>3 DEF MirrorInv
<1>5. CASE \E left \in {1, Tries} : EnqueueSync(left)
      <2>1. sync'.at = "queued"
            BY <1>5 DEF EnqueueSync, NoSync
      <2>.  QED BY <1>1, <1>2, <1>3, <2>1 DEF MirrorInv, RestInv, ResyncInv, FlightInv, SnapInv,
                   InFlight
<1>.  QED BY <1>4, <1>5 DEF Expire, Reconnect, vars, curVars, mailVars

\* A done mark set now is later than all mail.
LEMMA ResolveMirrors ==
    ASSUME TypeOK, MirrorInv, NEW u \in Threads, Resolve(u)
    PROVE  MirrorInv'
<1>1. /\ UNCHANGED <<provider, history, imported, stored, flagged, torn>>
      /\ UNCHANGED <<curVars, sync>>
      BY DEF Resolve, mailVars, faultVars
<1>2. /\ u \in imported /\ doneAt'[u] \in {0, Now}
      /\ \A t \in Threads \ {u} : doneAt'[t] = doneAt[t]
      BY DEF Resolve, TypeOK, RowsOK
<1>3. \A t \in Threads : SameThread(t)
      BY <1>1, MailboxStill
<1>4. ASSUME NEW t \in Threads, NEW c \in Cursors, NEW o \in Cursors, Kept(t, c, o)
      PROVE  Kept(t, c, o)'
      <2>1. CASE t # u
            <3>1. SameRows(t)
                  BY <1>1, <1>2, <2>1 DEF SameRows
            <3>.  QED BY <1>3, <1>4, <3>1, KeptStays
      <2>2. CASE t = u
            <3>1. \A m \in Box(u) : m <= Now
                  BY BoxTyped DEF TypeOK
            <3>2. /\ Of(u)' = Of(u) /\ Box(u)' = Box(u) /\ Eligible(u)' = Eligible(u)
                  /\ Inbound(Box(u))' = Inbound(Box(u))
                  /\ Inbound(Eligible(u))' = Inbound(Eligible(u))
                  /\ Excluded(u)' <=> Excluded(u)
                  /\ Gone(u)' <=> Gone(u)
                  BY <1>3 DEF SameThread
            <3>3. Inbound(Eligible(u)) \subseteq Box(u) /\ Inbound(Box(u)) \subseteq Box(u)
                  BY DEF Inbound, Eligible
            <3>4. doneAt'[u] = 0 \/ \A m \in Box(u) : m <= doneAt'[u]
                  BY <1>2, <3>1
            <3>5. CASE provider = "GMAIL"
                  <4>1. Clean(u) => Clean(u)'
                        BY <1>1, <3>2, <3>3, <3>4 DEF Clean
                  <4>2. DoneBy(u, c)' <=> DoneBy(u, c)
                        BY <3>2 DEF DoneBy
                  <4>3. GmailKept(u, c, o)'
                        BY <1>1, <1>2, <1>4, <2>2, <3>2, <3>5, <4>1, <4>2 DEF Kept, GmailKept
                  <4>.  QED BY <1>1, <2>2, <3>5, <4>3 DEF Kept
            <3>6. CASE provider # "GMAIL"
                  <4>1. RemovedAfter(u, c)' = RemovedAfter(u, c)
                        BY <1>3, RemovedSame
                  <4>2. OutlookRows(u, c) => OutlookRows(u, c)'
                        BY <1>1, <3>2, <3>3, <3>4, <4>1 DEF OutlookRows
                  <4>3. OutlookKept(u, c, o)'
                        BY <1>1, <1>2, <1>4, <2>2, <3>2, <3>6, <4>2 DEF Kept, OutlookKept
                  <4>.  QED BY <1>1, <2>2, <3>6, <4>3 DEF Kept
            <3>.  QED BY <3>5, <3>6
      <2>.  QED BY <2>1, <2>2
<1>5. RestInv' /\ ResyncInv'
      BY <1>1, <1>4, Positioned DEF MirrorInv, RestInv, ResyncInv, NoLabelsMoved, curVars, Now
<1>6. FlightInv'
      <2>1. /\ InFlight' <=> InFlight
            /\ Ahead' = Ahead
            /\ \A t : OwedNext(t)' = OwedNext(t)
            BY <1>1 DEF InFlight, Ahead, OwedNext, curVars
      <2>2. \A t \in Threads : \A c : DoneBy(t, c)' <=> DoneBy(t, c)
            BY <1>3 DEF SameThread, DoneBy
      <2>.  QED BY <1>1, <1>4, <2>1, <2>2, Positioned DEF MirrorInv, FlightInv, SyncStates, curVars
<1>7. SnapInv'
      <2>1. \A s \in sync.snap : s.thread \in Threads
            BY Positioned DEF SyncStates, Snapshots
      <2>.  QED BY <1>1, <1>3, <2>1, SnapStays DEF MirrorInv, SnapInv
<1>.  QED BY <1>5, <1>6, <1>7 DEF MirrorInv

-----------------------------------------------------------------------------
(* The attempt keeps the invariant.                                        *)

\* The mailbox, the rows and the cursor stay as they are.
Still == UNCHANGED <<provider, history, imported, stored, flagged, doneAt, torn, curVars>>

LEMMA RestStill ==
    ASSUME TypeOK, MirrorInv, Still,
           sync'.at \notin {"idle", "queued"} => sync'.since = cursor,
           sync'.at # "discover"
    PROVE  RestInv'
<1>1. \A t \in Threads : \A c, o : Kept(t, c, o) => Kept(t, c, o)'
      BY StillKept DEF Still
<1>.  QED BY <1>1 DEF Still, MirrorInv, RestInv, NoLabelsMoved, curVars, Now

LEMMA BeginMirrors ==
    ASSUME TypeOK, MirrorInv, Begin
    PROVE  MirrorInv'
<1>1. Still
      BY DEF Begin, Still, mailVars, rowVars, faultVars
<1>2. \/ sync'.at = "idle"
      \/ /\ sync'.at = "discover" /\ sync'.since = cursor
         /\ sync'.todo = {} /\ sync'.cand = {} /\ sync'.lapsed = {}
      BY DEF Begin, NoSync
<1>3. \A t \in Threads : \A c, o : Kept(t, c, o) => Kept(t, c, o)'
      BY <1>1, StillKept DEF Still
<1>4. RestInv'
      BY <1>1, <1>2, <1>3 DEF Still, MirrorInv, RestInv, NoLabelsMoved, curVars, Now
<1>.  QED BY <1>2, <1>4 DEF MirrorInv, ResyncInv, FlightInv, SnapInv, InFlight

LEMMA DiscoverFirstMirrors ==
    ASSUME TypeOK, MirrorInv, DiscoverFirst
    PROVE  MirrorInv'
<1>1. Still
      BY DEF DiscoverFirst, Still, mailVars, rowVars, faultVars
<1>2. /\ sync'.at = "advance" /\ sync'.since = cursor /\ sync'.upTo = Now
      /\ sync'.todo = {} /\ sync'.lapsed = Threads
      BY Positioned DEF DiscoverFirst, MirrorInv, RestInv, SyncStates
<1>3. \A t \in Threads, c, o \in Cursors : c = Now /\ o = Now => Kept(t, c, o)'
      BY <1>1, Positioned, NothingOwed, StillKept DEF Still
<1>4. FlightInv'
      <2>1. Ahead' = {} /\ \A t \in Threads : OwedNext(t)' = Now
            BY <1>2 DEF Ahead, OwedNext
      <2>.  QED BY <1>1, <1>2, <1>3, <2>1, Positioned DEF FlightInv, Still, curVars
<1>.  QED BY <1>1, <1>2, <1>4, RestStill DEF MirrorInv, ResyncInv, SnapInv

\* What discovery does not list has had no change since the cursor.
LEMMA UnlistedKept ==
    ASSUME TypeOK, MirrorInv, ~expired, cursor # NoCursor, NEW t \in Threads,
           t \notin ChangedSince(cursor) \cup ResolveRemovedThreadIds(RemovedSince(cursor))
    PROVE  \A c, o \in Cursors : c = Now /\ o = owedFrom[t] => Kept(t, c, o)
<1>1. cursor \in Nat /\ cursor <= Now /\ Now \in Nat
      BY Positioned DEF Cursors, NoCursor
<1>2. /\ Of(t) \subseteq 1 .. Now /\ Box(t) \subseteq Arrived(t) /\ Arrived(t) \subseteq Of(t)
      /\ Inbound(Box(t)) \subseteq Box(t) /\ Inbound(Arrived(t)) \subseteq Arrived(t)
      BY BoxTyped DEF TypeOK, Inbound
<1>3. SUFFICES ASSUME NEW c \in Cursors, NEW o \in Cursors, c = Now, o = owedFrom[t]
               PROVE  Kept(t, c, o)
      OBVIOUS
<1>4. Kept(t, cursor, o)
      BY <1>3, Positioned DEF MirrorInv, RestInv
<1>5. \A p \in Of(t) : cursor < p => ~Reported(p) /\ p \in cursor + 1 .. Now
      <2>1. SUFFICES ASSUME NEW p \in Of(t), cursor < p
                     PROVE  ~Reported(p) /\ p \in cursor + 1 .. Now
            OBVIOUS
      <2>2. p \in cursor + 1 .. Now /\ history[p].thread = t
            BY <1>1, <1>2, <2>1 DEF Of
      <2>.  QED BY <2>2 DEF ChangedSince
<1>6. CASE provider = "GMAIL"
      <2>1. \A p \in Of(t) : p <= cursor /\ p <= Now
            BY <1>1, <1>2, <1>5, <1>6 DEF Reported
      <2>2. GmailKept(t, cursor, o) => GmailKept(t, c, o)
            BY <1>2, <1>3, <2>1 DEF GmailKept, DoneBy
      <2>.  QED BY <1>4, <1>6, <2>2 DEF Kept
<1>7. CASE provider # "GMAIL"
      <2>1. \A p \in Box(t) : p <= cursor /\ p <= Now
            BY <1>1, <1>2, <1>5 DEF Reported, Of
      <2>2. RemovedAfter(t, cursor) \subseteq RemovedSince(cursor)
            BY <1>5, <1>7 DEF RemovedAfter, RemovedSince
      <2>3. stored[t] \cap RemovedAfter(t, cursor) = {}
            BY <2>2 DEF ResolveRemovedThreadIds
      <2>4. OutlookRows(t, cursor) => OutlookRows(t, c)
            BY <1>2, <1>3, <2>1, <2>3 DEF OutlookRows
      <2>5. OutlookKept(t, cursor, o) => OutlookKept(t, c, o)
            BY <1>2, <1>3, <2>1, <2>4 DEF OutlookKept
      <2>.  QED BY <1>4, <1>7, <2>5 DEF Kept
<1>.  QED BY <1>6, <1>7

\* A thread never imported has had only outgoing mail since the cursor: nothing of it
\* is owed.
LEMMA SentOnlyKept ==
    ASSUME TypeOK, MirrorInv, ~expired, cursor # NoCursor, NEW t \in Threads,
           t \in SentOnlySince(cursor) \ imported
    PROVE  \A c, o \in Cursors : c = Now /\ o = owedFrom[t] => Kept(t, c, o)
<1>1. cursor \in Nat /\ cursor <= Now /\ Now \in Nat
      BY Positioned DEF Cursors, NoCursor
<1>2. /\ Of(t) \subseteq 1 .. Now /\ Box(t) \subseteq Arrived(t) /\ Arrived(t) \subseteq Of(t)
      /\ Inbound(Box(t)) \subseteq Box(t) /\ Inbound(Arrived(t)) \subseteq Arrived(t)
      /\ Inbound(Box(t)) \subseteq Inbound(Arrived(t))
      BY BoxTyped DEF TypeOK, Inbound
<1>3. SUFFICES ASSUME NEW c \in Cursors, NEW o \in Cursors, c = Now, o = owedFrom[t]
               PROVE  Kept(t, c, o)
      OBVIOUS
<1>4. Kept(t, cursor, o)
      BY <1>3, Positioned DEF MirrorInv, RestInv
<1>5. o # 0
      BY <1>3 DEF MirrorInv, RestInv
<1>6. \A p \in Of(t) : p > cursor /\ Reported(p) => history[p].kind = "out"
      BY DEF SentOnlySince
<1>7. CASE provider = "GMAIL"
      <2>1. \A p \in Inbound(Arrived(t)) : p <= cursor
            BY <1>1, <1>2, <1>6, <1>7 DEF Inbound, Reported
      <2>2. \A p \in Inbound(Arrived(t)) : ~(o < p)
            BY <1>4, <1>7, <2>1 DEF Kept, GmailKept
      <2>3. GmailKept(t, c, o)
            BY <1>2, <1>5, <2>2 DEF GmailKept
      <2>.  QED BY <1>7, <2>3 DEF Kept
<1>8. CASE provider # "GMAIL"
      <2>1. \A m \in Inbound(Box(t)) : m <= cursor
            BY <1>1, <1>2, <1>6 DEF Inbound, Reported, Of
      <2>2. \A m \in Inbound(Box(t)) : ~(o < m) \/ t \in torn
            BY <1>2, <1>4, <1>5, <1>8, <2>1 DEF Kept, OutlookKept
      <2>3. OutlookKept(t, c, o)
            BY <1>2, <1>5, <2>2 DEF OutlookKept
      <2>.  QED BY <1>8, <2>3 DEF Kept
<1>.  QED BY <1>7, <1>8

LEMMA DiscoverDeltaMirrors ==
    ASSUME TypeOK, MirrorInv, DiscoverDelta
    PROVE  MirrorInv'
<1>.  DEFINE changed == ChangedSince(cursor)
             removed == ResolveRemovedThreadIds(RemovedSince(cursor))
<1>1. Still /\ ~expired
      BY DEF DiscoverDelta, Still, mailVars, rowVars, faultVars
<1>2. /\ sync'.at = "changed" /\ sync'.since = cursor /\ sync'.upTo = Now
      /\ sync'.todo = changed \cup removed /\ sync'.cand = SentOnlySince(cursor)
      /\ sync'.lapsed = {} /\ cursor # NoCursor
      BY Positioned DEF DiscoverDelta, MirrorInv, RestInv, SyncStates
<1>3. ASSUME NEW t \in Threads \ Ahead', NEW c \in Cursors, NEW o \in Cursors,
             c = Now, o = owedFrom[t]
      PROVE  Kept(t, c, o)
      <2>1. t \notin changed \cup removed \/ t \in SentOnlySince(cursor) \ imported
            BY <1>1, <1>2, <1>3 DEF Ahead, Still
      <2>.  QED BY <1>1, <1>2, <1>3, <2>1, UnlistedKept, SentOnlyKept
<1>4. provider = "GMAIL" => \A t \in changed \cup removed : ~DoneBy(t, cursor)
      <2>1. SUFFICES ASSUME provider = "GMAIL", NEW t \in changed \cup removed
                     PROVE  ~DoneBy(t, cursor)
            OBVIOUS
      <2>2. t \in changed
            BY <2>1 DEF RemovedSince, ResolveRemovedThreadIds
      <2>3. PICK p \in cursor + 1 .. Now : history[p].thread = t
            BY <2>2 DEF ChangedSince
      <2>4. cursor \in Nat
            BY <1>2, Positioned DEF Cursors, NoCursor
      <2>.  QED BY <2>3, <2>4, Positioned DEF DoneBy, Of
<1>5. FlightInv'
      <2>1. \A t \in Threads : OwedNext(t)' = owedFrom[t]
            BY <1>1, <1>2 DEF OwedNext, Still, curVars
      <2>2. \A t \in Threads \ Ahead', c, o \in Cursors : c = Now /\ o = owedFrom[t] => Kept(t, c, o)'
            BY <1>1, <1>3, StillKept DEF Still
      <2>3. sync'.todo \subseteq Threads
            BY <1>2, BoxTyped, ReadsTyped DEF TypeOK, SyncOK, SyncStates, Reads
      <2>4. provider' = "GMAIL" => \A t \in sync'.todo, c \in Cursors : c = cursor' => ~DoneBy(t, c)'
            BY <1>1, <1>2, <1>4, <2>3, StillKept DEF Still, curVars
      <2>.  QED BY <1>1, <1>2, <2>1, <2>2, <2>4, Positioned DEF FlightInv, Still, curVars
<1>.  QED BY <1>1, <1>2, <1>5, RestStill DEF MirrorInv, ResyncInv, SnapInv

\* Once both reads of a resync are in, the threads not listed are owed nothing from
\* the profile's position on.
LEMMA ResyncMirrors ==
    ASSUME TypeOK, MirrorInv, CursorExpired \/ ReadProfile \/ ReadRecent
    PROVE  MirrorInv'
<1>1. Still /\ sync \in SyncStates
      BY Positioned DEF CursorExpired, ReadProfile, ReadRecent, Still, mailVars, rowVars, faultVars
<1>2. sync'.since = cursor /\ sync'.at \in {"resync", "changed"} /\ expired
      <2>1. sync'.since = sync.since /\ sync'.at \in {"resync", "changed"}
            <3>1. CASE CursorExpired
                  BY <1>1, <3>1 DEF CursorExpired, SyncStates
            <3>2. CASE ReadProfile
                  BY <1>1, <3>2 DEF ReadProfile, ReadDone, SyncStates
            <3>3. CASE ReadRecent
                  BY <1>1, <3>3 DEF ReadRecent, ReadDone, SyncStates
            <3>.  QED BY <3>1, <3>2, <3>3
      <2>2. sync.at \in {"discover", "resync"} /\ (sync.at = "discover" => expired)
            BY DEF CursorExpired, ReadProfile, ReadRecent
      <2>3. sync.since = cursor /\ (sync.at = "resync" => expired)
            BY <2>2 DEF MirrorInv, RestInv, ResyncInv
      <2>.  QED BY <2>1, <2>2, <2>3
<1>3. /\ sync'.cand = {}
      /\ "profile" \notin sync'.reads => 1 <= sync'.upTo /\ cursor <= sync'.upTo
      /\ "recent" \notin sync'.reads => sync'.lapsed = Threads \ sync'.todo
      /\ sync'.at = "changed" => sync'.reads = {}
      /\ sync'.at = "resync" => sync'.reads # {}
      <2>1. CASE CursorExpired
            BY <1>1, <2>1 DEF CursorExpired, MirrorInv, RestInv, SyncStates
      <2>2. CASE ReadProfile
            <3>1. /\ sync'.cand = {} /\ sync'.upTo = Now /\ sync'.reads = sync.reads \ {"profile"}
                  /\ sync'.lapsed = sync.lapsed /\ sync'.todo = sync.todo
                  /\ sync'.at = ReadDone("profile") /\ "profile" \in sync.reads
                  BY <1>1, <2>2 DEF ReadProfile, MirrorInv, ResyncInv, SyncStates
            <3>2. "recent" \notin sync.reads => sync.lapsed = Threads \ sync.todo
                  BY <2>2 DEF ReadProfile, MirrorInv, ResyncInv
            <3>.  QED BY <3>1, <3>2, Positioned DEF ReadDone
      <2>3. CASE ReadRecent
            <3>1. PICK S \in {ListRecent(spam) : spam \in BOOLEAN} :
                      sync' = [sync EXCEPT !.at = ReadDone("recent"), !.reads = @ \ {"recent"},
                                           !.todo = S, !.lapsed = Threads \ S]
                  BY <2>3 DEF ReadRecent
            <3>2. /\ sync'.cand = {} /\ sync'.upTo = sync.upTo /\ sync'.reads = sync.reads \ {"recent"}
                  /\ sync'.lapsed = Threads \ sync'.todo
                  /\ sync'.at = ReadDone("recent") /\ "recent" \in sync.reads
                  BY <1>1, <2>3, <3>1 DEF ReadRecent, MirrorInv, ResyncInv, SyncStates
            <3>3. "profile" \notin sync.reads => 1 <= sync.upTo /\ cursor <= sync.upTo
                  BY <2>3 DEF ReadRecent, MirrorInv, ResyncInv
            <3>.  QED BY <3>2, <3>3 DEF ReadDone
      <2>.  QED BY <2>1, <2>2, <2>3
<1>4. FlightInv'
      <2>1. SUFFICES ASSUME sync'.at = "changed" PROVE FlightInv'
            BY <1>2 DEF FlightInv, InFlight
      <2>2. /\ 1 <= sync'.upTo /\ cursor <= sync'.upTo
            /\ sync'.lapsed = Threads \ sync'.todo /\ sync'.cand = {}
            BY <1>3, <2>1
      <2>3. /\ Ahead' = sync'.todo
            /\ \A t \in Threads \ sync'.todo : OwedNext(t)' = sync'.upTo
            BY <2>1, <2>2 DEF Ahead, OwedNext
      <2>4. \A t \in Threads, c, o \in Cursors : c = sync'.upTo /\ o = sync'.upTo => Kept(t, c, o)'
            <3>1. \A c \in Cursors : c \in Int
                  BY Constants DEF Cursors, NoCursor
            <3>2. \A t \in Threads, c, o \in Cursors : c = sync'.upTo /\ o = sync'.upTo => Kept(t, c, o)
                  BY <2>2, <3>1, NothingOwed
            <3>.  QED BY <1>1, <3>2, StillKept DEF Still
      <2>.  QED BY <1>1, <1>2, <2>1, <2>2, <2>3, <2>4 DEF FlightInv, Still, curVars
<1>5. RestInv'
      BY <1>1, <1>2, RestStill
<1>6. ResyncInv'
      BY <1>1, <1>2, <1>3 DEF ResyncInv, Still, curVars
<1>.  QED BY <1>2, <1>4, <1>5, <1>6 DEF MirrorInv, SnapInv

LEMMA DropSentOnlyMirrors ==
    ASSUME TypeOK, MirrorInv, DropSentOnly
    PROVE  MirrorInv'
<1>1. Still /\ sync \in SyncStates /\ sync.at = "changed"
      BY Positioned DEF DropSentOnly, Still, mailVars, rowVars, faultVars
<1>2. /\ sync'.todo = Ahead /\ sync'.cand = {} /\ Ahead \subseteq sync.todo
      /\ sync'.at \in {"advance", "fetch"} /\ (sync'.at = "advance" => sync'.todo = {})
      /\ sync'.since = sync.since /\ sync'.upTo = sync.upTo /\ sync'.lapsed = sync.lapsed
      BY <1>1 DEF DropSentOnly, Ahead, SyncStates
<1>3. sync'.since = cursor
      BY <1>1, <1>2 DEF MirrorInv, RestInv
<1>4. FlightInv'
      <2>1. Ahead' = Ahead /\ \A t : OwedNext(t)' = OwedNext(t)
            BY <1>1, <1>2 DEF Ahead, OwedNext, Still, curVars
      <2>2. \A t \in Threads \ Ahead, c, o \in Cursors :
                c = sync.upTo /\ o = OwedNext(t) => Kept(t, c, o)'
            BY <1>1, StillKept DEF MirrorInv, FlightInv, InFlight, Still
      <2>3. ~expired /\ provider = "GMAIL" =>
                \A t \in sync.todo, c \in Cursors : c = cursor => ~DoneBy(t, c)'
            BY <1>1, StillKept DEF MirrorInv, FlightInv, InFlight, Still, SyncStates
      <2>4. /\ cursor <= sync.upTo
            /\ sync.lapsed \cap sync.todo = {}
            /\ sync.lapsed # {} => 1 <= sync.upTo
            BY <1>1 DEF MirrorInv, FlightInv, InFlight
      <2>.  QED BY <1>1, <1>2, <2>1, <2>2, <2>3, <2>4 DEF FlightInv, Still, curVars
<1>.  QED BY <1>1, <1>2, <1>3, <1>4, RestStill DEF MirrorInv, ResyncInv, SnapInv

LEMMA NeverLabelled ==
    ASSUME NEW t \in Threads, \A p \in Of(t) : history[p].kind \notin {"hide", "show"}
    PROVE  \A m : ~Labelled(m, t)
<1>1. \A m, kind : kind \in {"hide", "show"} =>
          {p \in Of(t) : p > m /\ history[p].kind = kind} = {}
      OBVIOUS
<1>.  QED BY <1>1 DEF Labelled, Latest

\* In a mailbox whose labels never move every message of the box is eligible.
LEMMA NothingLabelled ==
    ASSUME NoLabelsMoved, provider = "OUTLOOK", NEW t \in Threads
    PROVE  /\ \A m : ~Labelled(m, t)
           /\ Eligible(t) = Box(t)
           /\ Excluded(t) <=> Box(t) = {}
<1>1. \A m : ~Labelled(m, t)
      BY NeverLabelled DEF NoLabelsMoved, Of
<1>2. Raw(t) = Box(t)
      BY DEF Raw
<1>.  QED BY <1>1, <1>2 DEF Eligible, Excluded

\* A thread that is skipped is owed nothing: it is gone, or has no mail from others.
LEMMA SkippedKept ==
    ASSUME TypeOK, MirrorInv, NEW t \in Threads, Gone(t) \/ (SentOnly(t) /\ t \notin imported)
    PROVE  \A c, o \in Cursors : o = owedFrom[t] => Kept(t, c, o)
<1>1. /\ Box(t) \subseteq Arrived(t)
      /\ Inbound(Box(t)) \subseteq Inbound(Arrived(t)) /\ Inbound(Arrived(t)) \subseteq Arrived(t)
      BY DEF Box, Inbound
<1>2. SUFFICES ASSUME NEW c \in Cursors, NEW o \in Cursors, o = owedFrom[t]
               PROVE  Kept(t, c, o)
      OBVIOUS
<1>3. t \notin imported => o # 0
      BY <1>2 DEF MirrorInv, RestInv
<1>4. CASE provider = "GMAIL"
      <2>1. Inbound(Arrived(t)) = {}
            BY <1>1, <1>4 DEF Gone, SentOnly, Raw
      <2>2. GmailKept(t, c, o)
            BY <1>1, <1>3, <1>4, <2>1 DEF GmailKept, Gone, SentOnly, Raw
      <2>.  QED BY <1>4, <2>2 DEF Kept
<1>5. CASE provider # "GMAIL"
      <2>1. Inbound(Box(t)) = {}
            BY <1>5 DEF Gone, SentOnly, Raw
      <2>.  QED BY <1>5, <2>1 DEF Kept, OutlookKept
<1>.  QED BY <1>4, <1>5

\* The attempt is done with a thread once its rows are kept up to where it ends.
LEMMA ThreadDone ==
    ASSUME TypeOK, MirrorInv, NEW t \in sync.todo, sync.at \in {"fetch", "store"},
           UNCHANGED <<provider, history, cursor, expired>>,
           sync'.upTo = sync.upTo, sync'.lapsed = sync.lapsed,
           sync'.todo = sync.todo \ {t},
           sync'.at = IF sync.todo # {t} THEN "fetch" ELSE sync'.at,
           sync'.at \in {"fetch", "enqueue", "advance"},
           \A u \in Threads \ {t} : SameRows(u) /\ owedFrom'[u] = owedFrom[u],
           \A c, o \in Cursors : c = sync.upTo /\ o = owedFrom'[t] => Kept(t, c, o)'
    PROVE  FlightInv'
<1>1. InFlight /\ sync \in SyncStates /\ t \in Threads /\ Ahead = sync.todo
      BY Positioned DEF InFlight, SyncStates, Ahead
<1>2. /\ Ahead' = sync.todo \ {t}
      /\ \A u \in Threads \ {t} : OwedNext(u)' = OwedNext(u)
      /\ OwedNext(t)' = owedFrom'[t]
      BY <1>1 DEF Ahead, OwedNext, MirrorInv, FlightInv
<1>3. \A u \in Threads : SameThread(u)
      BY MailboxStill
<1>4. ASSUME NEW u \in Threads \ Ahead', NEW c \in Cursors, NEW o \in Cursors,
             c = sync.upTo, o = OwedNext(u)'
      PROVE  Kept(u, c, o)'
      <2>1. CASE u = t
            BY <1>2, <1>4, <2>1
      <2>2. CASE u # t
            <3>1. Kept(u, c, o)
                  BY <1>1, <1>2, <1>4, <2>2 DEF MirrorInv, FlightInv
            <3>.  QED BY <1>3, <2>2, <3>1, KeptStays
      <2>.  QED BY <2>1, <2>2
<1>5. \A u \in Threads : \A c : DoneBy(u, c)' <=> DoneBy(u, c)
      BY <1>3 DEF SameThread, DoneBy
<1>6. ~expired' /\ provider' = "GMAIL" =>
          \A u \in sync'.todo, c \in Cursors : c = cursor' => ~DoneBy(u, c)'
      BY <1>1, <1>5 DEF MirrorInv, FlightInv, SyncStates
<1>7. /\ cursor' <= sync'.upTo
      /\ sync'.lapsed \cap sync'.todo = {}
      /\ sync'.lapsed # {} => 1 <= sync'.upTo
      /\ sync'.at \in {"enqueue", "advance"} => sync'.todo = {}
      BY <1>1 DEF MirrorInv, FlightInv
<1>.  QED BY <1>4, <1>6, <1>7 DEF FlightInv

LEMMA NextThreadFields ==
    ASSUME NEW s \in SyncStates, NEW t
    PROVE  /\ NextThread(s, t).upTo = s.upTo /\ NextThread(s, t).lapsed = s.lapsed
           /\ NextThread(s, t).since = s.since
           /\ NextThread(s, t).todo = s.todo \ {t}
           /\ NextThread(s, t).at = IF s.todo # {t} THEN "fetch" ELSE NextThread(s, t).at
           /\ NextThread(s, t).at \in {"fetch", "enqueue", "advance"}
BY DEF NextThread, SyncStates

LEMMA FetchMirrors ==
    ASSUME TypeOK, MirrorInv, NEW t \in Threads, Fetch(t)
    PROVE  MirrorInv'
<1>1. Still /\ sync \in SyncStates /\ sync.at = "fetch" /\ t \in sync.todo
      BY Positioned DEF Fetch, Still, mailVars, rowVars, faultVars
<1>2. CASE /\ Gone(t) \/ (SentOnly(t) /\ t \notin imported)
           /\ sync' = NextThread(sync, t)
      <2>1. \A c, o \in Cursors : o = owedFrom[t] => Kept(t, c, o)'
            BY <1>1, <1>2, SkippedKept, StillKept DEF Still
      <2>2. FlightInv'
            BY <1>1, <1>2, <2>1, NextThreadFields, StillKept, ThreadDone DEF Still, curVars
      <2>3. sync'.at \in {"fetch", "enqueue", "advance"} /\ sync'.since = cursor
            BY <1>1, <1>2, NextThreadFields DEF MirrorInv, RestInv
      <2>.  QED BY <1>1, <2>2, <2>3, RestStill DEF MirrorInv, ResyncInv, SnapInv
<1>3. CASE /\ ~Gone(t)
           /\ sync' = [sync EXCEPT !.at = "store", !.snap =
                          {[thread |-> t, keep |-> Box(t), eligible |-> Eligible(t),
                            excluded |-> Excluded(t)]}]
      <2>0. PICK s : s = [thread |-> t, keep |-> Box(t), eligible |-> Eligible(t),
                          excluded |-> Excluded(t)]
            OBVIOUS
      <2>1. /\ sync'.at = "store" /\ sync'.snap = {s} /\ sync'.todo = sync.todo
            /\ sync'.since = cursor /\ sync'.upTo = sync.upTo /\ sync'.lapsed = sync.lapsed
            BY <1>1, <1>3, <2>0 DEF SyncStates, MirrorInv, RestInv
      <2>2. FlightInv'
            <3>1. /\ Ahead' = sync.todo /\ Ahead = sync.todo
                  /\ \A u : OwedNext(u)' = OwedNext(u)
                  BY <1>1, <2>1 DEF Ahead, OwedNext, Still, curVars
            <3>2. \A u \in Threads : \A c, o : Kept(u, c, o) => Kept(u, c, o)'
                  BY <1>1, StillKept DEF Still
            <3>3. \A u \in Threads : \A c : DoneBy(u, c)' <=> DoneBy(u, c)
                  BY <1>1, StillKept DEF Still
            <3>.  QED BY <1>1, <2>1, <3>1, <3>2, <3>3 DEF MirrorInv, FlightInv, InFlight, Still,
                         curVars,
                     SyncStates
      <2>3. SnapInv'
            <3>1. ASSUME NEW c \in Cursors
                  PROVE  SnapFits(s, c)
                  <4>1. CASE provider = "GMAIL"
                        BY <2>0, <4>1 DEF SnapFits
                  <4>2. CASE provider # "GMAIL"
                        <5>1. provider = "OUTLOOK"
                              BY <4>2 DEF TypeOK, MailOK
                        <5>2. Inbound(Box(t)) # {} /\ Inbound(Box(t)) \subseteq Box(t)
                              BY <1>3, <4>2 DEF Gone, Inbound
                        <5>3. Eligible(t) = Box(t) /\ ~Excluded(t)
                              BY <5>1, <5>2, NothingLabelled DEF MirrorInv, RestInv
                        <5>.  QED BY <2>0, <4>2, <5>2, <5>3 DEF SnapFits
                  <4>.  QED BY <4>1, <4>2
            <3>2. \A c \in Cursors : SnapFits(s, c)'
                  BY <1>1, <2>0, <3>1, StillKept DEF Still
            <3>.  QED BY <1>1, <2>0, <2>1, <3>2 DEF SnapInv
      <2>.  QED BY <1>1, <2>1, <2>2, <2>3, RestStill DEF MirrorInv, ResyncInv
<1>.  QED BY <1>2, <1>3 DEF Fetch

\* The rows a snapshot has been stored in.
LEMMA StoredRows ==
    ASSUME TypeOK, NEW s \in sync.snap, Store(s)
    PROVE  LET t == s.thread
           IN  /\ t \in Threads /\ t \in imported' /\ (t \in flagged' <=> s.excluded)
               /\ s.eligible # {} => stored'[t] = Mirrored(s)
               /\ doneAt'[t] = 0 \/ \A m \in Inbound(s.eligible) : m <= doneAt'[t]
               /\ owedFrom'[t] = 0 /\ t \notin torn'
               /\ \A u \in Threads \ {t} : SameRows(u) /\ owedFrom'[u] = owedFrom[u]
<1>.  DEFINE t == s.thread
<1>1. s \in Snapshots /\ t \in Threads /\ t \in imported' /\ (t \in flagged' <=> s.excluded)
      BY Positioned DEF SyncStates, Snapshots, Store, UpsertThread
<1>2. s.eligible # {} => stored'[t] = Mirrored(s)
      BY <1>1 DEF Store, TypeOK, RowsOK
<1>3. doneAt'[t] = 0 \/ \A m \in Inbound(s.eligible) : m <= doneAt'[t]
      <2>1. CASE s.eligible = {}
            BY <2>1 DEF Inbound
      <2>2. CASE s.eligible # {}
            <3>1. Inbound(s.eligible) \subseteq 1 .. MaxHistory
                  BY <1>1 DEF Inbound, Snapshots, Positions
            <3>2. /\ Latest(Inbound(s.eligible)) \in 0 .. MaxHistory
                  /\ \A m \in Inbound(s.eligible) : m <= Latest(Inbound(s.eligible))
                  BY <3>1, LatestIsLast, Constants
            <3>3. doneAt[t] \in Nat /\ doneAt'[t] = IF doneAt[t] < Latest(Inbound(s.eligible)) THEN 0 ELSE doneAt[t]
                  BY <1>1, <2>2 DEF Store, ClearDone, TypeOK, RowsOK
            <3>.  QED BY <3>1, <3>2, <3>3, Constants
      <2>.  QED BY <2>1, <2>2
<1>4. owedFrom'[t] = 0 /\ t \notin torn'
      BY <1>1 DEF Store, TypeOK, MailOK
<1>5. \A u \in Threads \ {t} : SameRows(u) /\ owedFrom'[u] = owedFrom[u]
      <2>1. \A u \in Threads \ {t} : stored'[u] = stored[u] /\ doneAt'[u] = doneAt[u]
            BY <1>1 DEF Store, ClearDone, TypeOK, RowsOK
      <2>2. \A u \in Threads \ {t} : owedFrom'[u] = owedFrom[u]
            BY <1>1 DEF Store, TypeOK, MailOK
      <2>.  QED BY <2>1, <2>2 DEF Store, UpsertThread, SameRows
<1>.  QED BY <1>1, <1>2, <1>3, <1>4, <1>5

LEMMA StoredKept ==
    ASSUME TypeOK, MirrorInv, NEW s \in sync.snap, Store(s),
           NEW c \in Cursors, c <= sync.upTo,
           provider = "GMAIL" => ~DoneBy(s.thread, c) \/ c = sync.upTo
    PROVE  \A o \in Cursors : o = 0 => Kept(s.thread, c, o)'
<1>.  DEFINE t == s.thread
<1>1. /\ t \in Threads /\ t \in imported' /\ (t \in flagged' <=> s.excluded)
      /\ s.eligible # {} => stored'[t] = (stored[t] \cup s.eligible) \cap s.keep
      /\ doneAt'[t] = 0 \/ \A m \in Inbound(s.eligible) : m <= doneAt'[t]
      BY StoredRows DEF Mirrored
<1>2. /\ UNCHANGED <<provider, history>>
      /\ \A d \in Cursors : d = sync.upTo => SnapFits(s, d)
      BY DEF Store, mailVars, MirrorInv, SnapInv
<1>3. SameThread(t)
      BY <1>1, <1>2, MailboxStill
<1>4. SUFFICES ASSUME NEW o \in Cursors, o = 0 PROVE Kept(t, c, o)'
      OBVIOUS
<1>5. CASE provider = "GMAIL"
      <2>1. ASSUME DoneBy(t, c)
            PROVE  Clean(t)'
            <3>1. /\ s.keep = Box(t) /\ s.eligible = Eligible(t)
                  /\ s.excluded <=> Excluded(t)
                  BY <1>2, <1>5, <2>1 DEF SnapFits
            <3>2. Eligible(t) \subseteq Box(t)
                  BY DEF Eligible
            <3>3. /\ Box(t)' = Box(t) /\ Eligible(t)' = Eligible(t)
                  /\ Inbound(Eligible(t))' = Inbound(Eligible(t))
                  /\ Excluded(t)' <=> Excluded(t)
                  BY <1>3 DEF SameThread
            <3>.  QED BY <1>1, <3>1, <3>2, <3>3 DEF Clean
      <2>2. DoneBy(t, c)' <=> DoneBy(t, c)
            BY <1>3 DEF SameThread, DoneBy
      <2>3. GmailKept(t, c, o)'
            BY <1>1, <2>1, <2>2 DEF GmailKept
      <2>.  QED BY <1>2, <1>5, <2>3 DEF Kept
<1>6. CASE provider # "GMAIL"
      <2>1. PICK d \in Cursors : d = sync.upTo
            BY Positioned
      <2>2. /\ s.eligible = s.keep /\ s.keep # {} /\ ~s.excluded
            /\ \A m \in Box(t) : m <= d => m \in s.keep
            /\ s.keep \subseteq Box(t) \cup RemovedAfter(t, d)
            BY <1>2, <1>6, <2>1 DEF SnapFits
      <2>3. /\ Box(t) \subseteq Positions /\ Of(t) \subseteq Positions
            /\ c \in Int /\ d \in Int /\ c <= d
            BY <1>1, <2>1, BoxTyped, Constants DEF TypeOK, Cursors, NoCursor
      <2>4. stored'[t] = s.keep
            BY <1>1, <2>2
      <2>5. RemovedAfter(t, d) \subseteq RemovedAfter(t, c)
            BY <2>3 DEF RemovedAfter, Positions
      <2>6. \A m \in Box(t) : m <= c => m \in s.keep
            BY <2>2, <2>3 DEF Positions
      <2>7. \A m \in Inbound(Box(t)) : m <= c => m \in Inbound(s.eligible)
            BY <2>2, <2>6 DEF Inbound
      <2>8. /\ Box(t)' = Box(t) /\ Inbound(Box(t))' = Inbound(Box(t))
            /\ RemovedAfter(t, c)' = RemovedAfter(t, c)
            BY <1>1, <1>3, RemovedSame DEF SameThread
      <2>9. OutlookRows(t, c)'
            BY <1>1, <2>2, <2>4, <2>5, <2>6, <2>7, <2>8 DEF OutlookRows
      <2>10. OutlookKept(t, c, o)'
            BY <1>4, <2>9 DEF OutlookKept
      <2>.  QED BY <1>2, <1>6, <2>10 DEF Kept
<1>.  QED BY <1>5, <1>6

LEMMA StoreMirrors ==
    ASSUME TypeOK, MirrorInv, NEW s \in sync.snap, Store(s)
    PROVE  MirrorInv'
<1>.  DEFINE t == s.thread
<1>1. /\ sync \in SyncStates /\ sync.at = "store" /\ t \in sync.todo /\ InFlight
      /\ UNCHANGED <<provider, history, cursor, expired>>
      BY Positioned DEF Store, mailVars, MirrorInv, SnapInv, InFlight
<1>2. /\ t \in Threads /\ t \in imported' /\ owedFrom'[t] = 0
      /\ \A u \in Threads \ {t} : SameRows(u) /\ owedFrom'[u] = owedFrom[u]
      BY StoredRows
<1>3. /\ sync'.upTo = sync.upTo /\ sync'.lapsed = sync.lapsed /\ sync'.since = cursor
      /\ sync'.todo = sync.todo \ {t}
      /\ sync'.at = IF sync.todo # {t} THEN "fetch" ELSE sync'.at
      /\ sync'.at \in {"fetch", "enqueue", "advance"}
      <2>1. PICK S \in {sync.ask, sync.ask \cup {t}} : sync' = NextThread([sync EXCEPT !.ask = S], t)
            <3>1. CASE s.eligible = {}
                  <4>1. sync = [sync EXCEPT !.ask = sync.ask]
                        BY <1>1 DEF SyncStates
                  <4>.  QED BY <3>1, <4>1 DEF Store
            <3>2. CASE s.eligible # {}
                  BY <3>2, <1>1 DEF Store, SyncStates
            <3>.  QED BY <3>1, <3>2
      <2>2. S \subseteq Threads
            BY <1>1, <1>2 DEF SyncStates
      <2>3. /\ [sync EXCEPT !.ask = S] \in SyncStates
            /\ [sync EXCEPT !.ask = S].upTo = sync.upTo
            /\ [sync EXCEPT !.ask = S].lapsed = sync.lapsed
            /\ [sync EXCEPT !.ask = S].since = sync.since
            /\ [sync EXCEPT !.ask = S].todo = sync.todo
            BY <1>1, <2>2 DEF SyncStates
      <2>4. sync.since = cursor
            BY <1>1 DEF MirrorInv, RestInv
      <2>.  QED BY <2>1, <2>3, <2>4, NextThreadFields
<1>4. FlightInv'
      <2>1. \A c, o \in Cursors : c = sync.upTo /\ o = owedFrom'[t] => Kept(t, c, o)'
            <3>1. \A c \in Cursors : c \in Int
                  BY Constants DEF Cursors, NoCursor
            <3>.  QED BY <1>2, <3>1, StoredKept
      <2>.  QED BY <1>1, <1>2, <1>3, <2>1, ThreadDone
<1>5. RestInv'
      <2>1. ASSUME ~expired, NEW u \in Threads, NEW c \in Cursors, NEW o \in Cursors,
                   c = cursor, o = owedFrom'[u]
            PROVE  Kept(u, c, o)'
            <3>1. CASE u = t
                  <4>1. c <= sync.upTo
                        BY <1>1, <2>1 DEF MirrorInv, FlightInv
                  <4>2. provider = "GMAIL" => ~DoneBy(t, c)
                        BY <1>1, <2>1 DEF MirrorInv, FlightInv
                  <4>.  QED BY <1>2, <2>1, <3>1, <4>1, <4>2, StoredKept
            <3>2. CASE u # t
                  <4>1. Kept(u, c, o)
                        BY <1>2, <2>1, <3>2 DEF MirrorInv, RestInv
                  <4>2. SameThread(u)
                        BY <1>1, MailboxStill
                  <4>.  QED BY <1>2, <3>2, <4>1, <4>2, KeptStays
            <3>.  QED BY <3>1, <3>2
      <2>2. \A u \in Threads : owedFrom'[u] = 0 => u \in imported'
            BY <1>2 DEF MirrorInv, RestInv, SameRows
      <2>.  QED BY <1>1, <1>3, <2>1, <2>2 DEF MirrorInv, RestInv, NoLabelsMoved, Now
<1>.  QED BY <1>3, <1>4, <1>5 DEF MirrorInv, ResyncInv, SnapInv

\* A thread stored half-way has changes after the cursor in Gmail, and is not answered
\* for in Outlook until it is stored again.
LEMMA TornMirrors ==
    ASSUME TypeOK, MirrorInv, NEW s \in sync.snap, FailInStore(s)
    PROVE  MirrorInv'
<1>.  DEFINE t == s.thread
<1>1. /\ sync \in SyncStates /\ sync.at = "store" /\ t \in sync.todo /\ InFlight
      /\ UNCHANGED <<provider, history, cursor, expired, owedFrom>>
      BY Positioned DEF FailInStore, mailVars, curVars, MirrorInv, SnapInv, InFlight
<1>2. t \in Threads /\ t \in imported' /\ t \in torn'
      BY <1>1 DEF FailInStore, UpsertThread, SyncStates
<1>3. \A u \in Threads \ {t} : SameRows(u)
      BY <1>2 DEF FailInStore, UpsertThread, SameRows, TypeOK, RowsOK
<1>4. \A u \in Threads : SameThread(u)
      BY <1>1, MailboxStill
<1>5. ASSUME ~expired, NEW u \in Threads, NEW c \in Cursors, NEW o \in Cursors,
             c = cursor, o = owedFrom[u]
      PROVE  Kept(u, c, o)'
      <2>1. CASE u = t
            <3>1. CASE provider = "GMAIL"
                  <4>1. ~DoneBy(t, c)'
                        BY <1>1, <1>2, <1>4, <1>5, <3>1 DEF MirrorInv, FlightInv, SameThread, DoneBy
                  <4>2. GmailKept(t, c, o)'
                        BY <1>2, <4>1 DEF GmailKept
                  <4>.  QED BY <1>1, <2>1, <3>1, <4>2 DEF Kept
            <3>2. CASE provider # "GMAIL"
                  BY <1>1, <1>2, <2>1, <3>2 DEF Kept, OutlookKept
            <3>.  QED BY <3>1, <3>2
      <2>2. CASE u # t
            <3>1. Kept(u, c, o)
                  BY <1>5 DEF MirrorInv, RestInv
            <3>.  QED BY <1>3, <1>4, <2>2, <3>1, KeptStays
      <2>.  QED BY <2>1, <2>2
<1>6. sync'.at \in {"idle", "queued"}
      BY DEF FailInStore, Again, NoSync
<1>7. RestInv'
      <2>1. \A u \in Threads : owedFrom'[u] = 0 => u \in imported'
            BY <1>1 DEF FailInStore, UpsertThread, MirrorInv, RestInv
      <2>.  QED BY <1>1, <1>5, <1>6, <2>1 DEF MirrorInv, RestInv, NoLabelsMoved, Now
<1>.  QED BY <1>6, <1>7 DEF MirrorInv, ResyncInv, FlightInv, SnapInv, InFlight

LEMMA FailMirrors ==
    ASSUME TypeOK, MirrorInv, (\E auth \in BOOLEAN : Fail(auth)) \/ Crash
    PROVE  MirrorInv'
<1>1. Still
      BY DEF Fail, Crash, Still, mailVars, rowVars
<1>2. sync'.at \in {"idle", "queued"}
      <2>1. \A left : Again(left).at \in {"idle", "queued"}
            BY DEF Again, NoSync
      <2>.  QED BY <2>1 DEF Fail, Crash
<1>.  QED BY <1>1, <1>2, RestStill DEF MirrorInv, ResyncInv, FlightInv, SnapInv, InFlight

LEMMA EnqueueMirrors ==
    ASSUME TypeOK, MirrorInv, EnqueueClassify
    PROVE  MirrorInv'
<1>1. Still /\ sync \in SyncStates /\ sync.at = "enqueue"
      BY Positioned DEF EnqueueClassify, Still, mailVars, rowVars
<1>2. /\ sync'.at = "advance" /\ sync'.since = cursor /\ sync'.upTo = sync.upTo
      /\ sync'.lapsed = sync.lapsed /\ sync'.todo = sync.todo
      BY <1>1 DEF EnqueueClassify, MirrorInv, RestInv, SyncStates
<1>3. FlightInv'
      <2>1. /\ Ahead' = sync.todo /\ Ahead = sync.todo
            /\ \A u : OwedNext(u)' = OwedNext(u)
            BY <1>1, <1>2 DEF Ahead, OwedNext, Still, curVars
      <2>2. /\ \A u \in Threads : \A c, o : Kept(u, c, o) => Kept(u, c, o)'
            /\ \A u \in Threads : \A c : DoneBy(u, c)' <=> DoneBy(u, c)
            BY <1>1, StillKept DEF Still
      <2>.  QED BY <1>1, <1>2, <2>1, <2>2 DEF MirrorInv, FlightInv, InFlight, Still, curVars,
                   SyncStates
<1>.  QED BY <1>1, <1>2, <1>3, RestStill DEF MirrorInv, ResyncInv, SnapInv

\* The cursor advances last, when nothing is left to fetch.
LEMMA AdvanceMirrors ==
    ASSUME TypeOK, MirrorInv, AdvanceCursor
    PROVE  MirrorInv'
<1>1. /\ sync \in SyncStates /\ sync.at = "advance" /\ sync.todo = {} /\ Ahead = {}
      /\ UNCHANGED <<provider, history, imported, stored, flagged, doneAt, torn>>
      /\ cursor' = sync.upTo /\ sync'.at = "idle"
      /\ \A t \in Threads : owedFrom'[t] = OwedNext(t)
      BY Positioned DEF AdvanceCursor, MirrorInv, FlightInv, InFlight, Ahead, OwedNext, NoSync,
         mailVars, rowVars, faultVars
<1>2. \A t \in Threads, c, o \in Cursors : c = cursor' /\ o = owedFrom'[t] => Kept(t, c, o)'
      <2>1. \A t \in Threads, c, o \in Cursors : c = sync.upTo /\ o = OwedNext(t) => Kept(t, c, o)
            BY <1>1 DEF MirrorInv, FlightInv, InFlight
      <2>.  QED BY <1>1, <2>1, StillKept
<1>3. \A t \in Threads : owedFrom'[t] = 0 => t \in imported'
      BY <1>1 DEF OwedNext, MirrorInv, RestInv, FlightInv, InFlight
<1>4. RestInv'
      BY <1>1, <1>2, <1>3 DEF MirrorInv, RestInv, NoLabelsMoved, Now
<1>.  QED BY <1>1, <1>4 DEF MirrorInv, ResyncInv, FlightInv, SnapInv, InFlight

LEMMA InitMirrors == Init => MirrorInv
<1>.  SUFFICES ASSUME Init PROVE MirrorInv
      OBVIOUS
<1>1. TypeOK
      BY InitTyped
<1>2. PICK u \in Threads : history = <<[kind |-> "in", thread |-> u, msg |-> 1]>>
      BY DEF Init
<1>3. Now = 1 /\ history[1].kind = "in" /\ history[1].thread = u
      BY <1>2 DEF Now
<1>4. NoLabelsMoved
      BY <1>3 DEF NoLabelsMoved
<1>5. \A t \in Threads : \A m : ~Labelled(m, t)
      BY <1>3, NeverLabelled DEF Of
<1>6. \A t \in Threads : /\ Of(t) \subseteq {1} /\ Eligible(t) = Box(t) /\ Box(t) \subseteq Of(t)
                         /\ Arrived(t) \subseteq Of(t)
      BY <1>3, <1>5 DEF Of, Eligible, Box, Arrived
<1>7. \A t \in imported : /\ t \in Threads /\ Of(t) = {1} /\ cursor = 1
                          /\ Box(t) = {1} /\ stored[t] = Box(t) /\ owedFrom[t] = 0
      <2>1. SUFFICES ASSUME NEW t \in imported
                     PROVE  /\ t \in Threads /\ Of(t) = {1} /\ cursor = 1 /\ Box(t) = {1}
                            /\ stored[t] = Box(t) /\ owedFrom[t] = 0
            OBVIOUS
      <2>2. t \in Threads /\ cursor = 1 /\ Of(t) # {}
            BY <1>3, <2>1 DEF Init
      <2>3. Of(t) = {1}
            BY <1>6, <2>2
      <2>4. Box(t) = {1}
            BY <1>3, <2>3 DEF Box, Arrived
      <2>.  QED BY <2>1, <2>2, <2>3, <2>4 DEF Init
<1>8. \A t \in Threads \ imported : owedFrom[t] = 1
      BY <1>3 DEF Init
<1>9. ASSUME NEW t \in Threads, NEW c \in Cursors, NEW o \in Cursors, c = cursor, o = owedFrom[t]
      PROVE  Kept(t, c, o)
      <2>1. CASE t \notin imported
            <3>1. c <= o /\ 1 <= o
                  BY <1>3, <1>8, <1>9, <2>1 DEF Init, NoCursor
            <3>.  QED BY <1>1, <3>1, NothingOwed
      <2>2. CASE t \in imported
            <3>1. /\ Box(t) = {1} /\ stored[t] = {1} /\ Eligible(t) = {1} /\ t \notin flagged
                  /\ o = 0 /\ doneAt[t] = 0 /\ c = 1
                  BY <1>6, <1>7, <1>9, <2>2 DEF Init
            <3>2. ~Excluded(t)
                  <4>1. Raw(t) # {}
                        BY <3>1 DEF Raw, Box
                  <4>.  QED BY <1>5, <3>1, <4>1 DEF Excluded
            <3>3. Clean(t) /\ OutlookRows(t, c)
                  BY <2>2, <3>1, <3>2 DEF Clean, OutlookRows
            <3>.  QED BY <2>2, <3>1, <3>3 DEF Kept, GmailKept, OutlookKept
      <2>.  QED BY <2>1, <2>2
<1>10. \A t \in Threads : owedFrom[t] = 0 => t \in imported
      BY <1>8
<1>11. sync.at = "idle"
      BY DEF Init, NoSync
<1>.  QED BY <1>4, <1>9, <1>10, <1>11 DEF MirrorInv, RestInv, ResyncInv, FlightInv, SnapInv,
             InFlight

LEMMA MirrorStep == TypeOK /\ MirrorInv /\ [Next]_vars => MirrorInv'
<1>.  SUFFICES ASSUME TypeOK, MirrorInv, [Next]_vars PROVE MirrorInv'
      OBVIOUS
<1>1. CASE Work
      <2>1. CASE Begin \/ DiscoverFirst \/ DiscoverDelta
            BY <2>1, BeginMirrors, DiscoverFirstMirrors, DiscoverDeltaMirrors
      <2>2. CASE CursorExpired \/ ReadProfile \/ ReadRecent \/ DropSentOnly
            BY <2>2, ResyncMirrors, DropSentOnlyMirrors
      <2>3. CASE \E t \in Threads : Fetch(t)
            BY <2>3, FetchMirrors
      <2>4. CASE \E s \in sync.snap : Store(s)
            BY <2>4, StoreMirrors
      <2>5. CASE EnqueueClassify \/ AdvanceCursor
            BY <2>5, EnqueueMirrors, AdvanceMirrors
      <2>.  QED BY <1>1, <2>1, <2>2, <2>3, <2>4, <2>5 DEF Work
<1>2. CASE \E s \in sync.snap : FailInStore(s)
      BY <1>2, TornMirrors
<1>3. CASE (\E auth \in BOOLEAN : Fail(auth)) \/ Crash
      BY <1>3, FailMirrors
<1>4. CASE Mailbox
      BY <1>4, MailboxMirrors
<1>5. CASE \E t \in Threads : Resolve(t)
      BY <1>5, ResolveMirrors
<1>6. CASE \/ Expire \/ Reconnect \/ UNCHANGED vars
           \/ \E left \in {1, Tries} : EnqueueSync(left)
      BY <1>6, AsideMirrors
<1>.  QED BY <1>1, <1>2, <1>3, <1>4, <1>5, <1>6 DEF Next

\* A thread behind the cursor is clean.
LEMMA BehindClean ==
    ASSUME TypeOK, MirrorInv, NEW t \in Threads, Behind(t)
    PROVE  Clean(t)
<1>1. /\ ~Gone(t) /\ ~expired /\ Answered(t)
      /\ provider = "OUTLOOK" => t \notin torn
      BY DEF Behind
<1>2. PICK c \in Cursors, o \in Cursors : c = cursor /\ o = owedFrom[t]
      BY Positioned
<1>3. Kept(t, c, o)
      BY <1>1, <1>2 DEF MirrorInv, RestInv
<1>4. DoneBy(t, c)
      <2>1. Of(t) \subseteq 1 .. Now /\ Now \in Nat /\ c \in Int
            BY <1>2, BoxTyped, Positioned DEF TypeOK, MailOK, NoCursor
      <2>2. LastChange(t) \in 0 .. Now /\ \A p \in Of(t) : p <= LastChange(t)
            BY <2>1, LatestIsLast DEF LastChange
      <2>.  QED BY <1>2, <2>1, <2>2 DEF Behind, DoneBy
<1>5. CASE provider = "GMAIL"
      BY <1>1, <1>2, <1>3, <1>4, <1>5 DEF Kept, GmailKept, Answered
<1>6. CASE provider # "GMAIL"
      <2>1. provider = "OUTLOOK"
            BY <1>6 DEF TypeOK, MailOK
      <2>2. /\ Box(t) \subseteq Of(t) /\ Inbound(Box(t)) # {} /\ Inbound(Box(t)) \subseteq Box(t)
            BY <1>1, <1>6 DEF Gone, Box, Arrived, Inbound
      <2>3. \A m \in Box(t) : m <= c
            BY <1>4, <2>2 DEF DoneBy
      <2>4. OutlookRows(t, c)
            <3>1. \A p \in Of(t) : Reported(p) => p \in Box(t)
                  BY <1>6 DEF Reported, Of
            <3>2. o = 0 \/ \E m \in Box(t) : o < m /\ m <= c /\ (t \in imported \/ m \in Inbound(Box(t)))
                  BY <1>1, <1>2, <2>3, <3>1 DEF Answered
            <3>.  QED BY <1>1, <1>3, <1>6, <2>1, <2>2, <2>3, <3>2 DEF Kept, OutlookKept
      <2>5. RemovedAfter(t, c) = {}
            <3>1. \A p \in Of(t) : ~(c < p)
                  BY <1>4, BoxTyped, Positioned DEF DoneBy, TypeOK, Cursors, NoCursor
            <3>.  QED BY <3>1 DEF RemovedAfter
      <2>6. Eligible(t) = Box(t) /\ ~Excluded(t)
            BY <2>1, <2>2, NothingLabelled DEF MirrorInv, RestInv
      <2>.  QED BY <2>2, <2>3, <2>4, <2>5, <2>6 DEF OutlookRows, Clean
<1>.  QED BY <1>5, <1>6

\* Once a change is behind a valid cursor it is mirrored, whatever attempts failed or
\* crashed half-way and however the mailbox moved meanwhile: the cursor advances last, and
\* the rows resolve the removals Outlook reports by message (sync-inbox.ts sections 3 to 6).
THEOREM MailAlwaysMirrored == Spec => []NoChangeLost
<1>1. TypeOK /\ MirrorInv => NoChangeLost
      BY BehindClean DEF NoChangeLost, Clean
<1>.  QED BY <1>1, InitTyped, InitMirrors, NextTyped, MirrorStep, PTL DEF Spec

\* A thread marked as done carries no mail from others later than its mark once the
\* cursor has passed that mail, in any order of marks, mail and attempts
\* (sync-inbox.ts section 4).
THEOREM DoneAlwaysYields == Spec => []DoneYieldsToNewMail
<1>1. ASSUME TypeOK, MirrorInv, NEW t \in Threads, Behind(t), doneAt[t] # 0
      PROVE  Latest(Inbound(Eligible(t))) <= doneAt[t]
      <2>1. \A m \in Inbound(Eligible(t)) : m <= doneAt[t]
            BY <1>1, BehindClean DEF Clean
      <2>2. Inbound(Eligible(t)) \subseteq 1 .. Now /\ Now \in Nat /\ doneAt[t] \in Nat
            BY <1>1, BoxTyped DEF TypeOK, MailOK, RowsOK, Inbound
      <2>.  QED BY <2>1, <2>2, LatestIsLast DEF Latest
<1>2. TypeOK /\ MirrorInv => DoneYieldsToNewMail
      BY <1>1 DEF DoneYieldsToNewMail
<1>.  QED BY <1>2, InitTyped, InitMirrors, NextTyped, MirrorStep, PTL DEF Spec

-----------------------------------------------------------------------------
(* The labels of folders.                                                    *)

LabelSizes ==
    /\ MaxLabels \in Nat /\ MaxEdits \in Nat /\ MaxMishaps \in Nat
    /\ None \notin Folders \cup Paths \cup 1 .. MaxLabels
    /\ Threads \cap {"provision", "relabel"} = {}

Stages == {"idle", "thread", "tree", "links", "renames", "creates", "records", "reread",
           "apply"}
Mapping == {"links", "renames", "creates", "records"}
JobIds == Threads \cup {"provision", "relabel"}

LinkRows == [label : Mirror!Labels \cup {None}, path : Paths \cup {None}]
JobRows  == [at : {"none", "waiting", "active"}, left : 0 .. 3, stalled : BOOLEAN]
RunRows  == [at : Stages, job : JobIds \cup {None},
             then : {"done", "sweep", "reread", "throw"}, folder : Folders \cup {None},
             desired : SUBSET Mirror!Labels, managed : SUBSET Mirror!Labels,
             paths : [Folders -> Paths] \cup {<<>>}, links : [Folders -> LinkRows] \cup {<<>>},
             todo : SUBSET Folders, seen : [Folders -> Mirror!Labels \cup {None}] \cup {<<>>},
             astray : BOOLEAN]

\* What a run has read by the stage it is in.
HasRead(r) ==
    /\ r.at \in Mapping => r.paths \in [Folders -> Paths]
    /\ r.at = "renames" => r.links \in [Folders -> LinkRows]
    /\ r.at \in {"creates", "records"} => r.seen \in [Folders -> Mirror!Labels \cup {None}]

LabelsTyped ==
    /\ path \in [Folders -> Paths] /\ latest \in [Threads -> Folders \cup {None}]
    /\ name \in [Mirror!Labels -> Paths \cup {None}] /\ made \in 0 .. MaxLabels
    /\ carries \in [Threads -> SUBSET Mirror!Labels]
    /\ link \in [Folders -> LinkRows]
    /\ on \in BOOLEAN /\ adding \in SUBSET (Threads \X BOOLEAN)
    /\ jobs \in [JobIds -> JobRows]
    /\ run \in [Mirror!Workers -> RunRows] /\ \A k \in Mirror!Workers : HasRead(run[k])
    /\ adrift \in SUBSET Threads
    /\ edits \in 0 .. MaxEdits /\ mishaps \in 0 .. MaxMishaps

\* A worker that is busy holds an active job of its own, and the writer maps folders
\* only on its way to a thread, or before it fails.
BusyWriter == run["writer"].at \in Mapping \cup {"tree", "reread"}

WorkersOK ==
    /\ \A k \in Mirror!Workers :
          run[k].at # "idle" => run[k].job \in Mirror!Jobs(k) /\ jobs[run[k].job].at = "active"
    /\ \A j \in JobIds : jobs[j].at = "active" =>
          \E k \in Mirror!Workers : run[k].at # "idle" /\ run[k].job = j
    /\ \A j \in JobIds : jobs[j].at # "none" => jobs[j].left >= 1
    /\ run["provisioner"].at \notin {"thread", "reread", "apply"}
    /\ run["provisioner"].at # "idle" =>
          run["provisioner"].then = IF run["provisioner"].job = "relabel" THEN "sweep" ELSE "done"
    /\ BusyWriter => \/ run["writer"].then = "throw" /\ run["writer"].at # "reread"
                     \/ run["writer"].then = "reread" /\ run["writer"].folder \in Folders

\* Labels, and the paths of folders, have names of their own; a label that is gone
\* does not come back, and every label that is kept was made.
Given == 1 .. made
Alive(n, l) == l \in Mirror!Labels /\ n[l] # None
Live(l) == Alive(name, l)

NamesOK ==
    /\ \A l, m \in Mirror!Labels : name[l] # None /\ name[l] = name[m] => l = m
    /\ \A l \in Mirror!Labels : name[l] # None => l \in Given
    /\ \A t \in Threads : \A l \in carries[t] : name[l] # None
    /\ \A k \in Mirror!Workers : run[k].desired \subseteq Given

KeptBy(k) ==
    /\ run[k].at = "renames" => \A f \in Folders : run[k].links[f].label \in Given \cup {None}
    /\ run[k].at \in {"creates", "records"} =>
          \A f \in Folders : run[k].seen[f] \in Given \cup {None}

KeptOK ==
    /\ \A f \in Folders : link[f].label \in Given \cup {None}
    /\ \A k \in Mirror!Workers : KeptBy(k)

Apart(p) == \A f, g \in Folders : p[f] = p[g] => f = g

PathsOK ==
    Apart(path) /\ \A k \in Mirror!Workers : run[k].at \in Mapping => Apart(run[k].paths)

\* What a run has done by the stage it is in.
HasDone(k) ==
    /\ run[k].at = "renames" => \A f \in run[k].todo : run[k].links[f].label # None
    /\ run[k].at = "creates" => \A f \in Folders \ run[k].todo : run[k].seen[f] # None
    /\ run[k].at = "records" => \A f \in Folders :
          run[k].seen[f] # None /\ (f \notin run[k].todo => link[f].label # None)
    /\ run[k].at = "reread" => link[run[k].folder].label # None

\* Runs that overlap are all astray, or none is and they saw the same tree.
Together ==
    \A k, x \in Mirror!Workers : run[k].at \in Mapping /\ run[x].at \in Mapping =>
       /\ run[k].astray <=> run[x].astray
       /\ ~run[k].astray => run[k].paths = run[x].paths

\* A run that is not astray renames labels that no other folder has, and what it is
\* not to rename has its path for a name ...
RenamesRight(k) ==
    run[k].at = "renames" /\ ~run[k].astray =>
       /\ \A f \in Folders : Live(link[f].label) =>
             \/ name[link[f].label] = run[k].paths[f]
             \/ f \in run[k].todo /\ link[f].label = run[k].links[f].label
       /\ \A f, g \in Folders : Live(link[f].label) /\ link[f].label = link[g].label => f = g
       /\ \A f \in run[k].todo : Live(run[k].links[f].label) =>
             /\ \/ link[f].label = run[k].links[f].label
                \/ name[run[k].links[f].label] = run[k].paths[f]
             /\ \A g \in Folders \ {f} : link[g].label # run[k].links[f].label

\* ... so that it finds every label that is still there under the path of its folder.
FindsRight(k) ==
    run[k].at \in {"creates", "records"} /\ ~run[k].astray =>
       \A f \in Folders :
          /\ Live(link[f].label) => name[link[f].label] = run[k].paths[f]
          /\ Live(run[k].seen[f]) => name[run[k].seen[f]] = run[k].paths[f]

RunsOK ==
    /\ NamesOK /\ KeptOK /\ PathsOK /\ Together
    /\ \A k \in Mirror!Workers : HasDone(k) /\ RenamesRight(k) /\ FindsRight(k)

\* A thread that is not set apart and that no classification is on the way for: without
\* a job it carries what its folder's link says; the writer that has read it is about to
\* give it that, or will find that the label is gone.
Pending(t) == \E api \in BOOLEAN : <<t, api>> \in adding

Settled(t) ==
    /\ carries[t] \cap Mirror!Managed = Mirror!Wanted(latest[t])
    /\ latest[t] # None => Mirror!Linked(latest[t])

InHand(t) ==
    /\ run["writer"].folder = latest[t]
    /\ BusyWriter /\ run["writer"].then = "reread" =>
          carries[t] \cap Mirror!Managed
             \subseteq run["writer"].managed \cup Mirror!Wanted(run["writer"].folder)
    /\ run["writer"].at = "apply" =>
          /\ run["writer"].folder # None => Mirror!Linked(run["writer"].folder)
          /\ \/ \E l \in run["writer"].desired : name[l] = None
             \/ /\ run["writer"].desired = Mirror!Wanted(run["writer"].folder)
                /\ carries[t] \cap Mirror!Managed
                      \subseteq run["writer"].managed \cup run["writer"].desired

ThreadsOK ==
    \A t \in Threads \ adrift : ~Pending(t) =>
       /\ jobs[t].at = "none" => Settled(t)
       /\ jobs[t].at = "active" /\ run["writer"].at # "thread" => InHand(t)

LabelsInv == LabelsTyped /\ WorkersOK /\ RunsOK /\ ThreadsOK

-----------------------------------------------------------------------------
LEMMA JobsAre ==
    /\ UNION {Mirror!Jobs(k) : k \in Mirror!Workers} = JobIds
    /\ Mirror!Jobs("writer") = Threads
    /\ Mirror!Jobs("provisioner") = {"provision", "relabel"}
    /\ \A k \in Mirror!Workers : Mirror!Jobs(k) \subseteq JobIds
BY SMT DEF Mirror!Jobs, Mirror!Workers, JobIds

LEMMA IdleTyped == Mirror!Idle \in RunRows /\ HasRead(Mirror!Idle)
BY SMT DEF Mirror!Idle, RunRows, HasRead, Stages, Mapping

LEMMA NoJobTyped == Mirror!NoJob \in JobRows
BY SMT DEF Mirror!NoJob, JobRows

LEMMA AddedTyped ==
    ASSUME NEW q \in JobRows, NEW api \in BOOLEAN
    PROVE  Mirror!Added(q, api) \in JobRows
BY SMT DEF Mirror!Added, JobRows

LEMMA LabelsInit == LabelSizes /\ Mirror!Init => LabelsTyped
<1>.  SUFFICES ASSUME LabelSizes, Mirror!Init PROVE LabelsTyped
      OBVIOUS
<1>1. path \in [Folders -> Paths] /\ latest \in [Threads -> Folders \cup {None}]
      BY DEF Mirror!Init
<1>2. name \in [Mirror!Labels -> Paths \cup {None}] /\ made \in 0 .. MaxLabels
      BY DEF Mirror!Init, LabelSizes
<1>3. carries \in [Threads -> SUBSET Mirror!Labels]
      BY DEF Mirror!Init
<1>4. link \in [Folders -> LinkRows]
      BY DEF Mirror!Init, LinkRows
<1>5. on \in BOOLEAN /\ adding \in SUBSET (Threads \X BOOLEAN)
      <2>1. adding = {<<t, FALSE>> : t \in {u \in Threads : latest[u] # None}}
            BY DEF Mirror!Init
      <2>2. \A t \in Threads : <<t, FALSE>> \in Threads \X BOOLEAN
            OBVIOUS
      <2>3. on = TRUE
            BY DEF Mirror!Init
      <2>.  QED BY Zenon, <2>1, <2>2, <2>3
<1>6. jobs \in [JobIds -> JobRows]
      BY JobsAre, NoJobTyped DEF Mirror!Init
<1>7. run \in [Mirror!Workers -> RunRows] /\ \A k \in Mirror!Workers : HasRead(run[k])
      BY IdleTyped DEF Mirror!Init
<1>8. adrift \in SUBSET Threads /\ edits \in 0 .. MaxEdits /\ mishaps \in 0 .. MaxMishaps
      BY DEF Mirror!Init, LabelSizes
<1>.  QED BY <1>1, <1>2, <1>3, <1>4, <1>5, <1>6, <1>7, <1>8 DEF LabelsTyped

\* One run is put in the place of another.
LEMMA RunPut ==
    ASSUME LabelsTyped, NEW k \in Mirror!Workers, NEW r \in RunRows, HasRead(r)
    PROVE  /\ [run EXCEPT ![k] = r] \in [Mirror!Workers -> RunRows]
           /\ \A x \in Mirror!Workers : HasRead([run EXCEPT ![k] = r][x])
BY DEF LabelsTyped

LEMMA GoesTyped ==
    ASSUME LabelsTyped, NEW k \in Mirror!Workers, NEW r \in RunRows, HasRead(r)
    PROVE  /\ Mirror!Goes(k, r) \in [Mirror!Workers -> RunRows]
           /\ \A x \in Mirror!Workers : HasRead(Mirror!Goes(k, r)[x])
<1>1. \A x \in Mirror!Workers : run[x] \in RunRows /\ HasRead(run[x])
      BY DEF LabelsTyped
<1>2. ASSUME NEW x \in Mirror!Workers, NEW b \in BOOLEAN
      PROVE  /\ [run[x] EXCEPT !.astray = run[x].astray \/ b] \in RunRows
             /\ HasRead([run[x] EXCEPT !.astray = run[x].astray \/ b])
      <2>1. run[x].astray \/ b \in BOOLEAN
            BY <1>1
      <2>2. [run[x] EXCEPT !.astray = run[x].astray \/ b] \in RunRows
            BY <1>1, <2>1 DEF RunRows
      <2>.  QED BY <1>1, <2>2 DEF RunRows, HasRead
<1>3. ASSUME NEW x \in Mirror!Workers
      PROVE  (r.astray /\ Mirror!Provisioning(x)) \in BOOLEAN
      BY DEF Mirror!Provisioning
<1>4. \A x \in Mirror!Workers :
         Mirror!Goes(k, r)[x] = IF x = k THEN r
                                ELSE [run[x] EXCEPT !.astray = run[x].astray \/ (r.astray /\ Mirror!Provisioning(x))]
      BY DEF Mirror!Goes
<1>5. \A x \in Mirror!Workers : Mirror!Goes(k, r)[x] \in RunRows /\ HasRead(Mirror!Goes(k, r)[x])
      BY <1>2, <1>3, <1>4
<1>.  QED BY <1>5 DEF Mirror!Goes

\* An attempt that ends, whichever way.
LEMMA DoneTyped ==
    ASSUME LabelsTyped, NEW k \in Mirror!Workers, Mirror!Done(k)
    PROVE  /\ jobs' \in [JobIds -> JobRows]
           /\ run' \in [Mirror!Workers -> RunRows]
           /\ \A x \in Mirror!Workers : HasRead(run'[x])
<1>1. jobs' \in [JobIds -> JobRows]
      BY NoJobTyped DEF LabelsTyped, Mirror!Done
<1>2. run' = [run EXCEPT ![k] = Mirror!Idle]
      BY DEF Mirror!Done
<1>.  QED BY <1>1, <1>2, IdleTyped, RunPut

LEMMA ThrowTyped ==
    ASSUME LabelsTyped, NEW k \in Mirror!Workers, Mirror!Throw(k)
    PROVE  /\ jobs' \in [JobIds -> JobRows] /\ adrift' \in SUBSET Threads
           /\ run' \in [Mirror!Workers -> RunRows]
           /\ \A x \in Mirror!Workers : HasRead(run'[x])
<1>1. ASSUME NEW q \in JobRows, q.left > 1
      PROVE  [q EXCEPT !.at = "waiting", !.left = q.left - 1] \in JobRows
      <2>1. q.left \in 0 .. 3 /\ q.stalled \in BOOLEAN
            BY DEF JobRows
      <2>2. q.left - 1 \in 0 .. 3
            BY <1>1, <2>1
      <2>.  QED BY <2>1, <2>2 DEF JobRows
<1>2. \A j \in JobIds : jobs[j] \in JobRows
      BY DEF LabelsTyped
<1>3. jobs' = [jobs EXCEPT ![run[k].job] =
                 IF jobs[run[k].job].left > 1
                 THEN [jobs[run[k].job] EXCEPT !.at = "waiting", !.left = jobs[run[k].job].left - 1]
                 ELSE Mirror!NoJob]
      BY DEF Mirror!Throw
<1>4. jobs' \in [JobIds -> JobRows]
      BY <1>1, <1>2, <1>3, NoJobTyped DEF LabelsTyped
<1>5. adrift' \in SUBSET Threads
      BY DEF Mirror!Throw, LabelsTyped
<1>6. run' = [run EXCEPT ![k] = Mirror!Idle]
      BY DEF Mirror!Throw
<1>.  QED BY <1>4, <1>5, <1>6, IdleTyped, RunPut

LEMMA WantedTyped ==
    ASSUME LabelSizes, LabelsTyped
    PROVE  /\ Mirror!Managed \subseteq Mirror!Labels
           /\ \A f \in Folders \cup {None} : Mirror!Wanted(f) \subseteq Mirror!Labels
           /\ \A f \in Folders \cup {None} : Mirror!Wanted(f) \subseteq Mirror!Managed
<1>1. \A f \in Folders : link[f].label \in Mirror!Labels \cup {None}
      BY DEF LabelsTyped, LinkRows
<1>.  QED BY <1>1 DEF LabelSizes, Mirror!Managed, Mirror!Wanted, Mirror!Linked

\* The steps of the API and of its queues.
LEMMA RequestTyped ==
    ASSUME LabelSizes, LabelsTyped,
           \/ \E f \in Folders, p \in Paths : Mirror!Repath(f, p)
           \/ \E t \in Threads, api \in BOOLEAN, f \in Folders \cup {None} : Mirror!Classify(t, f, api)
           \/ \E t \in Threads, api \in BOOLEAN : Mirror!Adds(t, api) \/ Mirror!LosesAdd(t, api)
           \/ Mirror!Switch
    PROVE  LabelsTyped'
<1>1. ASSUME NEW j \in JobIds, NEW api \in BOOLEAN
      PROVE  [jobs EXCEPT ![j] = Mirror!Added(jobs[j], api)] \in [JobIds -> JobRows]
      BY AddedTyped DEF LabelsTyped
<1>2. CASE \E f \in Folders, p \in Paths : Mirror!Repath(f, p)
      <2>1. PICK f \in Folders, p \in Paths : Mirror!Repath(f, p)
            BY <1>2
      <2>2. path' \in [Folders -> Paths] /\ edits' \in 0 .. MaxEdits
            BY <2>1 DEF Mirror!Repath, Mirror!Edit, LabelsTyped, LabelSizes
      <2>3. jobs' \in [JobIds -> JobRows]
            <3>1. CASE jobs' = [jobs EXCEPT !["provision"] = Mirror!Added(@, TRUE)]
                  <4>1. jobs' = [jobs EXCEPT !["provision"] = Mirror!Added(jobs["provision"], TRUE)]
                        BY <3>1
                  <4>2. "provision" \in JobIds
                        BY DEF JobIds
                  <4>.  QED BY <1>1, <4>1, <4>2
            <3>2. CASE jobs' = jobs
                  BY <3>2 DEF LabelsTyped
            <3>.  QED BY <2>1, <3>1, <3>2 DEF Mirror!Repath
      <2>.  QED BY <2>1, <2>2, <2>3 DEF Mirror!Repath, Mirror!mailVars, LabelsTyped
<1>3. CASE \E t \in Threads, api \in BOOLEAN, f \in Folders \cup {None} : Mirror!Classify(t, f, api)
      <2>1. PICK t \in Threads, api \in BOOLEAN, f \in Folders \cup {None} : Mirror!Classify(t, f, api)
            BY <1>3
      <2>2. latest' \in [Threads -> Folders \cup {None}] /\ edits' \in 0 .. MaxEdits
            BY <2>1 DEF Mirror!Classify, Mirror!Edit, LabelsTyped, LabelSizes
      <2>3. <<t, api>> \in Threads \X BOOLEAN
            OBVIOUS
      <2>4. adding' \in SUBSET (Threads \X BOOLEAN)
            BY <2>1, <2>3 DEF Mirror!Classify, LabelsTyped
      <2>.  QED BY <2>1, <2>2, <2>4 DEF Mirror!Classify, Mirror!mailVars, LabelsTyped
<1>4. CASE \E t \in Threads, api \in BOOLEAN : Mirror!Adds(t, api)
      <2>1. PICK t \in Threads, api \in BOOLEAN : Mirror!Adds(t, api)
            BY <1>4
      <2>2. jobs' \in [JobIds -> JobRows]
            BY <1>1, <2>1 DEF Mirror!Adds, JobIds
      <2>3. adding' \in SUBSET (Threads \X BOOLEAN) /\ adrift' \in SUBSET Threads
            BY <2>1 DEF Mirror!Adds, LabelsTyped
      <2>.  QED BY <2>1, <2>2, <2>3 DEF Mirror!Adds, Mirror!treeVars, Mirror!mailVars, LabelsTyped
<1>5. CASE \E t \in Threads, api \in BOOLEAN : Mirror!LosesAdd(t, api)
      <2>1. PICK t \in Threads, api \in BOOLEAN : Mirror!LosesAdd(t, api)
            BY <1>5
      <2>2. adding' \in SUBSET (Threads \X BOOLEAN) /\ adrift' \in SUBSET Threads
            BY <2>1 DEF Mirror!LosesAdd, LabelsTyped
      <2>3. mishaps' \in 0 .. MaxMishaps
            BY <2>1 DEF Mirror!LosesAdd, Mirror!Mishap, LabelsTyped, LabelSizes
      <2>.  QED BY <2>1, <2>2, <2>3 DEF Mirror!LosesAdd, Mirror!treeVars, Mirror!mailVars, LabelsTyped
<1>6. CASE Mirror!Switch
      <2>1. on' \in BOOLEAN /\ edits' \in 0 .. MaxEdits
            BY <1>6 DEF Mirror!Switch, Mirror!Edit, LabelsTyped, LabelSizes
      <2>2. jobs' \in [JobIds -> JobRows]
            BY <1>1, <1>6 DEF Mirror!Switch, LabelsTyped, JobIds
      <2>.  QED BY <1>6, <2>1, <2>2 DEF Mirror!Switch, Mirror!mailVars, LabelsTyped
<1>.  QED BY <1>2, <1>3, <1>4, <1>5, <1>6

\* The steps of a run that maps folders to labels.
LEMMA TreeReadsTyped ==
    ASSUME LabelSizes, LabelsTyped, NEW k \in Mirror!Workers,
           Mirror!ReadsTree(k) \/ Mirror!ReadsLinks(k)
    PROVE  LabelsTyped'
<1>1. run[k] \in RunRows /\ HasRead(run[k])
      BY DEF LabelsTyped
<1>2. CASE Mirror!ReadsTree(k)
      <2>.  DEFINE r == [run[k] EXCEPT !.at = "links", !.paths = path, !.astray = Mirror!Clashes(k)]
      <2>1. Mirror!Clashes(k) \in BOOLEAN
            BY DEF Mirror!Clashes
      <2>2. path \in [Folders -> Paths]
            BY DEF LabelsTyped
      <2>3. r \in RunRows
            BY <1>1, <2>1, <2>2 DEF RunRows, Stages
      <2>4. r.at = "links" /\ r.paths = path
            BY <1>1 DEF RunRows
      <2>5. HasRead(r)
            BY <2>2, <2>4 DEF HasRead
      <2>6. run' = Mirror!Goes(k, r)
            BY <1>2 DEF Mirror!ReadsTree
      <2>.  HIDE DEF r
      <2>7. run' \in [Mirror!Workers -> RunRows] /\ \A x \in Mirror!Workers : HasRead(run'[x])
            BY <2>3, <2>5, <2>6, GoesTyped
      <2>.  QED BY <1>2, <2>7 DEF Mirror!ReadsTree, Mirror!treeVars, Mirror!mailVars, LabelsTyped
<1>3. CASE Mirror!ReadsLinks(k)
      <2>.  DEFINE r == [run[k] EXCEPT !.at = "renames", !.links = link, !.todo = Mirror!Drifted(k),
                                     !.astray = run[k].astray \/ Mirror!LinksOff]
      <2>1. run[k].astray \/ Mirror!LinksOff \in BOOLEAN
            BY <1>1 DEF RunRows, Mirror!LinksOff
      <2>2. link \in [Folders -> LinkRows] /\ Mirror!Drifted(k) \in SUBSET Folders
            BY DEF LabelsTyped, Mirror!Drifted
      <2>3. r \in RunRows
            <3>1. PICK b \in BOOLEAN : b = (run[k].astray \/ Mirror!LinksOff)
                  BY <2>1
            <3>2. PICK drifted \in SUBSET Folders : drifted = Mirror!Drifted(k)
                  BY <2>2
            <3>3. [run[k] EXCEPT !.at = "renames", !.links = link, !.todo = drifted, !.astray = b]
                     \in RunRows
                  BY <1>1, <2>2 DEF RunRows, Stages
            <3>.  QED BY <3>1, <3>2, <3>3
      <2>4. r.at = "renames" /\ r.links = link /\ r.paths = run[k].paths
            BY <1>1 DEF RunRows
      <2>5. run[k].at = "links"
            BY <1>3 DEF Mirror!ReadsLinks
      <2>6. HasRead(r)
            BY <1>1, <2>2, <2>4, <2>5 DEF HasRead, Mapping
      <2>7. run' = Mirror!Goes(k, r)
            BY <1>3 DEF Mirror!ReadsLinks
      <2>.  HIDE DEF r
      <2>8. run' \in [Mirror!Workers -> RunRows] /\ \A x \in Mirror!Workers : HasRead(run'[x])
            BY <2>3, <2>6, <2>7, GoesTyped
      <2>.  QED BY <1>3, <2>8 DEF Mirror!ReadsLinks, Mirror!treeVars, Mirror!mailVars, LabelsTyped
<1>.  QED BY <1>2, <1>3

LEMMA RenamesTyped ==
    ASSUME LabelSizes, LabelsTyped, NEW k \in Mirror!Workers, NEW f \in Folders, Mirror!Renames(k, f)
    PROVE  LabelsTyped'
<1>.  DEFINE l == run[k].links[f].label
             taken == \E x \in Mirror!Labels \ {l} : name[x] = run[k].paths[f]
             r == [run[k] EXCEPT !.todo = run[k].todo \ {f},
                                 !.astray = run[k].astray \/ (Mirror!Exists(l) /\ taken)]
<1>1. run[k] \in RunRows /\ HasRead(run[k]) /\ run[k].at = "renames"
      BY DEF LabelsTyped, Mirror!Renames
<1>2. run[k].paths[f] \in Paths
      BY <1>1 DEF HasRead, Mapping
<1>3. name' = IF Mirror!Exists(l) /\ ~taken THEN [name EXCEPT ![l] = run[k].paths[f]] ELSE name
      BY DEF Mirror!Renames
<1>4. name' \in [Mirror!Labels -> Paths \cup {None}]
      BY <1>2, <1>3 DEF LabelsTyped
<1>5. run[k].astray \/ (Mirror!Exists(l) /\ taken) \in BOOLEAN
      BY <1>1 DEF RunRows, Mirror!Exists
<1>6. r \in RunRows
      BY <1>1, <1>5 DEF RunRows
<1>7. r.at = "renames" /\ r.links = run[k].links /\ r.paths = run[k].paths
      BY <1>1 DEF RunRows
<1>8. HasRead(r)
      BY <1>1, <1>7 DEF HasRead
<1>9. run' = Mirror!Goes(k, r)
      BY DEF Mirror!Renames
<1>.  HIDE DEF r
<1>10. run' \in [Mirror!Workers -> RunRows] /\ \A x \in Mirror!Workers : HasRead(run'[x])
      BY <1>6, <1>8, <1>9, GoesTyped
<1>.  QED BY <1>4, <1>10 DEF Mirror!Renames, Mirror!treeVars, LabelsTyped

LEMMA NamedTyped ==
    ASSUME NEW p
    PROVE  /\ Mirror!LabelNamed(p) \in Mirror!Labels \cup {None}
           /\ Mirror!LabelNamed(p) = None \/ name[Mirror!LabelNamed(p)] = p
           /\ None \notin Mirror!Labels =>
                 (Mirror!LabelNamed(p) = None <=> \A l \in Mirror!Labels : name[l] # p)
BY DEF Mirror!LabelNamed

LEMMA ResolvesTyped ==
    ASSUME LabelSizes, LabelsTyped, NEW k \in Mirror!Workers,
           Mirror!Lists(k) \/ Mirror!CreatesAll(k)
    PROVE  LabelsTyped'
<1>1. run[k] \in RunRows /\ HasRead(run[k])
      BY DEF LabelsTyped
<1>2. CASE Mirror!Lists(k)
      <2>.  DEFINE seen == [f \in Folders |-> Mirror!LabelNamed(run[k].paths[f])]
                   todo == {f \in Folders : seen[f] = None}
                   r == [run[k] EXCEPT !.at = "creates", !.seen = seen, !.links = <<>>, !.todo = todo]
      <2>1. run[k].at = "renames"
            BY <1>2 DEF Mirror!Lists
      <2>2. seen \in [Folders -> Mirror!Labels \cup {None}]
            BY NamedTyped
      <2>3. todo \in SUBSET Folders
            OBVIOUS
      <2>4. run' = [run EXCEPT ![k] = r]
            BY <1>2 DEF Mirror!Lists, LabelsTyped
      <2>.  HIDE DEF seen, todo
      <2>5. r \in RunRows
            BY <1>1, <2>2, <2>3 DEF RunRows, Stages
      <2>6. r.at = "creates" /\ r.seen = seen /\ r.paths = run[k].paths
            BY <1>1 DEF RunRows
      <2>7. HasRead(r)
            BY <1>1, <2>1, <2>2, <2>6 DEF HasRead, Mapping
      <2>.  HIDE DEF r
      <2>8. run' \in [Mirror!Workers -> RunRows] /\ \A x \in Mirror!Workers : HasRead(run'[x])
            BY <2>4, <2>5, <2>7, RunPut
      <2>.  QED BY <1>2, <2>8 DEF Mirror!Lists, Mirror!treeVars, Mirror!mailVars, LabelsTyped
<1>3. CASE Mirror!CreatesAll(k)
      <2>.  DEFINE r == [run[k] EXCEPT !.at = "records", !.todo = Folders]
      <2>1. run[k].at = "creates"
            BY <1>3 DEF Mirror!CreatesAll
      <2>2. run' = [run EXCEPT ![k] = r]
            BY <1>3 DEF Mirror!CreatesAll, LabelsTyped
      <2>3. r \in RunRows
            BY <1>1 DEF RunRows, Stages
      <2>4. r.at = "records" /\ r.seen = run[k].seen /\ r.paths = run[k].paths
            BY <1>1 DEF RunRows
      <2>5. HasRead(r)
            BY <1>1, <2>1, <2>4 DEF HasRead, Mapping
      <2>.  HIDE DEF r
      <2>6. run' \in [Mirror!Workers -> RunRows] /\ \A x \in Mirror!Workers : HasRead(run'[x])
            BY <2>2, <2>3, <2>5, RunPut
      <2>.  QED BY <1>3, <2>6 DEF Mirror!CreatesAll, Mirror!treeVars, Mirror!mailVars, LabelsTyped
<1>.  QED BY <1>2, <1>3

LEMMA CreatesTyped ==
    ASSUME LabelSizes, LabelsTyped, NEW k \in Mirror!Workers, NEW f \in Folders, Mirror!Creates(k, f)
    PROVE  LabelsTyped'
<1>.  DEFINE found == Mirror!LabelNamed(run[k].paths[f])
             got == IF found = None THEN made' ELSE found
             r == [run[k] EXCEPT !.todo = run[k].todo \ {f}, !.seen = [run[k].seen EXCEPT ![f] = got]]
<1>1. run[k] \in RunRows /\ HasRead(run[k]) /\ run[k].at = "creates"
      BY DEF LabelsTyped, Mirror!Creates
<1>2. run[k].paths[f] \in Paths
      BY <1>1 DEF HasRead, Mapping
<1>3. /\ \/ /\ found = None /\ made < MaxLabels /\ made' = made + 1
            /\ name' = [name EXCEPT ![made + 1] = run[k].paths[f]]
         \/ found # None /\ made' = made /\ name' = name
      BY DEF Mirror!Creates
<1>4. made' \in 0 .. MaxLabels /\ (found = None => made' \in Mirror!Labels)
      BY <1>3 DEF LabelsTyped, LabelSizes, Mirror!Labels
<1>5. name' \in [Mirror!Labels -> Paths \cup {None}]
      BY <1>2, <1>3 DEF LabelsTyped
<1>6. got \in Mirror!Labels \cup {None}
      BY <1>4, NamedTyped
<1>7. run' = [run EXCEPT ![k] = r]
      BY DEF Mirror!Creates, LabelsTyped
<1>.  HIDE DEF got
<1>8. [run[k].seen EXCEPT ![f] = got] \in [Folders -> Mirror!Labels \cup {None}]
      BY <1>1, <1>6 DEF HasRead
<1>9. r \in RunRows
      BY <1>1, <1>8 DEF RunRows
<1>10. r.at = "creates" /\ r.seen = [run[k].seen EXCEPT ![f] = got] /\ r.paths = run[k].paths
      BY <1>1 DEF RunRows
<1>11. HasRead(r)
      BY <1>1, <1>8, <1>10 DEF HasRead, Mapping
<1>.  HIDE DEF r
<1>12. run' \in [Mirror!Workers -> RunRows] /\ \A x \in Mirror!Workers : HasRead(run'[x])
      BY <1>7, <1>9, <1>11, RunPut
<1>.  QED BY <1>4, <1>5, <1>12 DEF Mirror!Creates, Mirror!treeVars, LabelsTyped

LEMMA RecordsTyped ==
    ASSUME LabelSizes, LabelsTyped, NEW k \in Mirror!Workers, NEW f \in Folders, Mirror!Records(k, f)
    PROVE  LabelsTyped'
<1>.  DEFINE r == [run[k] EXCEPT !.todo = run[k].todo \ {f}]
             row == [label |-> run[k].seen[f], path |-> run[k].paths[f]]
<1>1. run[k] \in RunRows /\ HasRead(run[k]) /\ run[k].at = "records"
      BY DEF LabelsTyped, Mirror!Records
<1>2. run[k].paths[f] \in Paths /\ run[k].seen[f] \in Mirror!Labels \cup {None}
      BY <1>1 DEF HasRead, Mapping
<1>3. row \in LinkRows
      BY <1>2 DEF LinkRows
<1>4. link' = [link EXCEPT ![f] = row]
      BY DEF Mirror!Records
<1>5. run' = [run EXCEPT ![k] = r]
      BY DEF Mirror!Records, LabelsTyped
<1>.  HIDE DEF row
<1>6. link' \in [Folders -> LinkRows]
      BY <1>3, <1>4 DEF LabelsTyped
<1>7. r \in RunRows
      BY <1>1 DEF RunRows
<1>8. r.at = "records" /\ r.seen = run[k].seen /\ r.paths = run[k].paths
      BY <1>1 DEF RunRows
<1>9. HasRead(r)
      BY <1>1, <1>8 DEF HasRead
<1>.  HIDE DEF r
<1>10. run' \in [Mirror!Workers -> RunRows] /\ \A x \in Mirror!Workers : HasRead(run'[x])
      BY <1>5, <1>7, <1>9, RunPut
<1>11. adrift' \in SUBSET Threads
      BY DEF Mirror!Records, LabelsTyped
<1>.  QED BY <1>6, <1>10, <1>11 DEF Mirror!Records, Mirror!treeVars, Mirror!mailVars, LabelsTyped

\* The ends of a run, and the steps of the jobs.
LEMMA ProvisionedTyped ==
    ASSUME LabelSizes, LabelsTyped, NEW k \in Mirror!Workers, Mirror!Provisioned(k)
    PROVE  LabelsTyped'
<1>1. run[k] \in RunRows /\ HasRead(run[k])
      BY DEF LabelsTyped
<1>2. run[k].then \in {"done", "sweep", "reread", "throw"}
      BY <1>1 DEF RunRows
<1>3. /\ jobs' \in [JobIds -> JobRows] /\ adrift' \in SUBSET Threads
      /\ run' \in [Mirror!Workers -> RunRows] /\ \A x \in Mirror!Workers : HasRead(run'[x])
      <2>1. CASE run[k].then = "done"
            <3>1. Mirror!Done(k) /\ UNCHANGED adrift
                  BY <2>1 DEF Mirror!Provisioned
            <3>.  QED BY <3>1, DoneTyped DEF LabelsTyped
      <2>2. CASE run[k].then = "sweep"
            <3>1. /\ jobs' = [j \in DOMAIN jobs |->
                                IF j = "relabel" THEN Mirror!NoJob
                                ELSE IF j \in Threads /\ latest[j] # None THEN Mirror!Added(jobs[j], FALSE)
                                ELSE jobs[j]]
                  /\ run' = [run EXCEPT ![k] = Mirror!Idle] /\ UNCHANGED adrift
                  BY <2>2 DEF Mirror!Provisioned
            <3>2. \A j \in JobIds : jobs[j] \in JobRows /\ Mirror!Added(jobs[j], FALSE) \in JobRows
                  BY AddedTyped DEF LabelsTyped
            <3>3. jobs' \in [JobIds -> JobRows]
                  BY <3>1, <3>2, NoJobTyped DEF LabelsTyped
            <3>.  QED BY <3>1, <3>3, IdleTyped, RunPut DEF LabelsTyped
      <2>3. CASE run[k].then = "reread"
            <3>.  DEFINE r == [run[k] EXCEPT !.at = "reread", !.paths = <<>>, !.seen = <<>>]
            <3>1. run' = [run EXCEPT ![k] = r] /\ UNCHANGED <<jobs, adrift>>
                  BY <2>3 DEF Mirror!Provisioned, LabelsTyped
            <3>2. r \in RunRows
                  BY <1>1 DEF RunRows, Stages
            <3>3. r.at = "reread"
                  BY <1>1 DEF RunRows
            <3>4. HasRead(r)
                  BY <3>3 DEF HasRead, Mapping
            <3>.  HIDE DEF r
            <3>.  QED BY <3>1, <3>2, <3>4, RunPut DEF LabelsTyped
      <2>4. CASE run[k].then = "throw"
            <3>1. Mirror!Throw(k)
                  BY <2>4 DEF Mirror!Provisioned
            <3>.  QED BY <3>1, ThrowTyped
      <2>.  QED BY <1>2, <2>1, <2>2, <2>3, <2>4
<1>.  QED BY <1>3 DEF Mirror!Provisioned, Mirror!treeVars, Mirror!mailVars, LabelsTyped

LEMMA StartTyped ==
    ASSUME LabelSizes, LabelsTyped, NEW k \in Mirror!Workers, NEW j \in Mirror!Jobs(k),
           Mirror!Start(k, j)
    PROVE  LabelsTyped'
<1>1. run[k] \in RunRows /\ j \in JobIds
      BY JobsAre DEF LabelsTyped
<1>2. CASE on
      <2>.  DEFINE r == [run[k] EXCEPT !.at = IF k = "writer" THEN "thread" ELSE "tree", !.job = j,
                                       !.then = IF j = "relabel" THEN "sweep" ELSE "done"]
      <2>1. run' = [run EXCEPT ![k] = r] /\ jobs' = [jobs EXCEPT ![j].at = "active"] /\ adrift' = adrift
            BY <1>2 DEF Mirror!Start, LabelsTyped
      <2>2. r \in RunRows
            <3>1. PICK at \in {"thread", "tree"} : at = IF k = "writer" THEN "thread" ELSE "tree"
                  OBVIOUS
            <3>2. PICK then \in {"sweep", "done"} : then = IF j = "relabel" THEN "sweep" ELSE "done"
                  OBVIOUS
            <3>3. [run[k] EXCEPT !.at = at, !.job = j, !.then = then] \in RunRows
                  BY <1>1 DEF RunRows, Stages
            <3>.  QED BY <3>1, <3>2, <3>3
      <2>3. r.at \in {"thread", "tree"}
            BY <1>1 DEF RunRows
      <2>4. HasRead(r)
            BY <2>3 DEF HasRead, Mapping
      <2>.  HIDE DEF r
      <2>5. run' \in [Mirror!Workers -> RunRows] /\ \A x \in Mirror!Workers : HasRead(run'[x])
            BY <2>1, <2>2, <2>4, RunPut
      <2>6. \A q \in JobRows : [q EXCEPT !.at = "active"] \in JobRows
            BY DEF JobRows
      <2>7. jobs' = [jobs EXCEPT ![j] = [jobs[j] EXCEPT !.at = "active"]] /\ jobs[j] \in JobRows
            BY <1>1, <2>1 DEF LabelsTyped
      <2>8. jobs' \in [JobIds -> JobRows]
            BY <2>6, <2>7 DEF LabelsTyped
      <2>.  QED BY <2>1, <2>5, <2>8 DEF Mirror!Start, Mirror!treeVars, Mirror!mailVars, LabelsTyped
<1>3. CASE ~on
      <2>1. jobs' \in [JobIds -> JobRows] /\ adrift' \in SUBSET Threads
            BY <1>1, <1>3, NoJobTyped DEF Mirror!Start, LabelsTyped
      <2>2. run' = run
            BY <1>3 DEF Mirror!Start
      <2>.  QED BY <2>1, <2>2 DEF Mirror!Start, Mirror!treeVars, Mirror!mailVars, LabelsTyped
<1>.  QED BY <1>2, <1>3

LEMMA ThreadReadTyped ==
    ASSUME LabelSizes, LabelsTyped, WorkersOK, Mirror!ReadsThread \/ Mirror!Rereads
    PROVE  LabelsTyped'
<1>1. "writer" \in Mirror!Workers /\ run["writer"] \in RunRows
      BY DEF LabelsTyped, Mirror!Workers
<1>2. CASE Mirror!ReadsThread
      <2>.  DEFINE t == run["writer"].job
                   f == latest[t]
                   r == [run["writer"] EXCEPT
                           !.folder = f, !.managed = Mirror!Managed, !.desired = Mirror!Wanted(f),
                           !.at = IF f # None /\ ~Mirror!Linked(f) THEN "tree" ELSE "apply",
                           !.then = "reread"]
      <2>1. t \in Threads
            BY <1>1, <1>2, JobsAre DEF WorkersOK, Mirror!ReadsThread
      <2>2. f \in Folders \cup {None}
            BY <2>1 DEF LabelsTyped
      <2>3. run' = [run EXCEPT !["writer"] = r] /\ adrift' \in SUBSET Threads
            BY <1>2 DEF Mirror!ReadsThread, LabelsTyped
      <2>.  HIDE DEF f
      <2>4. Mirror!Managed \in SUBSET Mirror!Labels /\ Mirror!Wanted(f) \in SUBSET Mirror!Labels
            BY <2>2, WantedTyped
      <2>.  DEFINE at == IF f # None /\ ~Mirror!Linked(f) THEN "tree" ELSE "apply"
      <2>5. at \in {"tree", "apply"} /\ at \in Stages
            BY DEF Stages
      <2>6. r \in RunRows /\ r.at = at
            <3>.  HIDE DEF at
            <3>1. r = [run["writer"] EXCEPT
                         !.folder = f, !.managed = Mirror!Managed, !.desired = Mirror!Wanted(f),
                         !.at = at, !.then = "reread"]
                  BY DEF at
            <3>.  HIDE DEF r
            <3>.  QED BY <1>1, <2>2, <2>4, <2>5, <3>1 DEF RunRows
      <2>7. HasRead(r)
            BY <2>5, <2>6 DEF HasRead, Mapping
      <2>.  HIDE DEF r
      <2>8. run' \in [Mirror!Workers -> RunRows] /\ \A x \in Mirror!Workers : HasRead(run'[x])
            BY <1>1, <2>3, <2>6, <2>7, RunPut
      <2>.  QED BY <1>2, <2>3, <2>8 DEF Mirror!ReadsThread, Mirror!treeVars, Mirror!mailVars, LabelsTyped
<1>3. CASE Mirror!Rereads
      <2>.  DEFINE want == Mirror!Wanted(run["writer"].folder)
                   r == [run["writer"] EXCEPT !.at = "apply", !.desired = want,
                                              !.managed = run["writer"].managed \cup want]
      <2>1. run["writer"].folder \in Folders \cup {None}
            BY <1>1 DEF RunRows
      <2>2. want \in SUBSET Mirror!Labels
            BY <2>1, WantedTyped
      <2>3. run' = [run EXCEPT !["writer"] = r]
            BY <1>3 DEF Mirror!Rereads, LabelsTyped
      <2>.  HIDE DEF want
      <2>4. run["writer"].managed \cup want \in SUBSET Mirror!Labels
            BY <1>1, <2>2 DEF RunRows
      <2>5. r \in RunRows
            BY <1>1, <2>2, <2>4 DEF RunRows, Stages
      <2>6. r.at = "apply"
            BY <1>1 DEF RunRows
      <2>7. HasRead(r)
            BY <2>6 DEF HasRead, Mapping
      <2>.  HIDE DEF r
      <2>8. run' \in [Mirror!Workers -> RunRows] /\ \A x \in Mirror!Workers : HasRead(run'[x])
            BY <1>1, <2>3, <2>5, <2>7, RunPut
      <2>.  QED BY <1>3, <2>8 DEF Mirror!Rereads, Mirror!treeVars, Mirror!mailVars, LabelsTyped
<1>.  QED BY <1>2, <1>3

LEMMA AppliesTyped ==
    ASSUME LabelSizes, LabelsTyped, WorkersOK, Mirror!Applies
    PROVE  LabelsTyped'
<1>.  DEFINE r == run["writer"]
             add == r.desired \ carries[r.job]
<1>1. "writer" \in Mirror!Workers /\ r \in RunRows /\ r.at = "apply"
      BY DEF LabelsTyped, Mirror!Workers, Mirror!Applies
<1>2. CASE \E l \in add : ~Mirror!Exists(l)
      <2>1. run' = [run EXCEPT !["writer"] = Mirror!Heal(r)] /\ UNCHANGED <<jobs, carries>>
            BY <1>2 DEF Mirror!Applies
      <2>2. Mirror!Heal(r) \in RunRows /\ HasRead(Mirror!Heal(r))
            BY <1>1 DEF RunRows, HasRead, Stages, Mapping, Mirror!Heal
      <2>3. run' \in [Mirror!Workers -> RunRows] /\ \A x \in Mirror!Workers : HasRead(run'[x])
            BY <1>1, <2>1, <2>2, RunPut
      <2>.  QED BY <2>1, <2>3 DEF Mirror!Applies, Mirror!treeVars, LabelsTyped
<1>3. CASE ~ \E l \in add : ~Mirror!Exists(l)
      <2>1. /\ Mirror!Done("writer")
            /\ carries' = [carries EXCEPT ![r.job] = (carries[r.job] \ Mirror!Removal(r, r.job)) \cup add]
            BY <1>3 DEF Mirror!Applies
      <2>2. r.job \in Threads
            BY <1>1, JobsAre DEF WorkersOK
      <2>3. add \subseteq Mirror!Labels /\ carries[r.job] \subseteq Mirror!Labels
            BY <1>1, <2>2 DEF RunRows, LabelsTyped
      <2>4. carries' \in [Threads -> SUBSET Mirror!Labels]
            BY <2>1, <2>3 DEF LabelsTyped
      <2>5. /\ jobs' \in [JobIds -> JobRows]
            /\ run' \in [Mirror!Workers -> RunRows] /\ \A x \in Mirror!Workers : HasRead(run'[x])
            BY <1>1, <2>1, DoneTyped
      <2>.  QED BY <2>4, <2>5 DEF Mirror!Applies, Mirror!treeVars, LabelsTyped
<1>.  QED BY <1>2, <1>3

\* What goes wrong around them.
LEMMA Counted == LabelSizes /\ LabelsTyped /\ Mirror!Mishap => mishaps' \in 0 .. MaxMishaps
BY DEF Mirror!Mishap, LabelsTyped, LabelSizes

LEMMA MishapTyped ==
    ASSUME LabelSizes, LabelsTyped,
           \/ \E k \in Mirror!Workers : Mirror!CallFails(k) \/ Mirror!AuthFails(k)
           \/ Mirror!WorkerDies
           \/ \E l \in Mirror!Labels : Mirror!LabelDeleted(l)
    PROVE  LabelsTyped'
<1>1. CASE \E k \in Mirror!Workers : Mirror!CallFails(k)
      <2>1. PICK k \in Mirror!Workers : Mirror!CallFails(k)
            BY <1>1
      <2>2. Mirror!Throw(k) /\ mishaps' \in 0 .. MaxMishaps
            BY <2>1 DEF Mirror!CallFails, Mirror!Mishap, LabelsTyped, LabelSizes
      <2>3. /\ jobs' \in [JobIds -> JobRows] /\ adrift' \in SUBSET Threads
            /\ run' \in [Mirror!Workers -> RunRows] /\ \A x \in Mirror!Workers : HasRead(run'[x])
            BY <2>2, ThrowTyped
      <2>.  QED BY <2>1, <2>2, <2>3 DEF Mirror!CallFails, Mirror!treeVars, Mirror!mailVars, LabelsTyped
<1>2. CASE \E k \in Mirror!Workers : Mirror!AuthFails(k)
      <2>1. PICK k \in Mirror!Workers : Mirror!AuthFails(k)
            BY <1>2
      <2>2. Mirror!Done(k) /\ adrift' \in SUBSET Threads /\ on' \in BOOLEAN
            BY <2>1 DEF Mirror!AuthFails, LabelsTyped
      <2>4. mishaps' \in 0 .. MaxMishaps
            BY <2>1, Counted DEF Mirror!AuthFails
      <2>3. /\ jobs' \in [JobIds -> JobRows]
            /\ run' \in [Mirror!Workers -> RunRows] /\ \A x \in Mirror!Workers : HasRead(run'[x])
            BY <2>2, DoneTyped
      <2>.  QED BY <2>1, <2>2, <2>3, <2>4 DEF Mirror!AuthFails, Mirror!treeVars, Mirror!mailVars, LabelsTyped
<1>3. CASE Mirror!WorkerDies
      <2>1. run' = [k \in Mirror!Workers |-> Mirror!Idle]
            BY <1>3 DEF Mirror!WorkerDies
      <2>8. mishaps' \in 0 .. MaxMishaps
            BY <1>3, Counted DEF Mirror!WorkerDies
      <2>2. run' \in [Mirror!Workers -> RunRows] /\ \A x \in Mirror!Workers : HasRead(run'[x])
            BY <2>1, IdleTyped
      <2>3. \A q \in JobRows : [at |-> "waiting", left |-> q.left, stalled |-> TRUE] \in JobRows
            BY DEF JobRows
      <2>4. \A j \in JobIds : jobs[j] \in JobRows
            BY DEF LabelsTyped
      <2>5. jobs' = [j \in JobIds |->
                       IF jobs[j].at # "active" THEN jobs[j]
                       ELSE IF jobs[j].stalled THEN Mirror!NoJob
                       ELSE [at |-> "waiting", left |-> jobs[j].left, stalled |-> TRUE]]
            BY <1>3 DEF Mirror!WorkerDies, LabelsTyped
      <2>6. jobs' \in [JobIds -> JobRows]
            BY <2>3, <2>4, <2>5, NoJobTyped
      <2>7. adrift' \in SUBSET Threads
            BY <1>3 DEF Mirror!WorkerDies, LabelsTyped
      <2>.  QED BY <1>3, <2>1, <2>2, <2>6, <2>7, <2>8 DEF Mirror!WorkerDies, Mirror!treeVars, Mirror!mailVars, LabelsTyped
<1>4. CASE \E l \in Mirror!Labels : Mirror!LabelDeleted(l)
      <2>1. PICK l \in Mirror!Labels : Mirror!LabelDeleted(l)
            BY <1>4
      <2>2. name' \in [Mirror!Labels -> Paths \cup {None}] /\ carries' \in [Threads -> SUBSET Mirror!Labels]
            BY <2>1 DEF Mirror!LabelDeleted, LabelsTyped
      <2>3. adrift' \in SUBSET Threads /\ mishaps' \in 0 .. MaxMishaps
            BY <2>1 DEF Mirror!LabelDeleted, Mirror!Mishap, LabelsTyped, LabelSizes
      <2>.  QED BY <2>1, <2>2, <2>3 DEF Mirror!LabelDeleted, Mirror!treeVars, LabelsTyped
<1>.  QED BY <1>1, <1>2, <1>3, <1>4

-----------------------------------------------------------------------------
(* What the steps of a run do.  They leave jobs and what the writer knows of *)
(* a thread alone.                                                           *)

OnlyMaps ==
    /\ jobs' = jobs /\ latest' = latest /\ adding' = adding /\ carries' = carries
    /\ \A x \in Mirror!Workers :
          /\ run'[x].job = run[x].job /\ run'[x].then = run[x].then
          /\ run'[x].folder = run[x].folder /\ run'[x].desired = run[x].desired
          /\ run'[x].managed = run[x].managed
          /\ \/ run'[x].at = run[x].at
             \/ run[x].at \in Mapping \cup {"tree"} /\ run'[x].at \in Mapping

\* The run of another worker, which may have gone astray with this one.
SameRun(r, s) ==
    /\ s.at = r.at /\ s.paths = r.paths /\ s.links = r.links /\ s.todo = r.todo
    /\ s.seen = r.seen

LEMMA GoesDoes ==
    ASSUME LabelsTyped, NEW k \in Mirror!Workers, NEW r \in RunRows, run' = Mirror!Goes(k, r),
           r.job = run[k].job, r.then = run[k].then, r.folder = run[k].folder,
           r.desired = run[k].desired, r.managed = run[k].managed
    PROVE  /\ run'[k] = r
           /\ \A x \in Mirror!Workers \ {k} :
                 /\ SameRun(run[x], run'[x])
                 /\ run'[x].astray <=> run[x].astray \/ (r.astray /\ run[x].at \in Mapping)
           /\ \A x \in Mirror!Workers :
                 /\ run'[x].job = run[x].job /\ run'[x].then = run[x].then
                 /\ run'[x].folder = run[x].folder /\ run'[x].desired = run[x].desired
                 /\ run'[x].managed = run[x].managed
<1>1. run'[k] = r
      BY DEF Mirror!Goes
<1>2. \A x \in Mirror!Workers : run[x] \in RunRows
      BY DEF LabelsTyped
<1>3. ASSUME NEW x \in Mirror!Workers \ {k}
      PROVE  /\ SameRun(run[x], run'[x])
             /\ run'[x].astray <=> run[x].astray \/ (r.astray /\ run[x].at \in Mapping)
             /\ run'[x].job = run[x].job /\ run'[x].then = run[x].then
             /\ run'[x].folder = run[x].folder /\ run'[x].desired = run[x].desired
             /\ run'[x].managed = run[x].managed
      <2>1. run'[x] = [run[x] EXCEPT !.astray = run[x].astray \/ (r.astray /\ Mirror!Provisioning(x))]
            BY DEF Mirror!Goes
      <2>2. run[x] \in RunRows
            BY <1>2
      <2>3. Mirror!Provisioning(x) <=> run[x].at \in Mapping
            BY DEF Mirror!Provisioning, Mapping
      <2>.  QED BY <2>1, <2>2, <2>3 DEF RunRows, SameRun
<1>.  QED BY <1>1, <1>3

LEMMA PutDoes ==
    ASSUME LabelsTyped, NEW k \in Mirror!Workers, NEW r \in RunRows, run' = [run EXCEPT ![k] = r],
           r.job = run[k].job, r.then = run[k].then, r.folder = run[k].folder,
           r.desired = run[k].desired, r.managed = run[k].managed
    PROVE  /\ run'[k] = r
           /\ \A x \in Mirror!Workers \ {k} : run'[x] = run[x]
           /\ \A x \in Mirror!Workers :
                 /\ run'[x].job = run[x].job /\ run'[x].then = run[x].then
                 /\ run'[x].folder = run[x].folder /\ run'[x].desired = run[x].desired
                 /\ run'[x].managed = run[x].managed
<1>1. run'[k] = r /\ \A x \in Mirror!Workers \ {k} : run'[x] = run[x]
      BY DEF LabelsTyped
<1>.  QED BY <1>1

LEMMA ReadsTreeDoes ==
    ASSUME LabelsTyped, NEW k \in Mirror!Workers, Mirror!ReadsTree(k)
    PROVE  /\ OnlyMaps /\ adrift' = adrift
           /\ UNCHANGED <<path, name, made, link>>
           /\ run[k].at = "tree" /\ run'[k].at = "links" /\ run'[k].paths = path
           /\ run'[k].astray <=> \E x \in Mirror!Workers \ {k} :
                 run[x].at \in Mapping /\ (run[x].paths # path \/ run[x].astray)
           /\ \A x \in Mirror!Workers \ {k} :
                 /\ SameRun(run[x], run'[x])
                 /\ run'[x].astray <=> run[x].astray \/ (run'[k].astray /\ run[x].at \in Mapping)
<1>.  DEFINE r == [run[k] EXCEPT !.at = "links", !.paths = path, !.astray = Mirror!Clashes(k)]
<1>1. run[k] \in RunRows /\ run[k].at = "tree"
      BY DEF LabelsTyped, Mirror!ReadsTree
<1>2. Mirror!Clashes(k) \in BOOLEAN /\ path \in [Folders -> Paths]
      BY DEF Mirror!Clashes, LabelsTyped
<1>3. /\ r \in RunRows /\ r.at = "links" /\ r.paths = path /\ r.astray = Mirror!Clashes(k)
      /\ r.job = run[k].job /\ r.then = run[k].then /\ r.folder = run[k].folder
      /\ r.desired = run[k].desired /\ r.managed = run[k].managed
      BY <1>1, <1>2 DEF RunRows, Stages
<1>4. run' = Mirror!Goes(k, r)
      BY DEF Mirror!ReadsTree
<1>5. Mirror!Clashes(k) <=> \E x \in Mirror!Workers \ {k} :
         run[x].at \in Mapping /\ (run[x].paths # path \/ run[x].astray)
      BY DEF Mirror!Clashes, Mirror!Provisioning, Mapping
<1>.  HIDE DEF r
<1>6. /\ run'[k] = r
      /\ \A x \in Mirror!Workers \ {k} :
            /\ SameRun(run[x], run'[x])
            /\ run'[x].astray <=> run[x].astray \/ (r.astray /\ run[x].at \in Mapping)
      /\ \A x \in Mirror!Workers :
            /\ run'[x].job = run[x].job /\ run'[x].then = run[x].then
            /\ run'[x].folder = run[x].folder /\ run'[x].desired = run[x].desired
            /\ run'[x].managed = run[x].managed
      BY <1>3, <1>4, GoesDoes
<1>7. \A x \in Mirror!Workers : \/ run'[x].at = run[x].at
                                \/ run[x].at \in Mapping \cup {"tree"} /\ run'[x].at \in Mapping
      BY <1>1, <1>3, <1>6 DEF SameRun, Mapping
<1>8. /\ UNCHANGED <<path, name, made, link, adrift>>
      /\ jobs' = jobs /\ latest' = latest /\ adding' = adding /\ carries' = carries
      BY DEF Mirror!ReadsTree, Mirror!treeVars, Mirror!mailVars
<1>9. OnlyMaps
      BY <1>6, <1>7, <1>8 DEF OnlyMaps
<1>.  QED BY <1>1, <1>3, <1>5, <1>6, <1>8, <1>9

LEMMA ReadsLinksDoes ==
    ASSUME LabelsTyped, NEW k \in Mirror!Workers, Mirror!ReadsLinks(k)
    PROVE  /\ OnlyMaps /\ adrift' = adrift
           /\ UNCHANGED <<path, name, made, link>>
           /\ run[k].at = "links" /\ run'[k].at = "renames" /\ run'[k].paths = run[k].paths
           /\ run'[k].links = link /\ run'[k].todo = Mirror!Drifted(k)
           /\ run'[k].astray <=> run[k].astray \/ Mirror!LinksOff
           /\ \A x \in Mirror!Workers \ {k} :
                 /\ SameRun(run[x], run'[x])
                 /\ run'[x].astray <=> run[x].astray \/ (run'[k].astray /\ run[x].at \in Mapping)
<1>.  DEFINE r == [run[k] EXCEPT !.at = "renames", !.links = link, !.todo = Mirror!Drifted(k),
                                     !.astray = run[k].astray \/ Mirror!LinksOff]
<1>1. run[k] \in RunRows /\ run[k].at = "links"
      BY DEF LabelsTyped, Mirror!ReadsLinks
<1>2. /\ (run[k].astray \/ Mirror!LinksOff) \in BOOLEAN /\ link \in [Folders -> LinkRows]
      /\ Mirror!Drifted(k) \in SUBSET Folders
      BY <1>1 DEF Mirror!LinksOff, LabelsTyped, Mirror!Drifted, RunRows
<1>3. /\ r \in RunRows /\ r.at = "renames" /\ r.paths = run[k].paths /\ r.links = link
      /\ r.todo = Mirror!Drifted(k) /\ r.astray = (run[k].astray \/ Mirror!LinksOff)
      /\ r.job = run[k].job /\ r.then = run[k].then /\ r.folder = run[k].folder
      /\ r.desired = run[k].desired /\ r.managed = run[k].managed
      BY <1>1, <1>2 DEF RunRows, Stages
<1>4. run' = Mirror!Goes(k, r)
      BY DEF Mirror!ReadsLinks
<1>.  HIDE DEF r
<1>6. /\ run'[k] = r
      /\ \A x \in Mirror!Workers \ {k} :
            /\ SameRun(run[x], run'[x])
            /\ run'[x].astray <=> run[x].astray \/ (r.astray /\ run[x].at \in Mapping)
      /\ \A x \in Mirror!Workers :
            /\ run'[x].job = run[x].job /\ run'[x].then = run[x].then
            /\ run'[x].folder = run[x].folder /\ run'[x].desired = run[x].desired
            /\ run'[x].managed = run[x].managed
      BY <1>3, <1>4, GoesDoes
<1>7. \A x \in Mirror!Workers : \/ run'[x].at = run[x].at
                                \/ run[x].at \in Mapping \cup {"tree"} /\ run'[x].at \in Mapping
      BY <1>1, <1>3, <1>6 DEF SameRun, Mapping
<1>8. /\ UNCHANGED <<path, name, made, link, adrift>>
      /\ jobs' = jobs /\ latest' = latest /\ adding' = adding /\ carries' = carries
      BY DEF Mirror!ReadsLinks, Mirror!treeVars, Mirror!mailVars
<1>9. OnlyMaps
      BY <1>6, <1>7, <1>8 DEF OnlyMaps
<1>.  QED BY <1>1, <1>3, <1>6, <1>8, <1>9

LEMMA RenamesDoes ==
    ASSUME LabelsTyped, NEW k \in Mirror!Workers, NEW f \in Folders, Mirror!Renames(k, f),
           NEW l, l = run[k].links[f].label, NEW taken \in BOOLEAN,
           taken <=> \E x \in Mirror!Labels \ {l} : name[x] = run[k].paths[f]
    PROVE  /\ OnlyMaps /\ adrift' = adrift
           /\ UNCHANGED <<path, made, link>>
           /\ name' = IF name[l] # None /\ ~taken THEN [name EXCEPT ![l] = run[k].paths[f]] ELSE name
           /\ run[k].at = "renames" /\ run'[k].at = "renames" /\ f \in run[k].todo
           /\ run'[k].paths = run[k].paths
           /\ run'[k].links = run[k].links /\ run'[k].todo = run[k].todo \ {f}
           /\ run'[k].astray <=> run[k].astray \/ (name[l] # None /\ taken)
           /\ \A x \in Mirror!Workers \ {k} :
                 /\ SameRun(run[x], run'[x])
                 /\ run'[x].astray <=> run[x].astray \/ (run'[k].astray /\ run[x].at \in Mapping)
<1>.  DEFINE r == [run[k] EXCEPT !.todo = run[k].todo \ {f},
                                 !.astray = run[k].astray \/ (Mirror!Exists(l) /\ taken)]
<1>1. run[k] \in RunRows /\ run[k].at = "renames" /\ f \in run[k].todo
      BY DEF LabelsTyped, Mirror!Renames
<1>2. (run[k].astray \/ (Mirror!Exists(l) /\ taken)) \in BOOLEAN
      BY <1>1 DEF RunRows, Mirror!Exists
<1>3. /\ r \in RunRows /\ r.at = "renames" /\ r.paths = run[k].paths /\ r.links = run[k].links
      /\ r.todo = run[k].todo \ {f} /\ r.astray = (run[k].astray \/ (Mirror!Exists(l) /\ taken))
      /\ r.job = run[k].job /\ r.then = run[k].then /\ r.folder = run[k].folder
      /\ r.desired = run[k].desired /\ r.managed = run[k].managed
      BY <1>1, <1>2 DEF RunRows
<1>4. run' = Mirror!Goes(k, r)
      BY DEF Mirror!Renames
<1>5. name' = IF name[l] # None /\ ~taken THEN [name EXCEPT ![l] = run[k].paths[f]] ELSE name
      BY DEF Mirror!Renames, Mirror!Exists
<1>.  HIDE DEF r
<1>6. /\ run'[k] = r
      /\ \A x \in Mirror!Workers \ {k} :
            /\ SameRun(run[x], run'[x])
            /\ run'[x].astray <=> run[x].astray \/ (r.astray /\ run[x].at \in Mapping)
      /\ \A x \in Mirror!Workers :
            /\ run'[x].job = run[x].job /\ run'[x].then = run[x].then
            /\ run'[x].folder = run[x].folder /\ run'[x].desired = run[x].desired
            /\ run'[x].managed = run[x].managed
      BY <1>3, <1>4, GoesDoes
<1>7. \A x \in Mirror!Workers : run'[x].at = run[x].at
      BY <1>1, <1>3, <1>6 DEF SameRun
<1>8. /\ UNCHANGED <<path, made, link, adrift>>
      /\ jobs' = jobs /\ latest' = latest /\ adding' = adding /\ carries' = carries
      BY DEF Mirror!Renames, Mirror!treeVars, Mirror!mailVars
<1>9. OnlyMaps
      BY <1>6, <1>7, <1>8 DEF OnlyMaps
<1>.  QED BY <1>1, <1>3, <1>5, <1>6, <1>8, <1>9 DEF Mirror!Exists

LEMMA ListsDoes ==
    ASSUME LabelsTyped, NEW k \in Mirror!Workers, Mirror!Lists(k)
    PROVE  /\ OnlyMaps /\ adrift' = adrift
           /\ UNCHANGED <<path, name, made, link>>
           /\ run[k].at = "renames" /\ run[k].todo = {}
           /\ run'[k].at = "creates" /\ run'[k].paths = run[k].paths
           /\ run'[k].seen = [f \in Folders |-> Mirror!LabelNamed(run[k].paths[f])]
           /\ run'[k].todo = {f \in Folders : Mirror!LabelNamed(run[k].paths[f]) = None}
           /\ run'[k].astray = run[k].astray
           /\ \A x \in Mirror!Workers \ {k} : run'[x] = run[x]
<1>.  DEFINE seen == [f \in Folders |-> Mirror!LabelNamed(run[k].paths[f])]
             todo == {f \in Folders : Mirror!LabelNamed(run[k].paths[f]) = None}
             r == [run[k] EXCEPT !.at = "creates", !.seen = seen, !.links = <<>>, !.todo = todo]
<1>1. run[k] \in RunRows /\ run[k].at = "renames" /\ run[k].todo = {}
      BY DEF LabelsTyped, Mirror!Lists
<1>2. seen \in [Folders -> Mirror!Labels \cup {None}] /\ todo \in SUBSET Folders
      BY NamedTyped
<1>3. run' = [run EXCEPT ![k] = [run[k] EXCEPT !.at = "creates", !.seen = seen, !.links = <<>>,
                                               !.todo = {f \in Folders : seen[f] = None}]]
      BY DEF Mirror!Lists, LabelsTyped
<1>4. {f \in Folders : seen[f] = None} = todo
      OBVIOUS
<1>5. run' = [run EXCEPT ![k] = r]
      BY <1>3, <1>4
<1>.  HIDE DEF seen, todo
<1>6. /\ r \in RunRows /\ r.at = "creates" /\ r.paths = run[k].paths /\ r.seen = seen
      /\ r.todo = todo /\ r.astray = run[k].astray
      /\ r.job = run[k].job /\ r.then = run[k].then /\ r.folder = run[k].folder
      /\ r.desired = run[k].desired /\ r.managed = run[k].managed
      BY <1>1, <1>2 DEF RunRows, Stages
<1>.  HIDE DEF r
<1>7. /\ run'[k] = r /\ \A x \in Mirror!Workers \ {k} : run'[x] = run[x]
      /\ \A x \in Mirror!Workers :
            /\ run'[x].job = run[x].job /\ run'[x].then = run[x].then
            /\ run'[x].folder = run[x].folder /\ run'[x].desired = run[x].desired
            /\ run'[x].managed = run[x].managed
      BY <1>5, <1>6, PutDoes
<1>8. \A x \in Mirror!Workers : \/ run'[x].at = run[x].at
                                \/ run[x].at \in Mapping \cup {"tree"} /\ run'[x].at \in Mapping
      BY <1>1, <1>6, <1>7 DEF Mapping
<1>9. /\ UNCHANGED <<path, name, made, link, adrift>>
      /\ jobs' = jobs /\ latest' = latest /\ adding' = adding /\ carries' = carries
      BY DEF Mirror!Lists, Mirror!treeVars, Mirror!mailVars
<1>10. OnlyMaps
      BY <1>7, <1>8, <1>9 DEF OnlyMaps
<1>.  QED BY <1>1, <1>6, <1>7, <1>9, <1>10 DEF seen, todo

LEMMA CreatesAllDoes ==
    ASSUME LabelsTyped, NEW k \in Mirror!Workers, Mirror!CreatesAll(k)
    PROVE  /\ OnlyMaps /\ adrift' = adrift
           /\ UNCHANGED <<path, name, made, link>>
           /\ run[k].at = "creates" /\ run[k].todo = {}
           /\ run'[k].at = "records" /\ run'[k].paths = run[k].paths
           /\ run'[k].seen = run[k].seen /\ run'[k].todo = Folders
           /\ run'[k].astray = run[k].astray
           /\ \A x \in Mirror!Workers \ {k} : run'[x] = run[x]
<1>.  DEFINE r == [run[k] EXCEPT !.at = "records", !.todo = Folders]
<1>1. run[k] \in RunRows /\ run[k].at = "creates" /\ run[k].todo = {}
      BY DEF LabelsTyped, Mirror!CreatesAll
<1>2. run' = [run EXCEPT ![k] = r]
      BY DEF Mirror!CreatesAll, LabelsTyped
<1>3. /\ r \in RunRows /\ r.at = "records" /\ r.paths = run[k].paths /\ r.seen = run[k].seen
      /\ r.todo = Folders /\ r.astray = run[k].astray
      /\ r.job = run[k].job /\ r.then = run[k].then /\ r.folder = run[k].folder
      /\ r.desired = run[k].desired /\ r.managed = run[k].managed
      BY <1>1 DEF RunRows, Stages
<1>.  HIDE DEF r
<1>4. /\ run'[k] = r /\ \A x \in Mirror!Workers \ {k} : run'[x] = run[x]
      /\ \A x \in Mirror!Workers :
            /\ run'[x].job = run[x].job /\ run'[x].then = run[x].then
            /\ run'[x].folder = run[x].folder /\ run'[x].desired = run[x].desired
            /\ run'[x].managed = run[x].managed
      BY <1>2, <1>3, PutDoes
<1>5. \A x \in Mirror!Workers : \/ run'[x].at = run[x].at
                                \/ run[x].at \in Mapping \cup {"tree"} /\ run'[x].at \in Mapping
      BY <1>1, <1>3, <1>4 DEF Mapping
<1>6. /\ UNCHANGED <<path, name, made, link, adrift>>
      /\ jobs' = jobs /\ latest' = latest /\ adding' = adding /\ carries' = carries
      BY DEF Mirror!CreatesAll, Mirror!treeVars, Mirror!mailVars
<1>7. OnlyMaps
      BY <1>4, <1>5, <1>6 DEF OnlyMaps
<1>.  QED BY <1>1, <1>3, <1>4, <1>6, <1>7

\* The label it gets is a new one with the name, or the one that has the name.
LEMMA CreatesDoes ==
    ASSUME LabelSizes, LabelsTyped, NEW k \in Mirror!Workers, NEW f \in Folders, Mirror!Creates(k, f)
    PROVE  /\ OnlyMaps /\ adrift' = adrift
           /\ UNCHANGED <<path, link>>
           /\ run[k].at = "creates" /\ run'[k].at = "creates" /\ f \in run[k].todo
           /\ run'[k].paths = run[k].paths /\ run'[k].todo = run[k].todo \ {f}
           /\ run'[k].astray = run[k].astray
           /\ \A g \in Folders \ {f} : run'[k].seen[g] = run[k].seen[g]
           /\ run'[k].seen[f] \in Mirror!Labels
           /\ name'[run'[k].seen[f]] = run[k].paths[f]
           /\ \/ /\ made' = made + 1 /\ made + 1 \in Mirror!Labels
                 /\ run'[k].seen[f] = made + 1
                 /\ name' = [name EXCEPT ![made + 1] = run[k].paths[f]]
                 /\ \A l \in Mirror!Labels : name[l] # run[k].paths[f]
              \/ made' = made /\ name' = name
           /\ \A x \in Mirror!Workers \ {k} : run'[x] = run[x]
<1>.  DEFINE found == Mirror!LabelNamed(run[k].paths[f])
             got == IF found = None THEN made' ELSE found
             seen == [run[k].seen EXCEPT ![f] = got]
             r == [run[k] EXCEPT !.todo = run[k].todo \ {f}, !.seen = seen]
<1>1. run[k] \in RunRows /\ HasRead(run[k]) /\ run[k].at = "creates" /\ f \in run[k].todo
      BY DEF LabelsTyped, Mirror!Creates
<1>2. run[k].seen \in [Folders -> Mirror!Labels \cup {None}]
      BY <1>1 DEF HasRead
<1>3. \/ /\ found = None /\ made < MaxLabels /\ made' = made + 1
         /\ name' = [name EXCEPT ![made + 1] = run[k].paths[f]]
      \/ found # None /\ made' = made /\ name' = name
      BY DEF Mirror!Creates
<1>4. found = None => made + 1 \in Mirror!Labels
      BY <1>3 DEF LabelsTyped, LabelSizes, Mirror!Labels
<1>5. None \notin Mirror!Labels
      BY DEF LabelSizes, Mirror!Labels
<1>6. /\ found \in Mirror!Labels \cup {None}
      /\ found = None \/ name[found] = run[k].paths[f]
      /\ found = None <=> \A l \in Mirror!Labels : name[l] # run[k].paths[f]
      BY <1>5, NamedTyped
<1>7. run' = [run EXCEPT ![k] = r]
      BY DEF Mirror!Creates, LabelsTyped
<1>.  HIDE DEF found
<1>8. got \in Mirror!Labels
      BY <1>3, <1>4, <1>6
<1>9. /\ \/ /\ made' = made + 1 /\ made + 1 \in Mirror!Labels /\ got = made + 1
            /\ name' = [name EXCEPT ![made + 1] = run[k].paths[f]]
            /\ \A l \in Mirror!Labels : name[l] # run[k].paths[f]
         \/ made' = made /\ name' = name /\ got = found /\ name[got] = run[k].paths[f]
      BY <1>3, <1>4, <1>6
<1>10. name'[got] = run[k].paths[f]
      BY <1>8, <1>9 DEF LabelsTyped
<1>.  HIDE DEF got
<1>11. /\ seen \in [Folders -> Mirror!Labels \cup {None}] /\ seen[f] = got
       /\ \A g \in Folders \ {f} : seen[g] = run[k].seen[g]
      BY <1>2, <1>8
<1>.  HIDE DEF seen
<1>12. /\ r \in RunRows /\ r.at = "creates" /\ r.paths = run[k].paths /\ r.seen = seen
       /\ r.todo = run[k].todo \ {f} /\ r.astray = run[k].astray
       /\ r.job = run[k].job /\ r.then = run[k].then /\ r.folder = run[k].folder
       /\ r.desired = run[k].desired /\ r.managed = run[k].managed
      BY <1>1, <1>11 DEF RunRows
<1>.  HIDE DEF r
<1>13. /\ run'[k] = r /\ \A x \in Mirror!Workers \ {k} : run'[x] = run[x]
       /\ \A x \in Mirror!Workers :
             /\ run'[x].job = run[x].job /\ run'[x].then = run[x].then
             /\ run'[x].folder = run[x].folder /\ run'[x].desired = run[x].desired
             /\ run'[x].managed = run[x].managed
      BY <1>7, <1>12, PutDoes
<1>14. \A x \in Mirror!Workers : run'[x].at = run[x].at
      BY <1>1, <1>12, <1>13
<1>15. /\ UNCHANGED <<path, link, adrift>>
       /\ jobs' = jobs /\ latest' = latest /\ adding' = adding /\ carries' = carries
      BY DEF Mirror!Creates, Mirror!treeVars
<1>16. OnlyMaps
      BY <1>13, <1>14, <1>15 DEF OnlyMaps
<1>17. run'[k].seen[f] = got /\ \A g \in Folders \ {f} : run'[k].seen[g] = run[k].seen[g]
      BY <1>11, <1>12, <1>13
<1>.  QED BY <1>1, <1>8, <1>9, <1>10, <1>12, <1>13, <1>15, <1>16, <1>17

LEMMA RecordsDoes ==
    ASSUME LabelsTyped, NEW k \in Mirror!Workers, NEW f \in Folders, Mirror!Records(k, f)
    PROVE  /\ OnlyMaps
           /\ UNCHANGED <<path, name, made>>
           /\ link' = [link EXCEPT ![f] = [label |-> run[k].seen[f], path |-> run[k].paths[f]]]
           /\ link'[f].label = run[k].seen[f]
           /\ \A g \in Folders \ {f} : link'[g] = link[g]
           /\ run[k].at = "records" /\ run'[k].at = "records" /\ f \in run[k].todo
           /\ run'[k].paths = run[k].paths /\ run'[k].seen = run[k].seen
           /\ run'[k].todo = run[k].todo \ {f} /\ run'[k].astray = run[k].astray
           /\ adrift \subseteq adrift'
           /\ run[k].seen[f] # link[f].label =>
                 \A t \in Threads \ adrift' :
                    /\ latest[t] = f /\ link[f].label # None /\ name[link[f].label] # None =>
                          ~run[k].astray /\ name[run[k].seen[f]] # None
                    /\ latest[t] # f => run[k].seen[f] \notin carries[t]
           /\ \A x \in Mirror!Workers \ {k} : run'[x] = run[x]
<1>.  DEFINE r == [run[k] EXCEPT !.todo = run[k].todo \ {f}]
<1>1. run[k] \in RunRows /\ run[k].at = "records" /\ f \in run[k].todo
      BY DEF LabelsTyped, Mirror!Records
<1>2. run' = [run EXCEPT ![k] = r]
      BY DEF Mirror!Records, LabelsTyped
<1>3. /\ r \in RunRows /\ r.at = "records" /\ r.paths = run[k].paths /\ r.seen = run[k].seen
      /\ r.todo = run[k].todo \ {f} /\ r.astray = run[k].astray
      /\ r.job = run[k].job /\ r.then = run[k].then /\ r.folder = run[k].folder
      /\ r.desired = run[k].desired /\ r.managed = run[k].managed
      BY <1>1 DEF RunRows
<1>.  HIDE DEF r
<1>4. /\ run'[k] = r /\ \A x \in Mirror!Workers \ {k} : run'[x] = run[x]
      /\ \A x \in Mirror!Workers :
            /\ run'[x].job = run[x].job /\ run'[x].then = run[x].then
            /\ run'[x].folder = run[x].folder /\ run'[x].desired = run[x].desired
            /\ run'[x].managed = run[x].managed
      BY <1>2, <1>3, PutDoes
<1>5. \A x \in Mirror!Workers : run'[x].at = run[x].at
      BY <1>1, <1>3, <1>4
<1>6. /\ UNCHANGED <<path, name, made>>
      /\ jobs' = jobs /\ latest' = latest /\ adding' = adding /\ carries' = carries
      /\ link' = [link EXCEPT ![f] = [label |-> run[k].seen[f], path |-> run[k].paths[f]]]
      BY DEF Mirror!Records, Mirror!treeVars, Mirror!mailVars
<1>7. OnlyMaps
      BY <1>4, <1>5, <1>6 DEF OnlyMaps
<1>8. link'[f].label = run[k].seen[f] /\ \A g \in Folders \ {f} : link'[g] = link[g]
      BY <1>6 DEF LabelsTyped
<1>9. adrift' = IF run[k].seen[f] = link[f].label THEN adrift
                ELSE adrift \cup {t \in Threads :
                        \/ /\ latest[t] = f /\ link[f].label # None /\ name[link[f].label] # None
                           /\ run[k].astray \/ ~(name[run[k].seen[f]] # None)
                        \/ latest[t] # f /\ run[k].seen[f] \in carries[t]}
      BY DEF Mirror!Records, Mirror!Linked, Mirror!Exists
<1>10. adrift \subseteq adrift'
      BY <1>9
<1>11. ASSUME run[k].seen[f] # link[f].label, NEW t \in Threads \ adrift'
       PROVE  /\ latest[t] = f /\ link[f].label # None /\ name[link[f].label] # None =>
                    ~run[k].astray /\ name[run[k].seen[f]] # None
              /\ latest[t] # f => run[k].seen[f] \notin carries[t]
      BY <1>9, <1>11
<1>.  QED BY <1>1, <1>3, <1>4, <1>6, <1>7, <1>8, <1>10, <1>11

-----------------------------------------------------------------------------
(* A run keeps what is known of the jobs, and of the other's run.            *)

LEMMA MapsKeepWorkers ==
    ASSUME LabelsTyped, WorkersOK, OnlyMaps
    PROVE  WorkersOK'
<1>.  USE DEF OnlyMaps
<1>1. /\ "writer" \in Mirror!Workers /\ "provisioner" \in Mirror!Workers
      BY DEF Mirror!Workers
<1>2. \A k \in Mirror!Workers : /\ run'[k].at # "idle" <=> run[k].at # "idle"
                                /\ run'[k].job = run[k].job
      BY DEF Mapping
<1>3. \A k \in Mirror!Workers :
         run'[k].at # "idle" => run'[k].job \in Mirror!Jobs(k) /\ jobs'[run'[k].job].at = "active"
      BY <1>2 DEF WorkersOK
<1>4. \A j \in JobIds : jobs'[j].at = "active" =>
         \E k \in Mirror!Workers : run'[k].at # "idle" /\ run'[k].job = j
      BY <1>2 DEF WorkersOK
<1>5. run'["provisioner"].at \notin {"thread", "reread", "apply"}
      BY <1>1 DEF WorkersOK, Mapping
<1>6. run'["provisioner"].at # "idle" =>
         run'["provisioner"].then = IF run'["provisioner"].job = "relabel" THEN "sweep" ELSE "done"
      BY <1>1, <1>2 DEF WorkersOK
<1>7. BusyWriter' => \/ run'["writer"].then = "throw" /\ run'["writer"].at # "reread"
                     \/ run'["writer"].then = "reread" /\ run'["writer"].folder \in Folders
      BY <1>1 DEF WorkersOK, BusyWriter, Mapping
<1>8. \A j \in JobIds : jobs'[j].at # "none" => jobs'[j].left >= 1
      BY DEF WorkersOK
<1>.  QED BY <1>3, <1>4, <1>5, <1>6, <1>7, <1>8 DEF WorkersOK

\* While labels and links stay as they are, so does what is known of a run that does.
LEMMA OtherRun ==
    ASSUME NEW x \in Mirror!Workers, SameRun(run[x], run'[x]), run'[x].folder = run[x].folder,
           run[x].astray => run'[x].astray, UNCHANGED <<name, made, link>>,
           KeptBy(x), HasDone(x), RenamesRight(x), FindsRight(x)
    PROVE  KeptBy(x)' /\ HasDone(x)' /\ RenamesRight(x)' /\ FindsRight(x)'
<1>1. KeptBy(x)'
      BY DEF KeptBy, SameRun, Given
<1>2. HasDone(x)'
      BY DEF HasDone, SameRun
<1>3. RenamesRight(x)'
      BY DEF RenamesRight, SameRun, Live, Alive
<1>4. FindsRight(x)'
      BY DEF FindsRight, SameRun, Live, Alive
<1>.  QED BY <1>1, <1>2, <1>3, <1>4

LEMMA NamesStay ==
    ASSUME NamesOK, OnlyMaps, UNCHANGED <<name, made>>
    PROVE  NamesOK'
BY DEF NamesOK, OnlyMaps, Given

LEMMA ReadsTreeRuns ==
    ASSUME LabelsTyped, RunsOK, NEW k \in Mirror!Workers, Mirror!ReadsTree(k)
    PROVE  RunsOK'
<1>1. /\ OnlyMaps /\ UNCHANGED <<path, name, made, link>>
      /\ run[k].at = "tree" /\ run'[k].at = "links" /\ run'[k].paths = path
      /\ run'[k].astray <=> \E x \in Mirror!Workers \ {k} :
            run[x].at \in Mapping /\ (run[x].paths # path \/ run[x].astray)
      /\ \A x \in Mirror!Workers \ {k} :
            /\ SameRun(run[x], run'[x])
            /\ run'[x].astray <=> run[x].astray \/ (run'[k].astray /\ run[x].at \in Mapping)
      BY ReadsTreeDoes
<1>2. \A x \in Mirror!Workers : KeptBy(x) /\ HasDone(x) /\ RenamesRight(x) /\ FindsRight(x)
      BY DEF RunsOK, KeptOK
<1>3. \A x \in Mirror!Workers : KeptBy(x)' /\ HasDone(x)' /\ RenamesRight(x)' /\ FindsRight(x)'
      <2>.  TAKE x \in Mirror!Workers
      <2>1. CASE x = k
            BY <1>1, <2>1 DEF KeptBy, HasDone, RenamesRight, FindsRight
      <2>2. CASE x # k
            <3>1. run'[x].folder = run[x].folder
                  BY <1>1 DEF OnlyMaps
            <3>2. SameRun(run[x], run'[x]) /\ (run[x].astray => run'[x].astray)
                  BY <1>1, <2>2
            <3>.  QED BY <1>1, <1>2, <3>1, <3>2, OtherRun
      <2>.  QED BY <2>1, <2>2
<1>4. NamesOK'
      BY <1>1, NamesStay DEF RunsOK
<1>5. KeptOK'
      BY <1>1, <1>3 DEF RunsOK, KeptOK, Given
<1>6. PathsOK'
      BY <1>1 DEF RunsOK, PathsOK, Apart, SameRun
<1>7. Together'
      <2>1. \A x \in Mirror!Workers \ {k} : run'[x].at \in Mapping =>
               /\ run'[x].astray <=> run'[k].astray
               /\ ~run'[k].astray => run'[x].paths = run'[k].paths
            <3>.  TAKE x \in Mirror!Workers \ {k}
            <3>.  HAVE run'[x].at \in Mapping
            <3>1. run[x].at \in Mapping /\ run'[x].paths = run[x].paths
                  BY <1>1 DEF SameRun
            <3>.  QED BY <1>1, <3>1
      <2>2. \A x, y \in Mirror!Workers \ {k} : x = y
            BY DEF Mirror!Workers
      <2>.  QED BY <2>1, <2>2 DEF Together
<1>.  QED BY <1>3, <1>4, <1>5, <1>6, <1>7 DEF RunsOK

\* A run that goes on keeps to its tree, and takes along the other if it goes astray.
LEMMA TogetherStay ==
    ASSUME Together, NEW k \in Mirror!Workers,
           run[k].at \in Mapping, run'[k].paths = run[k].paths, run[k].astray => run'[k].astray,
           \A x \in Mirror!Workers \ {k} :
              /\ run'[x].at = run[x].at /\ run'[x].paths = run[x].paths
              /\ run'[x].astray <=> run[x].astray \/ (run'[k].astray /\ run[x].at \in Mapping)
    PROVE  Together'
<1>1. \A x \in Mirror!Workers \ {k} : run'[x].at \in Mapping =>
         /\ run'[x].astray <=> run'[k].astray
         /\ ~run'[k].astray => run'[x].paths = run'[k].paths
      <2>.  TAKE x \in Mirror!Workers \ {k}
      <2>.  HAVE run'[x].at \in Mapping
      <2>1. /\ run[k].astray <=> run[x].astray
            /\ ~run[k].astray => run[k].paths = run[x].paths
            BY DEF Together
      <2>.  QED BY <2>1
<1>2. \A x, y \in Mirror!Workers \ {k} : x = y
      BY DEF Mirror!Workers
<1>.  QED BY <1>1, <1>2 DEF Together

LEMMA PathsStay ==
    ASSUME PathsOK, UNCHANGED path,
           \A x \in Mirror!Workers : run'[x].at \in Mapping =>
              run[x].at \in Mapping /\ run'[x].paths = run[x].paths
    PROVE  PathsOK'
BY DEF PathsOK, Apart

LEMMA LiveMeans ==
    ASSUME LabelSizes, LabelsTyped, NEW f \in Folders
    PROVE  Live(link[f].label) <=> Mirror!Linked(f) /\ Mirror!Exists(link[f].label)
<1>1. link[f].label \in Mirror!Labels \cup {None} /\ None \notin Mirror!Labels
      BY DEF LabelsTyped, LinkRows, LabelSizes, Mirror!Labels
<1>.  QED BY <1>1 DEF Live, Alive, Mirror!Linked, Mirror!Exists

LEMMA ReadsLinksRuns ==
    ASSUME LabelSizes, LabelsTyped, RunsOK, NEW k \in Mirror!Workers, Mirror!ReadsLinks(k)
    PROVE  RunsOK'
<1>1. /\ OnlyMaps /\ UNCHANGED <<path, name, made, link>>
      /\ run[k].at = "links" /\ run'[k].at = "renames" /\ run'[k].paths = run[k].paths
      /\ run'[k].links = link /\ run'[k].todo = Mirror!Drifted(k)
      /\ run'[k].astray <=> run[k].astray \/ Mirror!LinksOff
      /\ \A x \in Mirror!Workers \ {k} :
            /\ SameRun(run[x], run'[x])
            /\ run'[x].astray <=> run[x].astray \/ (run'[k].astray /\ run[x].at \in Mapping)
      BY ReadsLinksDoes
<1>2. \A x \in Mirror!Workers : KeptBy(x) /\ HasDone(x) /\ RenamesRight(x) /\ FindsRight(x)
      BY DEF RunsOK, KeptOK
<1>3. KeptBy(k)' /\ HasDone(k)' /\ FindsRight(k)'
      <2>1. KeptBy(k)'
            BY <1>1 DEF RunsOK, KeptOK, KeptBy, Given
      <2>2. \A f \in Mirror!Drifted(k) : link[f].label # None
            BY DEF Mirror!Drifted, Mirror!Linked
      <2>.  QED BY <1>1, <2>1, <2>2 DEF HasDone, FindsRight
<1>4. RenamesRight(k)'
      <2>1. SUFFICES ASSUME ~run'[k].astray
            PROVE  /\ \A f \in Folders : Live(link[f].label) =>
                         name[link[f].label] = run[k].paths[f] \/ f \in Mirror!Drifted(k)
                   /\ \A f, g \in Folders : Live(link[f].label) /\ link[f].label = link[g].label => f = g
            BY <1>1 DEF RenamesRight, Live, Alive, Mirror!Drifted
      <2>2. ~Mirror!LinksOff
            BY <1>1, <2>1
      <2>3. ASSUME NEW f \in Folders, Live(link[f].label)
            PROVE  /\ Mirror!Linked(f) /\ name[link[f].label] = link[f].path
                   /\ \A g \in Folders : link[f].label = link[g].label => f = g
            BY <2>2, <2>3, LiveMeans DEF Mirror!LinksOff
      <2>4. \A f \in Folders : Mirror!Linked(f) =>
               link[f].path = run[k].paths[f] \/ f \in Mirror!Drifted(k)
            BY DEF Mirror!Drifted
      <2>.  QED BY <2>3, <2>4
<1>5. \A x \in Mirror!Workers \ {k} : KeptBy(x)' /\ HasDone(x)' /\ RenamesRight(x)' /\ FindsRight(x)'
      <2>.  TAKE x \in Mirror!Workers \ {k}
      <2>1. run'[x].folder = run[x].folder
            BY <1>1 DEF OnlyMaps
      <2>2. SameRun(run[x], run'[x]) /\ (run[x].astray => run'[x].astray)
            BY <1>1
      <2>.  QED BY <1>1, <1>2, <2>1, <2>2, OtherRun
<1>6. NamesOK'
      BY <1>1, NamesStay DEF RunsOK
<1>7. PathsOK'
      <2>1. \A x \in Mirror!Workers : run'[x].at \in Mapping =>
               run[x].at \in Mapping /\ run'[x].paths = run[x].paths
            BY <1>1 DEF SameRun, Mapping
      <2>.  QED BY <1>1, <2>1, PathsStay DEF RunsOK
<1>8. Together'
      <2>1. run[k].at \in Mapping /\ (run[k].astray => run'[k].astray)
            BY <1>1 DEF Mapping
      <2>2. \A x \in Mirror!Workers \ {k} :
               /\ run'[x].at = run[x].at /\ run'[x].paths = run[x].paths
               /\ run'[x].astray <=> run[x].astray \/ (run'[k].astray /\ run[x].at \in Mapping)
            BY <1>1 DEF SameRun
      <2>.  QED BY <1>1, <2>1, <2>2, TogetherStay DEF RunsOK
<1>9. (\A x \in Mirror!Workers : KeptBy(x)' /\ HasDone(x)' /\ RenamesRight(x)' /\ FindsRight(x)')
      BY <1>3, <1>4, <1>5
<1>10. KeptOK'
      BY <1>1, <1>9 DEF RunsOK, KeptOK, Given
<1>.  QED BY <1>6, <1>7, <1>8, <1>9, <1>10 DEF RunsOK

LEMMA ListsRuns ==
    ASSUME LabelSizes, LabelsTyped, RunsOK, NEW k \in Mirror!Workers, Mirror!Lists(k)
    PROVE  RunsOK'
<1>1. /\ OnlyMaps /\ UNCHANGED <<path, name, made, link>>
      /\ run[k].at = "renames" /\ run[k].todo = {}
      /\ run'[k].at = "creates" /\ run'[k].paths = run[k].paths
      /\ run'[k].seen = [f \in Folders |-> Mirror!LabelNamed(run[k].paths[f])]
      /\ run'[k].todo = {f \in Folders : Mirror!LabelNamed(run[k].paths[f]) = None}
      /\ run'[k].astray = run[k].astray
      /\ \A x \in Mirror!Workers \ {k} : run'[x] = run[x]
      BY ListsDoes
<1>2. \A x \in Mirror!Workers : KeptBy(x) /\ HasDone(x) /\ RenamesRight(x) /\ FindsRight(x)
      BY DEF RunsOK, KeptOK
<1>3. ASSUME NEW f \in Folders
      PROVE  /\ run'[k].seen[f] \in Given \cup {None}
             /\ Live(run'[k].seen[f]) => name[run'[k].seen[f]] = run[k].paths[f]
             /\ f \notin run'[k].todo => run'[k].seen[f] # None
      <2>1. run[k].paths[f] \in Paths
            BY <1>1 DEF LabelsTyped, HasRead, Mapping
      <2>2. run[k].paths[f] # None /\ None \notin Mirror!Labels
            BY <2>1 DEF LabelSizes, Mirror!Labels
      <2>3. run'[k].seen[f] = Mirror!LabelNamed(run[k].paths[f])
            BY <1>1
      <2>4. /\ run'[k].seen[f] \in Mirror!Labels \cup {None}
            /\ run'[k].seen[f] = None \/ name[run'[k].seen[f]] = run[k].paths[f]
            BY <2>3, NamedTyped
      <2>5. run'[k].seen[f] \in Given \cup {None}
            BY <2>2, <2>4 DEF RunsOK, NamesOK
      <2>.  QED BY <1>1, <2>2, <2>3, <2>4, <2>5 DEF Live, Alive
<1>4. KeptBy(k)' /\ HasDone(k)'
      BY <1>1, <1>3 DEF KeptBy, HasDone, Given
<1>5. FindsRight(k)'
      BY <1>1, <1>2, <1>3 DEF FindsRight, RenamesRight, Live, Alive
<1>6. RenamesRight(k)'
      BY <1>1 DEF RenamesRight
<1>7. \A x \in Mirror!Workers \ {k} : KeptBy(x)' /\ HasDone(x)' /\ RenamesRight(x)' /\ FindsRight(x)'
      <2>.  TAKE x \in Mirror!Workers \ {k}
      <2>1. SameRun(run[x], run'[x]) /\ run'[x].folder = run[x].folder /\ (run[x].astray => run'[x].astray)
            BY <1>1 DEF SameRun
      <2>.  QED BY <1>1, <1>2, <2>1, OtherRun
<1>8. NamesOK'
      BY <1>1, NamesStay DEF RunsOK
<1>9. PathsOK'
      <2>1. \A x \in Mirror!Workers : run'[x].at \in Mapping =>
               run[x].at \in Mapping /\ run'[x].paths = run[x].paths
            BY <1>1 DEF Mapping
      <2>.  QED BY <1>1, <2>1, PathsStay DEF RunsOK
<1>10. Together'
      BY <1>1 DEF RunsOK, Together, Mapping
<1>11. \A x \in Mirror!Workers : KeptBy(x)' /\ HasDone(x)' /\ RenamesRight(x)' /\ FindsRight(x)'
      BY <1>4, <1>5, <1>6, <1>7
<1>12. KeptOK'
      BY <1>1, <1>11 DEF RunsOK, KeptOK, Given
<1>.  QED BY <1>8, <1>9, <1>10, <1>11, <1>12 DEF RunsOK

LEMMA CreatesAllRuns ==
    ASSUME LabelSizes, LabelsTyped, RunsOK, NEW k \in Mirror!Workers, Mirror!CreatesAll(k)
    PROVE  RunsOK'
<1>1. /\ OnlyMaps /\ UNCHANGED <<path, name, made, link>>
      /\ run[k].at = "creates" /\ run[k].todo = {}
      /\ run'[k].at = "records" /\ run'[k].paths = run[k].paths
      /\ run'[k].seen = run[k].seen /\ run'[k].todo = Folders
      /\ run'[k].astray = run[k].astray
      /\ \A x \in Mirror!Workers \ {k} : run'[x] = run[x]
      BY CreatesAllDoes
<1>2. \A x \in Mirror!Workers : KeptBy(x) /\ HasDone(x) /\ RenamesRight(x) /\ FindsRight(x)
      BY DEF RunsOK, KeptOK
<1>3. KeptBy(k)' /\ HasDone(k)' /\ RenamesRight(k)' /\ FindsRight(k)'
      <2>1. KeptBy(k)'
            BY <1>1, <1>2 DEF KeptBy, Given
      <2>2. HasDone(k)'
            BY <1>1, <1>2 DEF HasDone
      <2>3. RenamesRight(k)'
            BY <1>1 DEF RenamesRight
      <2>4. FindsRight(k)'
            BY <1>1, <1>2 DEF FindsRight, Live, Alive
      <2>.  QED BY <2>1, <2>2, <2>3, <2>4
<1>4. \A x \in Mirror!Workers \ {k} : KeptBy(x)' /\ HasDone(x)' /\ RenamesRight(x)' /\ FindsRight(x)'
      <2>.  TAKE x \in Mirror!Workers \ {k}
      <2>1. SameRun(run[x], run'[x]) /\ run'[x].folder = run[x].folder /\ (run[x].astray => run'[x].astray)
            BY <1>1 DEF SameRun
      <2>.  QED BY <1>1, <1>2, <2>1, OtherRun
<1>5. NamesOK'
      BY <1>1, NamesStay DEF RunsOK
<1>6. PathsOK'
      <2>1. \A x \in Mirror!Workers : run'[x].at \in Mapping =>
               run[x].at \in Mapping /\ run'[x].paths = run[x].paths
            BY <1>1 DEF Mapping
      <2>.  QED BY <1>1, <2>1, PathsStay DEF RunsOK
<1>7. Together'
      BY <1>1 DEF RunsOK, Together, Mapping
<1>8. \A x \in Mirror!Workers : KeptBy(x)' /\ HasDone(x)' /\ RenamesRight(x)' /\ FindsRight(x)'
      BY <1>3, <1>4
<1>9. KeptOK'
      BY <1>1, <1>8 DEF RunsOK, KeptOK, Given
<1>.  QED BY <1>5, <1>6, <1>7, <1>8, <1>9 DEF RunsOK

\* A label that got its folder's path for a name is right for every run that is not astray.
LEMMA RenamedRight ==
    ASSUME LabelsTyped, NEW x \in Mirror!Workers, RenamesRight(x), ~run[x].astray,
           NEW f \in Folders, NEW l \in Mirror!Labels, name[l] # None,
           NEW p, Apart(p), name' = [name EXCEPT ![l] = p[f]], p[f] # None,
           UNCHANGED link,
           link[f].label = l \/ name[l] = p[f],
           \A g \in Folders \ {f} : link[g].label # l,
           run[x].at = "renames", run[x].paths = p,
           run'[x].at = "renames", run'[x].paths = p, run'[x].links = run[x].links,
           run'[x].todo \subseteq run[x].todo, run[x].todo \subseteq Folders,
           run[x].todo \ {f} \subseteq run'[x].todo,
           f \in run'[x].todo \/ run[x].links[f].label = l
    PROVE  RenamesRight(x)'
<1>1. name \in [Mirror!Labels -> Paths \cup {None}]
      BY DEF LabelsTyped
<1>2. \A m \in Mirror!Labels : name'[m] = IF m = l THEN p[f] ELSE name[m]
      BY <1>1
<1>3. \A m : Live(m)' <=> Live(m)
      BY <1>2 DEF Live, Alive
<1>4. ASSUME NEW g \in Folders, Live(link[g].label)
      PROVE  \/ name'[link[g].label] = p[g]
             \/ g \in run'[x].todo /\ link[g].label = run[x].links[g].label
      <2>1. \/ name[link[g].label] = p[g]
            \/ g \in run[x].todo /\ link[g].label = run[x].links[g].label
            BY <1>4 DEF RenamesRight
      <2>2. link[g].label \in Mirror!Labels
            BY <1>4 DEF Live, Alive
      <2>3. CASE link[g].label = l
            BY <1>2, <2>2, <2>3
      <2>4. CASE link[g].label # l
            BY <1>2, <2>1, <2>2, <2>4
      <2>.  QED BY <2>3, <2>4
<1>5. \A g, h \in Folders : Live(link[g].label) /\ link[g].label = link[h].label => g = h
      BY DEF RenamesRight
<1>6. ASSUME NEW g \in run'[x].todo, Live(run[x].links[g].label)
      PROVE  /\ \/ link[g].label = run[x].links[g].label
                \/ name'[run[x].links[g].label] = p[g]
             /\ \A h \in Folders \ {g} : link[h].label # run[x].links[g].label
      <2>.  DEFINE m == run[x].links[g].label
      <2>1. /\ link[g].label = m \/ name[m] = p[g]
            /\ \A h \in Folders \ {g} : link[h].label # m
            BY <1>6 DEF RenamesRight
      <2>2. g \in Folders /\ m \in Mirror!Labels
            BY <1>6 DEF Live, Alive
      <2>3. CASE m # l
            BY <1>2, <2>1, <2>2, <2>3
      <2>4. CASE m = l /\ g = f
            BY <1>2, <2>1, <2>2, <2>4
      <2>5. CASE m = l /\ g # f
            <3>1. name[l] = p[g] /\ name[l] = p[f]
                  BY <2>1, <2>2, <2>5
            <3>.  QED BY <2>2, <2>5, <3>1 DEF Apart
      <2>.  QED BY <2>3, <2>4, <2>5
<1>.  QED BY <1>3, <1>4, <1>5, <1>6 DEF RenamesRight

LEMMA RenamedFinds ==
    ASSUME LabelsTyped, NEW x \in Mirror!Workers, FindsRight(x), ~run[x].astray,
           NEW f \in Folders, NEW l \in Mirror!Labels, name[l] # None,
           NEW p, Apart(p), name' = [name EXCEPT ![l] = p[f]], p[f] # None,
           UNCHANGED link,
           link[f].label = l \/ name[l] = p[f],
           \A g \in Folders \ {f} : link[g].label # l,
           run[x].at \in {"creates", "records"}, run[x].paths = p,
           SameRun(run[x], run'[x])
    PROVE  FindsRight(x)'
<1>1. name \in [Mirror!Labels -> Paths \cup {None}]
      BY DEF LabelsTyped
<1>2. \A m \in Mirror!Labels : name'[m] = IF m = l THEN p[f] ELSE name[m]
      BY <1>1
<1>3. \A m : Live(m)' <=> Live(m)
      BY <1>2 DEF Live, Alive
<1>4. \A g \in Folders : /\ Live(link[g].label) => name[link[g].label] = p[g]
                         /\ Live(run[x].seen[g]) => name[run[x].seen[g]] = p[g]
      BY DEF FindsRight
<1>5. Live(l)
      BY DEF Live, Alive
<1>6. name[l] = p[f]
      BY <1>4, <1>5
<1>7. \A m \in Mirror!Labels : name'[m] = name[m]
      BY <1>2, <1>6
<1>.  QED BY <1>3, <1>4, <1>7 DEF FindsRight, SameRun, Live, Alive

LEMMA RenamesRuns ==
    ASSUME LabelSizes, LabelsTyped, RunsOK, NEW k \in Mirror!Workers, NEW f \in Folders,
           Mirror!Renames(k, f)
    PROVE  RunsOK'
<1>.  DEFINE p == run[k].paths
<1>1. PICK l : l = run[k].links[f].label
      OBVIOUS
<1>2. PICK taken \in BOOLEAN : taken <=> \E x \in Mirror!Labels \ {l} : name[x] = run[k].paths[f]
      <2>1. (\E x \in Mirror!Labels \ {l} : name[x] = run[k].paths[f]) \in BOOLEAN
            OBVIOUS
      <2>.  QED BY <2>1
<1>3. /\ OnlyMaps /\ UNCHANGED <<path, made, link>>
      /\ name' = IF name[l] # None /\ ~taken THEN [name EXCEPT ![l] = run[k].paths[f]] ELSE name
      /\ run[k].at = "renames" /\ run'[k].at = "renames" /\ f \in run[k].todo
      /\ run'[k].paths = run[k].paths
      /\ run'[k].links = run[k].links /\ run'[k].todo = run[k].todo \ {f}
      /\ run'[k].astray <=> run[k].astray \/ (name[l] # None /\ taken)
      /\ \A x \in Mirror!Workers \ {k} :
            /\ SameRun(run[x], run'[x])
            /\ run'[x].astray <=> run[x].astray \/ (run'[k].astray /\ run[x].at \in Mapping)
      BY <1>1, <1>2, RenamesDoes
<1>4. \A x \in Mirror!Workers : KeptBy(x) /\ HasDone(x) /\ RenamesRight(x) /\ FindsRight(x)
      BY DEF RunsOK, KeptOK
<1>5. l \in Given /\ l \in Mirror!Labels
      <2>1. l \in Given
            BY <1>1, <1>3, <1>4 DEF KeptBy, HasDone
      <2>.  QED BY <2>1 DEF LabelsTyped, LabelSizes, Given, Mirror!Labels
<1>6. Apart(p) /\ p[f] \in Paths /\ p[f] # None
      BY <1>3 DEF RunsOK, PathsOK, Mapping, LabelsTyped, HasRead, LabelSizes
<1>7. run[k].todo \subseteq Folders
      BY DEF LabelsTyped, RunRows
<1>8. Together'
      <2>1. run[k].at \in Mapping /\ (run[k].astray => run'[k].astray)
            BY <1>3 DEF Mapping
      <2>2. \A x \in Mirror!Workers \ {k} :
               /\ run'[x].at = run[x].at /\ run'[x].paths = run[x].paths
               /\ run'[x].astray <=> run[x].astray \/ (run'[k].astray /\ run[x].at \in Mapping)
            BY <1>3 DEF SameRun
      <2>.  QED BY <1>3, <2>1, <2>2, TogetherStay DEF RunsOK
<1>9. PathsOK'
      <2>1. \A x \in Mirror!Workers : run'[x].at \in Mapping =>
               run[x].at \in Mapping /\ run'[x].paths = run[x].paths
            BY <1>3 DEF SameRun, Mapping
      <2>.  QED BY <1>3, <2>1, PathsStay DEF RunsOK
<1>10. \A m \in Mirror!Labels : /\ name'[m] # None <=> name[m] # None
                                /\ m # l => name'[m] = name[m]
      BY <1>3, <1>5, <1>6 DEF LabelsTyped
<1>11. NamesOK'
      <2>1. \A m, n \in Mirror!Labels : name'[m] # None /\ name'[m] = name'[n] => m = n
            <3>1. CASE name[l] # None /\ ~taken
                  <4>1. \A m \in Mirror!Labels : name'[m] = IF m = l THEN p[f] ELSE name[m]
                        BY <1>3, <3>1 DEF LabelsTyped
                  <4>2. \A m \in Mirror!Labels \ {l} : name[m] # p[f]
                        BY <1>2, <3>1
                  <4>3. \A m, n \in Mirror!Labels : name[m] # None /\ name[m] = name[n] => m = n
                        BY DEF RunsOK, NamesOK
                  <4>.  QED BY <4>1, <4>2, <4>3
            <3>2. CASE ~(name[l] # None /\ ~taken)
                  BY <1>3, <3>2 DEF RunsOK, NamesOK
            <3>.  QED BY <3>1, <3>2
      <2>2. \A m \in Mirror!Labels : name'[m] # None => m \in Given
            BY <1>10 DEF RunsOK, NamesOK
      <2>3. \A t \in Threads : \A m \in carries[t] : name'[m] # None
            BY <1>10 DEF RunsOK, NamesOK, LabelsTyped
      <2>.  QED BY <1>3, <2>1, <2>2, <2>3 DEF RunsOK, NamesOK, OnlyMaps, Given
<1>12. \A x \in Mirror!Workers : KeptBy(x)' /\ HasDone(x)'
      <2>.  TAKE x \in Mirror!Workers
      <2>1. CASE x = k
            BY <1>3, <1>4, <2>1 DEF KeptBy, HasDone, Given
      <2>2. CASE x # k
            <3>1. SameRun(run[x], run'[x]) /\ run'[x].folder = run[x].folder
                  BY <1>3, <2>2 DEF OnlyMaps
            <3>.  QED BY <1>3, <1>4, <3>1 DEF KeptBy, HasDone, SameRun, Given
      <2>.  QED BY <2>1, <2>2
<1>13. \A x \in Mirror!Workers : RenamesRight(x)' /\ FindsRight(x)'
      <2>1. CASE run'[k].astray
            <3>1. \A x \in Mirror!Workers : run'[x].at \in Mapping => run'[x].astray
                  BY <1>3, <1>8, <2>1 DEF Together, Mapping
            <3>.  QED BY <3>1 DEF RenamesRight, FindsRight, Mapping
      <2>2. CASE ~run'[k].astray /\ name[l] = None
            <3>1. name' = name /\ ~Live(l)
                  BY <1>3, <2>2 DEF Live, Alive
            <3>2. RenamesRight(k)'
                  BY <1>1, <1>3, <1>4, <2>2, <3>1 DEF RenamesRight, Live, Alive
            <3>3. FindsRight(k)'
                  BY <1>3 DEF FindsRight
            <3>4. \A x \in Mirror!Workers \ {k} : RenamesRight(x)' /\ FindsRight(x)'
                  <4>.  TAKE x \in Mirror!Workers \ {k}
                  <4>1. SameRun(run[x], run'[x]) /\ run'[x].folder = run[x].folder /\ (run[x].astray => run'[x].astray)
                        BY <1>3 DEF OnlyMaps
                  <4>.  QED BY <1>3, <1>4, <3>1, <4>1, OtherRun
            <3>.  QED BY <3>2, <3>3, <3>4
      <2>3. CASE ~run'[k].astray /\ name[l] # None
            <3>1. name' = [name EXCEPT ![l] = p[f]] /\ ~run[k].astray
                  BY <1>3, <2>3
            <3>2. /\ link[f].label = l \/ name[l] = p[f]
                  /\ \A g \in Folders \ {f} : link[g].label # l
                  <4>1. Live(l)
                        BY <1>5, <2>3 DEF Live, Alive
                  <4>.  QED BY <1>1, <1>3, <1>4, <3>1, <4>1 DEF RenamesRight
            <3>3. RenamesRight(k)'
                  <4>1. /\ run'[k].todo \subseteq run[k].todo /\ run[k].todo \ {f} \subseteq run'[k].todo
                        /\ f \in run'[k].todo \/ run[k].links[f].label = l
                        BY <1>1, <1>3
                  <4>.  HIDE DEF p
                  <4>2. run[k].paths = p /\ run'[k].paths = p
                        BY <1>3 DEF p
                  <4>3. UNCHANGED link /\ RenamesRight(k)
                        BY <1>3, <1>4
                  <4>.  QED BY <1>3, <1>5, <1>6, <1>7, <2>3, <3>1, <3>2, <4>1, <4>2, <4>3, RenamedRight
            <3>4. FindsRight(k)'
                  BY <1>3 DEF FindsRight
            <3>5. \A x \in Mirror!Workers \ {k} : RenamesRight(x)' /\ FindsRight(x)'
                  <4>.  TAKE x \in Mirror!Workers \ {k}
                  <4>1. SameRun(run[x], run'[x])
                        BY <1>3
                  <4>2. run[x].at \in Mapping => ~run[x].astray /\ run[x].paths = p
                        BY <1>3, <3>1 DEF RunsOK, Together, Mapping
                  <4>3. UNCHANGED link /\ RenamesRight(x) /\ FindsRight(x)
                        BY <1>3, <1>4
                  <4>.  HIDE DEF p
                  <4>4. CASE run[x].at = "renames"
                        <5>1. /\ run'[x].at = "renames" /\ run'[x].paths = p /\ run[x].paths = p
                              /\ run'[x].links = run[x].links /\ run'[x].todo = run[x].todo
                              /\ ~run[x].astray
                              BY <4>1, <4>2, <4>4 DEF SameRun, Mapping
                        <5>2. run[x].todo \subseteq Folders
                              BY DEF LabelsTyped, RunRows
                        <5>3. CASE f \in run[x].todo
                              <6>1. /\ run'[x].todo \subseteq run[x].todo /\ run[x].todo \ {f} \subseteq run'[x].todo
                                    /\ f \in run'[x].todo \/ run[x].links[f].label = l
                                    BY <5>1, <5>3
                              <6>2. RenamesRight(x)'
                                    BY <1>5, <1>6, <2>3, <3>1, <3>2, <4>3, <4>4, <5>1, <5>2, <6>1, RenamedRight
                              <6>.  QED BY <5>1, <6>2 DEF FindsRight
                        <5>4. CASE f \notin run[x].todo
                              <6>1. Live(link[f].label) => name[link[f].label] = p[f]
                                    BY <4>3, <4>4, <5>1, <5>4 DEF RenamesRight
                              <6>2. name[l] = p[f]
                                    BY <1>5, <2>3, <3>2, <6>1 DEF Live, Alive
                              <6>3. name' = name
                                    BY <1>5, <3>1, <6>2 DEF LabelsTyped
                              <6>4. run'[x].folder = run[x].folder /\ (run[x].astray => run'[x].astray)
                                    BY <1>3, <5>1 DEF OnlyMaps
                              <6>.  QED BY <1>3, <1>4, <4>1, <6>3, <6>4, OtherRun
                        <5>.  QED BY <5>3, <5>4
                  <4>5. CASE run[x].at \in {"creates", "records"}
                        <5>1. ~run[x].astray /\ run[x].paths = p
                              BY <4>2, <4>5 DEF Mapping
                        <5>2. FindsRight(x)'
                              BY <1>5, <1>6, <2>3, <3>1, <3>2, <4>1, <4>3, <4>5, <5>1, RenamedFinds
                        <5>.  QED BY <4>1, <4>5, <5>2 DEF RenamesRight, SameRun
                  <4>6. CASE run[x].at \notin {"renames", "creates", "records"}
                        BY <4>1, <4>6 DEF RenamesRight, FindsRight, SameRun
                  <4>.  QED BY <4>4, <4>5, <4>6
            <3>.  QED BY <3>3, <3>4, <3>5
      <2>.  QED BY <2>1, <2>2, <2>3
<1>14. KeptOK'
      BY <1>3, <1>12 DEF RunsOK, KeptOK, Given
<1>.  QED BY <1>8, <1>9, <1>11, <1>12, <1>13, <1>14 DEF RunsOK

\* Labels that are made, or deleted, change nothing for a run that knows others.
LEMMA OtherLabels ==
    ASSUME LabelSizes, LabelsTyped, KeptOK, NEW x \in Mirror!Workers,
           SameRun(run[x], run'[x]), run'[x].folder = run[x].folder,
           run[x].astray = run'[x].astray, UNCHANGED link,
           made' \in 0 .. MaxLabels, made <= made',
           \A l \in Given : name'[l] = name[l] \/ name'[l] = None,
           HasDone(x), RenamesRight(x), FindsRight(x)
    PROVE  KeptBy(x)' /\ HasDone(x)' /\ RenamesRight(x)' /\ FindsRight(x)'
<1>1. /\ Given \subseteq Given' /\ Given \subseteq Mirror!Labels /\ Given' \subseteq Mirror!Labels
      BY DEF Given, LabelsTyped, LabelSizes, Mirror!Labels
<1>2. \A f \in Folders : link[f].label \in Given \cup {None}
      BY DEF KeptOK
<1>3. ASSUME NEW m \in Given \cup {None}, Alive(name', m)
      PROVE  m \in Given /\ Live(m) /\ name'[m] = name[m]
      <2>1. m \in Given
            BY <1>3 DEF Live, Alive, LabelSizes, Mirror!Labels
      <2>.  QED BY <1>1, <1>3, <2>1 DEF Live, Alive
<1>4. KeptBy(x)'
      BY <1>1 DEF KeptOK, KeptBy, SameRun
<1>5. HasDone(x)'
      BY DEF HasDone, SameRun
<1>6. RenamesRight(x)'
      <2>1. SUFFICES ASSUME run[x].at = "renames", ~run[x].astray
            PROVE  /\ \A f \in Folders : Alive(name', link[f].label) =>
                         \/ name'[link[f].label] = run[x].paths[f]
                         \/ f \in run[x].todo /\ link[f].label = run[x].links[f].label
                   /\ \A f, g \in Folders : Alive(name', link[f].label) /\ link[f].label = link[g].label => f = g
                   /\ \A f \in run[x].todo : Alive(name', run[x].links[f].label) =>
                         /\ \/ link[f].label = run[x].links[f].label
                            \/ name'[run[x].links[f].label] = run[x].paths[f]
                         /\ \A g \in Folders \ {f} : link[g].label # run[x].links[f].label
            BY DEF RenamesRight, SameRun, Live, Alive
      <2>2. \A f \in Folders : Alive(name', link[f].label) =>
               Live(link[f].label) /\ name'[link[f].label] = name[link[f].label]
            BY <1>2, <1>3 DEF Live, Alive
      <2>3. run[x].todo \subseteq Folders
            BY DEF LabelsTyped, RunRows
      <2>4. \A f \in Folders : run[x].links[f].label \in Given \cup {None}
            BY <2>1 DEF KeptOK, KeptBy
      <2>5. \A f \in run[x].todo : Alive(name', run[x].links[f].label) =>
               Live(run[x].links[f].label) /\ name'[run[x].links[f].label] = name[run[x].links[f].label]
            BY <1>3, <2>3, <2>4 DEF Live, Alive
      <2>.  QED BY <2>1, <2>2, <2>5 DEF RenamesRight
<1>7. FindsRight(x)'
      <2>1. SUFFICES ASSUME run[x].at \in {"creates", "records"}, ~run[x].astray, NEW f \in Folders
            PROVE  /\ Alive(name', link[f].label) => name'[link[f].label] = run[x].paths[f]
                   /\ Alive(name', run[x].seen[f]) => name'[run[x].seen[f]] = run[x].paths[f]
            BY DEF FindsRight, SameRun, Live, Alive
      <2>2. run[x].seen[f] \in Given \cup {None} /\ link[f].label \in Given \cup {None}
            BY <1>2, <2>1 DEF KeptOK, KeptBy
      <2>.  QED BY <1>3, <2>1, <2>2 DEF FindsRight, Live, Alive
<1>.  QED BY <1>4, <1>5, <1>6, <1>7

LEMMA CreatesRuns ==
    ASSUME LabelSizes, LabelsTyped, RunsOK, NEW k \in Mirror!Workers, NEW f \in Folders,
           Mirror!Creates(k, f)
    PROVE  RunsOK'
<1>1. /\ OnlyMaps /\ UNCHANGED <<path, link>>
      /\ run[k].at = "creates" /\ run'[k].at = "creates" /\ f \in run[k].todo
      /\ run'[k].paths = run[k].paths /\ run'[k].todo = run[k].todo \ {f}
      /\ run'[k].astray = run[k].astray
      /\ \A g \in Folders \ {f} : run'[k].seen[g] = run[k].seen[g]
      /\ run'[k].seen[f] \in Mirror!Labels
      /\ name'[run'[k].seen[f]] = run[k].paths[f]
      /\ \/ /\ made' = made + 1 /\ made + 1 \in Mirror!Labels
            /\ run'[k].seen[f] = made + 1
            /\ name' = [name EXCEPT ![made + 1] = run[k].paths[f]]
            /\ \A l \in Mirror!Labels : name[l] # run[k].paths[f]
         \/ made' = made /\ name' = name
      /\ \A x \in Mirror!Workers \ {k} : run'[x] = run[x]
      BY CreatesDoes
<1>2. \A x \in Mirror!Workers : KeptBy(x) /\ HasDone(x) /\ RenamesRight(x) /\ FindsRight(x)
      BY DEF RunsOK, KeptOK
<1>3. run[k].paths[f] \in Paths /\ run[k].paths[f] # None
      BY <1>1 DEF LabelsTyped, HasRead, Mapping, LabelSizes
<1>4. made' \in 0 .. MaxLabels /\ made <= made' /\ made \in Nat
      BY <1>1 DEF LabelsTyped, LabelSizes, Mirror!Labels
<1>5. \A l \in Given : name'[l] = name[l]
      <2>1. \A l \in Given : l # made + 1 /\ l \in Mirror!Labels
            BY <1>4 DEF Given, LabelsTyped, LabelSizes, Mirror!Labels
      <2>.  QED BY <1>1, <2>1 DEF LabelsTyped
<1>6. Given \subseteq Given'
      BY <1>4 DEF Given
<1>7. \A m \in Mirror!Labels : name'[m] # None => m \in Given'
      <2>1. \A m \in Mirror!Labels : name[m] # None => m \in Given
            BY DEF RunsOK, NamesOK
      <2>2. made' = made + 1 => made + 1 \in Given'
            BY <1>4 DEF Given
      <2>.  QED BY <1>1, <1>6, <2>1, <2>2 DEF LabelsTyped
<1>8. run'[k].seen[f] \in Given' /\ run'[k].seen[f] # None
      BY <1>1, <1>3, <1>7 DEF LabelSizes, Mirror!Labels
<1>9. NamesOK'
      <2>1. \A m, n \in Mirror!Labels : name[m] # None /\ name[m] = name[n] => m = n
            BY DEF RunsOK, NamesOK
      <2>2. \A m, n \in Mirror!Labels : name'[m] # None /\ name'[m] = name'[n] => m = n
            BY <1>1, <2>1 DEF LabelsTyped
      <2>3. \A t \in Threads : \A m \in carries[t] : m \in Given /\ name[m] # None
            BY DEF RunsOK, NamesOK, LabelsTyped
      <2>4. \A t \in Threads : \A m \in carries[t] : name'[m] # None
            BY <1>5, <2>3
      <2>5. \A x \in Mirror!Workers : run[x].desired \subseteq Given'
            BY <1>6 DEF RunsOK, NamesOK
      <2>.  QED BY <1>1, <1>7, <2>2, <2>4, <2>5 DEF NamesOK, OnlyMaps
<1>10. KeptBy(k)' /\ HasDone(k)'
      BY <1>1, <1>2, <1>6, <1>8 DEF KeptBy, HasDone
<1>11. FindsRight(k)' /\ RenamesRight(k)'
      <2>1. RenamesRight(k)'
            BY <1>1 DEF RenamesRight
      <2>2. SUFFICES ASSUME ~run[k].astray, NEW g \in Folders
            PROVE  /\ Alive(name', link[g].label) => name'[link[g].label] = run[k].paths[g]
                   /\ Alive(name', run'[k].seen[g]) => name'[run'[k].seen[g]] = run[k].paths[g]
            BY <1>1, <2>1 DEF FindsRight, Live, Alive
      <2>3. link[g].label \in Given \cup {None} /\ run[k].seen[g] \in Given \cup {None}
            BY <1>1, <1>2 DEF RunsOK, KeptOK, KeptBy
      <2>4. \A m \in Given \cup {None} : Alive(name', m) => Live(m) /\ name'[m] = name[m]
            BY <1>5 DEF Live, Alive, LabelSizes, Mirror!Labels
      <2>5. /\ Live(link[g].label) => name[link[g].label] = run[k].paths[g]
            /\ Live(run[k].seen[g]) => name[run[k].seen[g]] = run[k].paths[g]
            BY <1>1, <1>2, <2>2 DEF FindsRight
      <2>6. Alive(name', link[g].label) => name'[link[g].label] = run[k].paths[g]
            BY <2>3, <2>4, <2>5 DEF Live, Alive
      <2>7. CASE g = f
            BY <1>1, <2>6, <2>7
      <2>8. CASE g # f
            BY <1>1, <2>3, <2>4, <2>5, <2>6, <2>8 DEF Live, Alive
      <2>.  QED BY <2>7, <2>8
<1>12. \A x \in Mirror!Workers \ {k} : KeptBy(x)' /\ HasDone(x)' /\ RenamesRight(x)' /\ FindsRight(x)'
      <2>.  TAKE x \in Mirror!Workers \ {k}
      <2>1. SameRun(run[x], run'[x]) /\ run'[x].folder = run[x].folder /\ run[x].astray = run'[x].astray
            BY <1>1 DEF SameRun
      <2>2. KeptOK
            BY DEF RunsOK
      <2>3. \A l \in Given : name'[l] = name[l] \/ name'[l] = None
            BY <1>5
      <2>4. UNCHANGED link
            BY <1>1
      <2>.  QED BY <1>2, <1>4, <2>1, <2>2, <2>3, <2>4, OtherLabels
<1>13. PathsOK'
      <2>1. \A x \in Mirror!Workers : run'[x].at \in Mapping =>
               run[x].at \in Mapping /\ run'[x].paths = run[x].paths
            BY <1>1
      <2>.  QED BY <1>1, <2>1, PathsStay DEF RunsOK
<1>14. Together'
      BY <1>1 DEF RunsOK, Together
<1>15. \A x \in Mirror!Workers : KeptBy(x)' /\ HasDone(x)' /\ RenamesRight(x)' /\ FindsRight(x)'
      BY <1>10, <1>11, <1>12
<1>16. KeptOK'
      BY <1>1, <1>6, <1>15 DEF RunsOK, KeptOK
<1>.  QED BY <1>9, <1>13, <1>14, <1>15, <1>16 DEF RunsOK

LEMMA RecordsRuns ==
    ASSUME LabelSizes, LabelsTyped, WorkersOK, RunsOK, NEW k \in Mirror!Workers, NEW f \in Folders,
           Mirror!Records(k, f)
    PROVE  RunsOK'
<1>.  DEFINE s == run[k].seen[f]
             p == run[k].paths
<1>1. /\ OnlyMaps /\ UNCHANGED <<path, name, made>>
      /\ link'[f].label = s
      /\ \A g \in Folders \ {f} : link'[g] = link[g]
      /\ run[k].at = "records" /\ run'[k].at = "records" /\ f \in run[k].todo
      /\ run'[k].paths = run[k].paths /\ run'[k].seen = run[k].seen
      /\ run'[k].todo = run[k].todo \ {f} /\ run'[k].astray = run[k].astray
      /\ \A x \in Mirror!Workers \ {k} : run'[x] = run[x]
      BY RecordsDoes
<1>2. \A x \in Mirror!Workers : KeptBy(x) /\ HasDone(x) /\ RenamesRight(x) /\ FindsRight(x)
      BY DEF RunsOK, KeptOK
<1>3. s \in Given /\ s # None
      BY <1>1, <1>2 DEF KeptBy, HasDone
<1>4. Apart(p)
      BY <1>1 DEF RunsOK, PathsOK, Mapping
<1>5. \A x \in Mirror!Workers : run'[x].at \in Mapping /\ ~run'[x].astray =>
         ~run[k].astray /\ run[x].paths = p
      BY <1>1 DEF RunsOK, Together, Mapping
<1>6. ~run[k].astray =>
         /\ Live(s) => name[s] = p[f]
         /\ \A g \in Folders : Live(link[g].label) => name[link[g].label] = p[g]
      BY <1>1, <1>2 DEF FindsRight
<1>7. \A m : Alive(name', m) <=> Live(m)
      BY <1>1 DEF Live, Alive
<1>8. KeptOK'
      <2>1. \A g \in Folders : link'[g].label \in Given \cup {None}
            BY <1>1, <1>3 DEF RunsOK, KeptOK
      <2>2. \A x \in Mirror!Workers : KeptBy(x)'
            BY <1>1, <1>2 DEF KeptBy, Given
      <2>.  QED BY <1>1, <2>1, <2>2 DEF KeptOK, Given
<1>9. \A x \in Mirror!Workers : HasDone(x)'
      <2>.  TAKE x \in Mirror!Workers
      <2>1. \A g \in Folders : link[g].label # None => link'[g].label # None
            BY <1>1, <1>3
      <2>2. CASE x = k
            BY <1>1, <1>2, <1>3, <2>1, <2>2 DEF HasDone
      <2>3. CASE x # k
            <3>1. run'[x] = run[x] /\ HasDone(x)
                  BY <1>1, <1>2, <2>3
            <3>2. run[x].at = "reread" => run[x].folder \in Folders
                  BY DEF WorkersOK, BusyWriter, Mirror!Workers
            <3>.  QED BY <2>1, <3>1, <3>2 DEF HasDone
      <2>.  QED BY <2>2, <2>3
<1>10. \A x \in Mirror!Workers : FindsRight(x)'
      <2>.  TAKE x \in Mirror!Workers
      <2>1. SUFFICES ASSUME run'[x].at \in {"creates", "records"}, ~run'[x].astray, NEW g \in Folders
            PROVE  /\ Live(link'[g].label) => name[link'[g].label] = run'[x].paths[g]
                   /\ Live(run'[x].seen[g]) => name[run'[x].seen[g]] = run'[x].paths[g]
            BY <1>1 DEF FindsRight, Live, Alive
      <2>2. ~run[k].astray /\ run[x].paths = p
            BY <1>5, <2>1 DEF Mapping
      <2>3. run'[x].paths = p /\ run'[x].seen = run[x].seen /\ ~run[x].astray
            BY <1>1, <2>1, <2>2
      <2>4. run[x].at \in {"creates", "records"}
            BY <1>1, <2>1
      <2>5. Live(run[x].seen[g]) => name[run[x].seen[g]] = p[g]
            BY <1>2, <2>2, <2>3, <2>4 DEF FindsRight
      <2>6. Live(link'[g].label) => name[link'[g].label] = p[g]
            BY <1>1, <1>6, <2>2
      <2>.  QED BY <2>3, <2>5, <2>6
<1>11. \A x \in Mirror!Workers : RenamesRight(x)'
      <2>.  TAKE x \in Mirror!Workers
      <2>1. SUFFICES ASSUME run'[x].at = "renames", ~run'[x].astray PROVE RenamesRight(x)'
            BY DEF RenamesRight
      <2>2. x # k /\ run'[x] = run[x]
            BY <1>1, <2>1
      <2>3. ~run[k].astray /\ run[x].paths = p
            BY <1>5, <2>1 DEF Mapping
      <2>4. run[x].todo \subseteq Folders
            BY DEF LabelsTyped, RunRows
      <2>5. /\ Live(s) => name[s] = p[f]
            /\ \A g \in Folders : Live(link[g].label) => name[link[g].label] = p[g]
            BY <1>6, <2>3
      <2>6. \A g \in Folders : Live(link'[g].label) => name[link'[g].label] = p[g]
            BY <1>1, <2>5
      <2>7. \A g, h \in Folders : Live(link'[g].label) /\ link'[g].label = link'[h].label => g = h
            BY <1>4, <2>6 DEF Apart
      <2>8. ASSUME NEW g \in run[x].todo, Live(run[x].links[g].label)
            PROVE  /\ \/ link'[g].label = run[x].links[g].label
                      \/ name[run[x].links[g].label] = p[g]
                   /\ \A h \in Folders \ {g} : link'[h].label # run[x].links[g].label
            <3>.  DEFINE m == run[x].links[g].label
            <3>1. link[g].label = m \/ name[m] = p[g]
                  BY <1>2, <2>1, <2>2, <2>3, <2>8 DEF RenamesRight
            <3>2. name[m] = p[g]
                  BY <2>4, <2>5, <2>8, <3>1
            <3>3. \A h \in Folders : link'[h].label = m => h = g
                  BY <1>4, <2>4, <2>6, <2>8, <3>2 DEF Apart
            <3>.  QED BY <3>2, <3>3
      <2>.  QED BY <1>1, <2>2, <2>3, <2>6, <2>7, <2>8 DEF RenamesRight, Live, Alive
<1>12. NamesOK'
      BY <1>1, NamesStay DEF RunsOK
<1>13. PathsOK'
      <2>1. \A x \in Mirror!Workers : run'[x].at \in Mapping =>
               run[x].at \in Mapping /\ run'[x].paths = run[x].paths
            BY <1>1
      <2>.  QED BY <1>1, <2>1, PathsStay DEF RunsOK
<1>14. Together'
      BY <1>1 DEF RunsOK, Together
<1>.  QED BY <1>8, <1>9, <1>10, <1>11, <1>12, <1>13, <1>14 DEF RunsOK

LEMMA DeletedRuns ==
    ASSUME LabelSizes, LabelsTyped, RunsOK, NEW l \in Mirror!Labels, Mirror!LabelDeleted(l)
    PROVE  RunsOK'
<1>1. /\ name' = [name EXCEPT ![l] = None] /\ carries' = [t \in Threads |-> carries[t] \ {l}]
      /\ UNCHANGED <<path, made, link, run>>
      BY DEF Mirror!LabelDeleted, Mirror!treeVars
<1>2. \A m \in Mirror!Labels : name'[m] = IF m = l THEN None ELSE name[m]
      BY <1>1 DEF LabelsTyped
<1>3. NamesOK'
      <2>1. \A m, n \in Mirror!Labels : name'[m] # None /\ name'[m] = name'[n] => m = n
            BY <1>2 DEF RunsOK, NamesOK
      <2>2. \A m \in Mirror!Labels : name'[m] # None => m \in Given
            BY <1>2 DEF RunsOK, NamesOK
      <2>3. \A t \in Threads : \A m \in carries'[t] : name'[m] # None
            BY <1>1, <1>2 DEF RunsOK, NamesOK, LabelsTyped
      <2>.  QED BY <1>1, <2>1, <2>2, <2>3 DEF RunsOK, NamesOK, Given
<1>4. PathsOK' /\ Together'
      BY <1>1 DEF RunsOK, PathsOK, Apart, Together
<1>5. \A x \in Mirror!Workers : KeptBy(x)' /\ HasDone(x)' /\ RenamesRight(x)' /\ FindsRight(x)'
      <2>.  TAKE x \in Mirror!Workers
      <2>1. SameRun(run[x], run'[x]) /\ run'[x].folder = run[x].folder /\ run[x].astray = run'[x].astray
            BY <1>1 DEF SameRun
      <2>2. KeptOK /\ HasDone(x) /\ RenamesRight(x) /\ FindsRight(x)
            BY DEF RunsOK
      <2>3. \A m \in Given : name'[m] = name[m] \/ name'[m] = None
            BY <1>2 DEF Given, LabelsTyped, LabelSizes, Mirror!Labels
      <2>4. made' \in 0 .. MaxLabels /\ made <= made' /\ UNCHANGED link
            BY <1>1 DEF LabelsTyped
      <2>.  QED BY <2>1, <2>2, <2>3, <2>4, OtherLabels
<1>6. KeptOK'
      BY <1>1, <1>5 DEF RunsOK, KeptOK, Given
<1>.  QED BY <1>3, <1>4, <1>5, <1>6 DEF RunsOK

\* The other steps leave every run that maps folders as it is, or end it.
LEMMA QuietRuns ==
    ASSUME LabelSizes, LabelsTyped, RunsOK, UNCHANGED <<name, made, link>>, Apart(path'),
           \A x \in Mirror!Workers : run'[x].at \in Mapping => run'[x] = run[x],
           \A x \in Mirror!Workers : run'[x].at = "reread" => link[run'[x].folder].label # None,
           \A x \in Mirror!Workers : run'[x].desired \subseteq Given,
           \A t \in Threads : \A l \in carries'[t] : name[l] # None
    PROVE  RunsOK'
<1>1. NamesOK'
      BY DEF RunsOK, NamesOK, Given
<1>2. KeptOK'
      BY DEF RunsOK, KeptOK, KeptBy, Given, Mapping
<1>3. PathsOK'
      BY DEF RunsOK, PathsOK, Apart
<1>4. Together'
      BY DEF RunsOK, Together
<1>5. \A x \in Mirror!Workers : HasDone(x)'
      BY DEF RunsOK, HasDone, Mapping
<1>6. \A x \in Mirror!Workers : RenamesRight(x)' /\ FindsRight(x)'
      BY DEF RunsOK, RenamesRight, FindsRight, Mapping, Live, Alive
<1>.  QED BY <1>1, <1>2, <1>3, <1>4, <1>5, <1>6 DEF RunsOK

-----------------------------------------------------------------------------
(* The threads.                                                              *)

\* The active job of a thread is the writer's.
LEMMA WritersThread ==
    ASSUME LabelSizes, WorkersOK, NEW t \in Threads, jobs[t].at = "active"
    PROVE  run["writer"].at # "idle" /\ run["writer"].job = t
<1>1. PICK k \in Mirror!Workers : run[k].at # "idle" /\ run[k].job = t
      BY DEF WorkersOK, JobIds
<1>2. k # "provisioner"
      BY <1>1, JobsAre DEF WorkersOK, LabelSizes
<1>.  QED BY <1>1, <1>2 DEF Mirror!Workers

LEMMA MapsKeepThreads ==
    ASSUME LabelSizes, LabelsTyped, RunsOK, ThreadsOK, OnlyMaps, UNCHANGED <<adrift, link>>,
           \A l \in Given : name[l] = None => name'[l] = None
    PROVE  ThreadsOK'
<1>1. "writer" \in Mirror!Workers
      BY DEF Mirror!Workers
<1>2. /\ run'["writer"].then = run["writer"].then /\ run'["writer"].folder = run["writer"].folder
      /\ run'["writer"].desired = run["writer"].desired
      /\ run'["writer"].managed = run["writer"].managed
      /\ \/ run'["writer"].at = run["writer"].at
         \/ run["writer"].at \in Mapping \cup {"tree"} /\ run'["writer"].at \in Mapping
      BY <1>1 DEF OnlyMaps
<1>3. Mirror!Managed' = Mirror!Managed
      BY DEF Mirror!Managed, Mirror!Linked
<1>4. \A f : Mirror!Wanted(f)' = Mirror!Wanted(f)
      BY DEF Mirror!Wanted, Mirror!Linked
<1>5. SUFFICES ASSUME NEW t \in Threads \ adrift, ~Pending(t)
      PROVE  /\ jobs[t].at = "none" => Settled(t)'
             /\ jobs[t].at = "active" /\ run'["writer"].at # "thread" => InHand(t)'
      BY DEF ThreadsOK, Pending, OnlyMaps
<1>6. ASSUME jobs[t].at = "none" PROVE Settled(t)'
      <2>1. Settled(t)
            BY <1>5, <1>6 DEF ThreadsOK
      <2>.  QED BY <1>3, <1>4, <2>1 DEF Settled, OnlyMaps, Mirror!Linked, Mirror!Wanted
<1>7. ASSUME jobs[t].at = "active", run'["writer"].at # "thread" PROVE InHand(t)'
      <2>1. InHand(t)
            BY <1>2, <1>5, <1>7 DEF ThreadsOK, Mapping
      <2>2. run'["writer"].folder = latest'[t]
            BY <1>2, <2>1 DEF InHand, OnlyMaps
      <2>3. PICK d : d = run["writer"].desired
            OBVIOUS
      <2>4. PICK g : g = run["writer"].folder
            OBVIOUS
      <2>5. PICK m : m = run["writer"].managed
            OBVIOUS
      <2>6. Mirror!Wanted(g)' = Mirror!Wanted(g) /\ (Mirror!Linked(g) => Mirror!Linked(g)')
            BY <1>4 DEF Mirror!Linked
      <2>7. BusyWriter' => BusyWriter
            BY <1>2 DEF BusyWriter
      <2>8. run'["writer"].at = "apply" => run["writer"].at = "apply"
            BY <1>2 DEF Mapping
      <2>9. d \subseteq Given
            BY <1>1, <2>3 DEF RunsOK, NamesOK
      <2>10. (\E l \in d : name[l] = None) => \E l \in d : name'[l] = None
            BY <2>9
      <2>11. BusyWriter' /\ run'["writer"].then = "reread" =>
                carries'[t] \cap Mirror!Managed' \subseteq m \cup Mirror!Wanted(g)'
            BY <1>2, <1>3, <2>1, <2>4, <2>5, <2>6, <2>7 DEF InHand, OnlyMaps
      <2>12. run'["writer"].at = "apply" =>
                /\ g # None => Mirror!Linked(g)'
                /\ \/ \E l \in d : name'[l] = None
                   \/ /\ d = Mirror!Wanted(g)'
                      /\ carries'[t] \cap Mirror!Managed' \subseteq m \cup d
            BY <1>3, <2>1, <2>3, <2>4, <2>5, <2>6, <2>8, <2>10 DEF InHand, OnlyMaps
      <2>13. /\ run'["writer"].desired = d /\ run'["writer"].folder = g /\ run'["writer"].managed = m
            BY <1>2, <2>3, <2>4, <2>5
      <2>.  QED BY <2>2, <2>11, <2>12, <2>13 DEF InHand, Mirror!Wanted, Mirror!Linked
<1>.  QED BY <1>6, <1>7

\* A link that is recorded moves off a label that is gone, or is the link of threads
\* that are set apart.
LEMMA RecordsThreads ==
    ASSUME LabelSizes, LabelsTyped, WorkersOK, RunsOK, ThreadsOK,
           NEW k \in Mirror!Workers, NEW f \in Folders, Mirror!Records(k, f)
    PROVE  ThreadsOK'
<1>.  DEFINE s == run[k].seen[f]
             old == link[f].label
<1>1. /\ OnlyMaps /\ UNCHANGED <<path, name, made>>
      /\ link'[f].label = s
      /\ \A g \in Folders \ {f} : link'[g] = link[g]
      /\ run[k].at = "records"
      /\ adrift \subseteq adrift'
      /\ s # old =>
            \A t \in Threads \ adrift' :
               /\ latest[t] = f /\ old # None /\ name[old] # None => ~run[k].astray /\ name[s] # None
               /\ latest[t] # f => s \notin carries[t]
      BY RecordsDoes
<1>2. s \in Given /\ s # None /\ s \in Mirror!Labels
      <2>1. s \in Given /\ s # None
            BY <1>1 DEF RunsOK, KeptOK, KeptBy, HasDone
      <2>.  QED BY <2>1 DEF LabelsTyped, LabelSizes, Given, Mirror!Labels
<1>3. old \in Mirror!Labels \cup {None} /\ None \notin Mirror!Labels
      BY DEF LabelsTyped, LinkRows, LabelSizes, Mirror!Labels
<1>4. \A t \in Threads \ adrift' : s # old /\ latest[t] = f /\ old # None => name[old] = None
      <2>.  SUFFICES ASSUME NEW t \in Threads \ adrift', s # old, latest[t] = f, old # None,
                            name[old] # None
                     PROVE  FALSE
            OBVIOUS
      <2>1. ~run[k].astray /\ name[s] # None
            BY <1>1
      <2>2. name[old] = run[k].paths[f] /\ name[s] = run[k].paths[f]
            BY <1>1, <1>2, <1>3, <2>1 DEF RunsOK, FindsRight, Live, Alive
      <2>.  QED BY <1>2, <1>3, <2>2 DEF RunsOK, NamesOK
<1>5. Mirror!Managed' \subseteq Mirror!Managed \cup {s}
      BY <1>1 DEF Mirror!Managed, Mirror!Linked
<1>6. \A g \in Folders : g # f => Mirror!Wanted(g)' = Mirror!Wanted(g)
      BY <1>1 DEF Mirror!Wanted, Mirror!Linked
<1>7. Mirror!Wanted(f)' = {s} /\ Mirror!Wanted(None)' = Mirror!Wanted(None)
      BY <1>1, <1>2 DEF Mirror!Wanted, Mirror!Linked, LabelSizes
<1>8. \A g \in Folders : Mirror!Linked(g) => Mirror!Linked(g)'
      BY <1>1, <1>2 DEF Mirror!Linked
<1>9. \A g \in Folders \cup {None} : Mirror!Wanted(g)' \subseteq Mirror!Managed'
      BY DEF Mirror!Wanted, Mirror!Managed
<1>10. \A t \in Threads : \A l \in carries[t] : l \in Mirror!Labels /\ name[l] # None
      BY DEF RunsOK, NamesOK, LabelsTyped
<1>11. s = old => /\ Mirror!Managed' = Mirror!Managed
                  /\ \A g \in Folders \cup {None} : Mirror!Wanted(g)' = Mirror!Wanted(g)
      <2>1. s = old => \A g \in Folders : link'[g].label = link[g].label
            BY <1>1
      <2>2. s = old => Mirror!Managed' = Mirror!Managed
            BY <2>1 DEF Mirror!Managed, Mirror!Linked
      <2>3. s = old => \A g \in Folders \cup {None} : Mirror!Wanted(g)' = Mirror!Wanted(g)
            BY <1>6, <1>7, <2>1 DEF Mirror!Wanted, Mirror!Linked
      <2>.  QED BY <2>2, <2>3
<1>12. "writer" \in Mirror!Workers
      BY DEF Mirror!Workers
<1>13. /\ run'["writer"].then = run["writer"].then /\ run'["writer"].folder = run["writer"].folder
       /\ run'["writer"].desired = run["writer"].desired
       /\ run'["writer"].managed = run["writer"].managed
       /\ \/ run'["writer"].at = run["writer"].at
          \/ run["writer"].at \in Mapping \cup {"tree"} /\ run'["writer"].at \in Mapping
      BY <1>1, <1>12 DEF OnlyMaps
<1>14. SUFFICES ASSUME NEW t \in Threads \ adrift', ~Pending(t)
       PROVE  /\ jobs[t].at = "none" => Settled(t)'
              /\ jobs[t].at = "active" /\ run'["writer"].at # "thread" => InHand(t)'
      BY <1>1 DEF ThreadsOK, Pending, OnlyMaps
<1>15. t \in Threads \ adrift /\ latest[t] \in Folders \cup {None}
      BY <1>1, <1>14 DEF LabelsTyped
<1>.  HIDE DEF s, old
<1>16. \* What t carries of the labels of folders, before and after.
       /\ s = old \/ latest[t] # f => carries[t] \cap Mirror!Managed' \subseteq carries[t] \cap Mirror!Managed
       /\ s # old /\ latest[t] = f => /\ old \notin carries[t]
                                      /\ old # None => name[old] = None
      <2>1. CASE s = old
            BY <1>11, <2>1
      <2>2. CASE s # old /\ latest[t] # f
            BY <1>1, <1>5, <1>14, <2>2
      <2>3. CASE s # old /\ latest[t] = f
            BY <1>3, <1>4, <1>10, <1>14, <2>3
      <2>.  QED BY <2>1, <2>2, <2>3
<1>17. s = old \/ latest[t] # f => Mirror!Wanted(latest[t])' = Mirror!Wanted(latest[t])
      <2>1. PICK g : g = latest[t]
            OBVIOUS
      <2>2. s = old \/ g # f => Mirror!Wanted(g)' = Mirror!Wanted(g)
            BY <1>6, <1>7, <1>11, <1>15, <2>1
      <2>.  QED BY <1>1, <2>1, <2>2 DEF OnlyMaps, Mirror!Wanted, Mirror!Linked
<1>18. ASSUME jobs[t].at = "none" PROVE Settled(t)'
      <2>1. Settled(t)
            BY <1>14, <1>15, <1>18 DEF ThreadsOK
      <2>2. s = old \/ latest[t] # f
            <3>1. SUFFICES ASSUME s # old, latest[t] = f PROVE FALSE
                  OBVIOUS
            <3>2. latest[t] # None
                  BY <3>1 DEF LabelSizes
            <3>3. old # None /\ Mirror!Wanted(f) = {old}
                  BY <2>1, <3>1, <3>2 DEF Settled, Mirror!Wanted, Mirror!Linked, old
            <3>4. old \in carries[t]
                  BY <2>1, <3>1, <3>3 DEF Settled
            <3>.  QED BY <1>16, <3>1, <3>4
      <2>3. PICK g \in Folders \cup {None} : g = latest[t]
            BY <1>15
      <2>4. Mirror!Wanted(g)' = Mirror!Wanted(g) /\ Mirror!Wanted(g)' \subseteq Mirror!Managed'
            BY <1>6, <1>7, <1>9, <1>11, <2>2, <2>3
      <2>5. carries[t] \cap Mirror!Managed = Mirror!Wanted(g)
            BY <2>1, <2>3 DEF Settled
      <2>6. carries[t] \cap Mirror!Managed' = Mirror!Wanted(g)'
            BY <1>16, <2>2, <2>4, <2>5
      <2>7. g # None => Mirror!Linked(g)'
            BY <1>8, <2>1, <2>3 DEF Settled
      <2>8. latest' = latest /\ carries' = carries
            BY <1>1 DEF OnlyMaps
      <2>.  QED BY <2>3, <2>6, <2>7, <2>8 DEF Settled, Mirror!Wanted, Mirror!Linked
<1>19. ASSUME jobs[t].at = "active", run'["writer"].at # "thread" PROVE InHand(t)'
      <2>1. InHand(t)
            BY <1>13, <1>14, <1>15, <1>19 DEF ThreadsOK, Mapping
      <2>2. latest' = latest /\ carries' = carries /\ name' = name
            BY <1>1 DEF OnlyMaps
      <2>3. PICK d : d = run["writer"].desired
            OBVIOUS
      <2>4. PICK g \in Folders \cup {None} : g = run["writer"].folder /\ g = latest[t]
            BY <1>15, <2>1 DEF InHand
      <2>5. PICK m : m = run["writer"].managed
            OBVIOUS
      <2>6. /\ run'["writer"].desired = d /\ run'["writer"].folder = g /\ run'["writer"].managed = m
            BY <1>13, <2>3, <2>4, <2>5
      <2>7. BusyWriter' => BusyWriter
            BY <1>13 DEF BusyWriter
      <2>8. run'["writer"].at = "apply" => run["writer"].at = "apply"
            BY <1>13 DEF Mapping
      <2>9. ASSUME BusyWriter', run["writer"].then = "reread"
            PROVE  carries[t] \cap Mirror!Managed' \subseteq m \cup Mirror!Wanted(g)'
            <3>1. carries[t] \cap Mirror!Managed \subseteq m \cup Mirror!Wanted(g)
                  BY <2>1, <2>4, <2>5, <2>7, <2>9 DEF InHand
            <3>2. CASE s = old \/ latest[t] # f
                  <4>1. Mirror!Wanted(g)' = Mirror!Wanted(g)
                        BY <1>6, <1>7, <1>11, <2>4, <3>2
                  <4>.  QED BY <1>16, <3>1, <3>2, <4>1
            <3>3. CASE s # old /\ latest[t] = f
                  <4>1. Mirror!Wanted(g) \subseteq {old}
                        BY <2>4, <3>3 DEF Mirror!Wanted, old
                  <4>2. carries[t] \cap Mirror!Managed \subseteq m
                        BY <1>16, <3>1, <3>3, <4>1
                  <4>3. Mirror!Wanted(g)' = {s}
                        BY <1>7, <2>4, <3>3
                  <4>.  QED BY <1>5, <4>2, <4>3 DEF s
            <3>.  QED BY <3>2, <3>3
      <2>10. ASSUME run'["writer"].at = "apply"
             PROVE  /\ g # None => Mirror!Linked(g)'
                    /\ \/ \E l \in d : name[l] = None
                       \/ /\ d = Mirror!Wanted(g)'
                          /\ carries[t] \cap Mirror!Managed' \subseteq m \cup d
            <3>1. /\ g # None => Mirror!Linked(g)
                  /\ \/ \E l \in d : name[l] = None
                     \/ /\ d = Mirror!Wanted(g)
                        /\ carries[t] \cap Mirror!Managed \subseteq m \cup d
                  BY <2>1, <2>3, <2>4, <2>5, <2>8, <2>10 DEF InHand
            <3>2. g # None => Mirror!Linked(g)'
                  BY <1>8, <3>1
            <3>3. CASE s = old \/ latest[t] # f
                  <4>1. Mirror!Wanted(g)' = Mirror!Wanted(g)
                        BY <1>6, <1>7, <1>11, <2>4, <3>3
                  <4>.  QED BY <1>16, <3>1, <3>2, <3>3, <4>1
            <3>4. CASE s # old /\ latest[t] = f
                  <4>1. g = f /\ g # None
                        BY <2>4, <3>4 DEF LabelSizes
                  <4>2. old # None /\ Mirror!Wanted(g) = {old}
                        BY <3>1, <4>1 DEF Mirror!Linked, Mirror!Wanted, old
                  <4>3. \E l \in d : name[l] = None
                        BY <1>16, <3>1, <3>4, <4>2
                  <4>.  QED BY <3>2, <4>3
            <3>.  QED BY <3>3, <3>4
      <2>.  QED BY <1>13, <2>2, <2>4, <2>6, <2>9, <2>10 DEF InHand, Mirror!Wanted, Mirror!Linked
<1>.  QED BY <1>18, <1>19

LEMMA DeletedThreads ==
    ASSUME LabelSizes, LabelsTyped, RunsOK, ThreadsOK, NEW l \in Mirror!Labels, Mirror!LabelDeleted(l)
    PROVE  ThreadsOK'
<1>1. /\ name' = [name EXCEPT ![l] = None] /\ carries' = [t \in Threads |-> carries[t] \ {l}]
      /\ adrift' = adrift \cup {t \in Threads : l \in carries[t]}
      /\ UNCHANGED <<latest, adding, jobs, link, run>>
      BY DEF Mirror!LabelDeleted, Mirror!treeVars
<1>2. \A t \in Threads \ adrift' : carries'[t] = carries[t]
      BY <1>1
<1>3. \A m \in Mirror!Labels : name[m] = None => name'[m] = None
      BY <1>1 DEF LabelsTyped
<1>4. run["writer"].desired \subseteq Mirror!Labels
      BY DEF LabelsTyped, RunRows, Mirror!Workers
<1>5. (\E m \in run["writer"].desired : name[m] = None) => \E m \in run["writer"].desired : name'[m] = None
      BY <1>3, <1>4
<1>6. /\ Mirror!Managed' = Mirror!Managed
      /\ Mirror!Wanted(run["writer"].folder)' = Mirror!Wanted(run["writer"].folder)
      /\ Mirror!Linked(run["writer"].folder)' = Mirror!Linked(run["writer"].folder)
      /\ BusyWriter' = BusyWriter
      BY <1>1 DEF Mirror!Managed, Mirror!Wanted, Mirror!Linked, BusyWriter
<1>7. SUFFICES ASSUME NEW t \in Threads \ adrift', ~Pending(t)
      PROVE  /\ jobs[t].at = "none" => Settled(t)'
             /\ jobs[t].at = "active" /\ run["writer"].at # "thread" => InHand(t)'
      BY <1>1 DEF ThreadsOK, Pending
<1>8. t \in Threads \ adrift /\ carries'[t] = carries[t]
      BY <1>1, <1>2, <1>7
<1>9. ASSUME jobs[t].at = "none" PROVE Settled(t)'
      <2>1. Settled(t)
            BY <1>7, <1>8, <1>9 DEF ThreadsOK
      <2>.  QED BY <1>1, <1>6, <1>8, <2>1 DEF Settled, Mirror!Wanted, Mirror!Linked
<1>10. ASSUME jobs[t].at = "active", run["writer"].at # "thread" PROVE InHand(t)'
      <2>1. InHand(t)
            BY <1>7, <1>8, <1>10 DEF ThreadsOK
      <2>2. run' = run /\ latest' = latest
            BY <1>1
      <2>.  QED BY <1>5, <1>6, <1>8, <2>1, <2>2 DEF InHand
<1>.  QED BY <1>9, <1>10

\* A thread stays as it is, is set apart or settled, or a job will see to it.
LEMMA ThreadsStay ==
    ASSUME ThreadsOK, UNCHANGED <<link, name>>,
           \A t \in Threads \ adrift' : ~Pending(t)' =>
              \/ jobs'[t].at = "waiting"
              \/ jobs'[t].at = "none" /\ Settled(t)'
              \/ jobs'[t].at = "active" /\ (run'["writer"].at = "thread" \/ InHand(t)')
              \/ /\ t \notin adrift /\ ~Pending(t)
                 /\ latest'[t] = latest[t] /\ carries'[t] = carries[t] /\ jobs'[t].at = jobs[t].at
                 /\ jobs[t].at = "active" =>
                       run'["writer"] = run["writer"] \/ run'["writer"].at = "thread"
    PROVE  ThreadsOK'
<1>1. /\ Mirror!Managed' = Mirror!Managed
      /\ \A f : Mirror!Wanted(f)' = Mirror!Wanted(f) /\ Mirror!Linked(f)' = Mirror!Linked(f)
      BY DEF Mirror!Managed, Mirror!Wanted, Mirror!Linked
<1>2. SUFFICES ASSUME NEW t \in Threads \ adrift', ~Pending(t)'
      PROVE  /\ jobs'[t].at = "none" => Settled(t)'
             /\ jobs'[t].at = "active" /\ run'["writer"].at # "thread" => InHand(t)'
      BY Zenon DEF ThreadsOK
<1>3. CASE \/ jobs'[t].at = "waiting"
           \/ jobs'[t].at = "none" /\ Settled(t)'
           \/ jobs'[t].at = "active" /\ (run'["writer"].at = "thread" \/ InHand(t)')
      BY <1>3
<1>4. CASE /\ t \notin adrift /\ ~Pending(t)
           /\ latest'[t] = latest[t] /\ carries'[t] = carries[t] /\ jobs'[t].at = jobs[t].at
           /\ jobs[t].at = "active" =>
                 run'["writer"] = run["writer"] \/ run'["writer"].at = "thread"
      <2>1. /\ jobs[t].at = "none" => Settled(t)
            /\ jobs[t].at = "active" /\ run["writer"].at # "thread" => InHand(t)
            BY <1>2, <1>4 DEF ThreadsOK
      <2>2. ASSUME jobs'[t].at = "none" PROVE Settled(t)'
            <3>1. PICK g : g = latest[t] /\ g = latest'[t]
                  BY <1>4
            <3>2. carries[t] \cap Mirror!Managed = Mirror!Wanted(g) /\ (g # None => Mirror!Linked(g))
                  BY <1>4, <2>1, <2>2, <3>1 DEF Settled
            <3>3. carries'[t] \cap Mirror!Managed' = Mirror!Wanted(g)' /\ (g # None => Mirror!Linked(g)')
                  BY <1>1, <1>4, <3>2
            <3>.  QED BY <3>1, <3>3 DEF Settled, Mirror!Wanted, Mirror!Linked
      <2>3. ASSUME jobs'[t].at = "active", run'["writer"].at # "thread" PROVE InHand(t)'
            <3>1. run'["writer"] = run["writer"] /\ InHand(t)
                  BY <1>4, <2>1, <2>3
            <3>2. /\ Mirror!Wanted(run["writer"].folder)' = Mirror!Wanted(run["writer"].folder)
                  /\ Mirror!Linked(run["writer"].folder)' = Mirror!Linked(run["writer"].folder)
                  /\ BusyWriter' = BusyWriter
                  BY <3>1 DEF Mirror!Wanted, Mirror!Linked, BusyWriter
            <3>3. carries'[t] \cap Mirror!Managed' = carries[t] \cap Mirror!Managed
                  BY <1>1, <1>4
            <3>.  QED BY <1>4, <3>1, <3>2, <3>3 DEF InHand
      <2>.  QED BY <2>2, <2>3
<1>.  QED BY <1>2, <1>3, <1>4

-----------------------------------------------------------------------------
(* The workers.                                                              *)

LEMMA AddedDoes ==
    ASSUME NEW q \in JobRows, NEW api \in BOOLEAN, q.at # "none" => q.left >= 1
    PROVE  /\ q.at = "none" => Mirror!Added(q, api).at = "waiting"
           /\ q.at # "none" => Mirror!Added(q, api) = q
           /\ Mirror!Added(q, api).left >= 1
BY DEF Mirror!Added, JobRows

LEMMA NoJobDoes == Mirror!NoJob.at = "none"
BY DEF Mirror!NoJob

LEMMA IdleDoes == Mirror!Idle.at = "idle" /\ Mirror!Idle.desired = {}
BY DEF Mirror!Idle

LEMMA AddedOne ==
    ASSUME LabelsTyped, WorkersOK, NEW i \in JobIds, NEW api \in BOOLEAN,
           jobs' = [jobs EXCEPT ![i] = Mirror!Added(jobs[i], api)]
    PROVE  \A j \in JobIds : /\ jobs'[j].at = "active" <=> jobs[j].at = "active"
                             /\ jobs'[j].at # "none" => jobs'[j].left >= 1
                             /\ j # i => jobs'[j] = jobs[j]
<1>1. jobs[i] \in JobRows /\ (jobs[i].at # "none" => jobs[i].left >= 1)
      BY DEF LabelsTyped, WorkersOK
<1>2. PICK q : q = Mirror!Added(jobs[i], api)
      OBVIOUS
<1>3. q.left >= 1 /\ (q.at = "active" <=> jobs[i].at = "active")
      BY <1>1, <1>2, AddedDoes
<1>4. jobs'[i] = q /\ \A j \in JobIds \ {i} : jobs'[j] = jobs[j]
      BY <1>2 DEF LabelsTyped
<1>.  QED BY <1>3, <1>4 DEF WorkersOK

\* The two workers never hold the same job.
LEMMA OwnJobs ==
    ASSUME LabelSizes, NEW k \in Mirror!Workers, NEW x \in Mirror!Workers,
           NEW j, j \in Mirror!Jobs(k), j \in Mirror!Jobs(x)
    PROVE  k = x
BY JobsAre DEF LabelSizes, Mirror!Workers

\* Jobs are added, or dropped before they start.
LEMMA QueueKeepsWorkers ==
    ASSUME WorkersOK, run' = run,
           \A j \in JobIds : jobs'[j].at = "active" <=> jobs[j].at = "active",
           \A j \in JobIds : jobs'[j].at # "none" => jobs'[j].left >= 1
    PROVE  WorkersOK'
<1>1. \A k \in Mirror!Workers :
         run'[k].at # "idle" => run'[k].job \in Mirror!Jobs(k) /\ jobs'[run'[k].job].at = "active"
      BY JobsAre DEF WorkersOK
<1>2. BusyWriter' = BusyWriter
      BY DEF BusyWriter
<1>.  QED BY <1>1, <1>2 DEF WorkersOK

\* An attempt is over.
LEMMA EndKeepsWorkers ==
    ASSUME LabelSizes, LabelsTyped, WorkersOK, NEW k \in Mirror!Workers, run[k].at # "idle",
           run' = [run EXCEPT ![k] = Mirror!Idle], NEW j, j = run[k].job,
           jobs'[j].at # "active",
           \A i \in JobIds \ {j} : jobs'[i].at = "active" <=> jobs[i].at = "active",
           \A i \in JobIds : jobs'[i].at # "none" => jobs'[i].left >= 1
    PROVE  WorkersOK'
<1>1. run'[k] = Mirror!Idle /\ \A x \in Mirror!Workers \ {k} : run'[x] = run[x]
      BY DEF LabelsTyped
<1>2. \A x \in Mirror!Workers : run'[x].at # "idle" => x # k /\ run'[x] = run[x]
      BY <1>1, IdleDoes
<1>3. "writer" \in Mirror!Workers /\ "provisioner" \in Mirror!Workers
      BY DEF Mirror!Workers
<1>4. ASSUME NEW x \in Mirror!Workers, run'[x].at # "idle"
      PROVE  run'[x].job \in Mirror!Jobs(x) /\ jobs'[run'[x].job].at = "active"
      <2>1. x # k /\ run'[x] = run[x] /\ run[x].job \in Mirror!Jobs(x) /\ jobs[run[x].job].at = "active"
            BY <1>2, <1>4 DEF WorkersOK
      <2>2. run[x].job \in JobIds
            BY <2>1, JobsAre
      <2>3. run[x].job # j
            BY <2>1, OwnJobs DEF WorkersOK
      <2>.  QED BY <2>1, <2>2, <2>3
<1>5. ASSUME NEW i \in JobIds, jobs'[i].at = "active"
      PROVE  \E x \in Mirror!Workers : run'[x].at # "idle" /\ run'[x].job = i
      <2>1. i # j /\ jobs[i].at = "active"
            BY <1>5
      <2>2. PICK x \in Mirror!Workers : run[x].at # "idle" /\ run[x].job = i
            BY <2>1 DEF WorkersOK
      <2>3. x # k
            BY <2>1, <2>2
      <2>.  QED BY <1>1, <2>2, <2>3
<1>6. run'["provisioner"].at \notin {"thread", "reread", "apply"}
      BY <1>2, <1>3 DEF WorkersOK
<1>7. run'["provisioner"].at # "idle" =>
         run'["provisioner"].then = IF run'["provisioner"].job = "relabel" THEN "sweep" ELSE "done"
      BY <1>2, <1>3 DEF WorkersOK
<1>8. BusyWriter' => \/ run'["writer"].then = "throw" /\ run'["writer"].at # "reread"
                     \/ run'["writer"].then = "reread" /\ run'["writer"].folder \in Folders
      BY <1>2, <1>3 DEF WorkersOK, BusyWriter, Mapping
<1>.  QED BY <1>4, <1>5, <1>6, <1>7, <1>8 DEF WorkersOK

\* A worker takes the next step of its job, or takes up one.
LEMMA StepKeepsWorkers ==
    ASSUME LabelSizes, LabelsTyped, WorkersOK, NEW k \in Mirror!Workers, NEW r,
           run' = [run EXCEPT ![k] = r], r.at # "idle", r.job \in Mirror!Jobs(k),
           run[k].at = "idle" \/ run[k].job = r.job,
           jobs'[r.job].at = "active",
           \A i \in JobIds \ {r.job} : jobs'[i].at = "active" <=> jobs[i].at = "active",
           \A i \in JobIds : jobs'[i].at # "none" => jobs'[i].left >= 1,
           k = "provisioner" => /\ r.at \notin {"thread", "reread", "apply"}
                                /\ r.then = IF r.job = "relabel" THEN "sweep" ELSE "done",
           k = "writer" /\ r.at \in Mapping \cup {"tree", "reread"} =>
              \/ r.then = "throw" /\ r.at # "reread"
              \/ r.then = "reread" /\ r.folder \in Folders
    PROVE  WorkersOK'
<1>1. run'[k] = r /\ \A x \in Mirror!Workers \ {k} : run'[x] = run[x]
      BY DEF LabelsTyped
<1>2. "writer" \in Mirror!Workers /\ "provisioner" \in Mirror!Workers
      BY DEF Mirror!Workers
<1>3. r.job \in JobIds
      BY JobsAre
<1>4. ASSUME NEW x \in Mirror!Workers, run'[x].at # "idle"
      PROVE  run'[x].job \in Mirror!Jobs(x) /\ jobs'[run'[x].job].at = "active"
      <2>1. CASE x = k
            BY <1>1, <2>1
      <2>2. CASE x # k
            <3>1. run'[x] = run[x] /\ run[x].job \in Mirror!Jobs(x) /\ jobs[run[x].job].at = "active"
                  BY <1>1, <1>4, <2>2 DEF WorkersOK
            <3>2. run[x].job \in JobIds
                  BY <3>1, JobsAre
            <3>.  QED BY <3>1, <3>2
      <2>.  QED BY <2>1, <2>2
<1>5. ASSUME NEW i \in JobIds, jobs'[i].at = "active"
      PROVE  \E x \in Mirror!Workers : run'[x].at # "idle" /\ run'[x].job = i
      <2>1. CASE i = r.job
            BY <1>1, <2>1
      <2>2. CASE i # r.job
            <3>1. PICK x \in Mirror!Workers : run[x].at # "idle" /\ run[x].job = i
                  BY <1>5, <2>2 DEF WorkersOK
            <3>2. x # k
                  BY <2>2, <3>1
            <3>.  QED BY <1>1, <3>1, <3>2
      <2>.  QED BY <2>1, <2>2
<1>6. /\ run'["provisioner"].at \notin {"thread", "reread", "apply"}
      /\ run'["provisioner"].at # "idle" =>
         run'["provisioner"].then = IF run'["provisioner"].job = "relabel" THEN "sweep" ELSE "done"
      BY <1>1, <1>2 DEF WorkersOK
<1>7. BusyWriter' => \/ run'["writer"].then = "throw" /\ run'["writer"].at # "reread"
                     \/ run'["writer"].then = "reread" /\ run'["writer"].folder \in Folders
      BY <1>1, <1>2 DEF WorkersOK, BusyWriter
<1>.  QED BY <1>4, <1>5, <1>6, <1>7 DEF WorkersOK
\* Steps that leave the runs, the links and the mailbox alone ...
LEMMA QueueKeepsRuns ==
    ASSUME LabelSizes, LabelsTyped, RunsOK, UNCHANGED <<name, made, link, carries, run>>, Apart(path')
    PROVE  RunsOK'
<1>1. \A x \in Mirror!Workers : run'[x].at = "reread" => link[run'[x].folder].label # None
      BY DEF RunsOK, HasDone
<1>2. \A x \in Mirror!Workers : run'[x].desired \subseteq Given
      BY DEF RunsOK, NamesOK
<1>3. \A t \in Threads : \A l \in carries'[t] : name[l] # None
      BY DEF RunsOK, NamesOK
<1>.  QED BY <1>1, <1>2, <1>3, QuietRuns

\* ... and those that put a run where it maps nothing.
LEMMA StepKeepsRuns ==
    ASSUME LabelSizes, LabelsTyped, RunsOK, NEW k \in Mirror!Workers, NEW r,
           run' = [run EXCEPT ![k] = r], r.at \notin Mapping,
           r.at = "reread" => link[r.folder].label # None, r.desired \subseteq Given,
           UNCHANGED <<path, name, made, link>>,
           \A t \in Threads : \A l \in carries'[t] : name[l] # None
    PROVE  RunsOK'
<1>1. run'[k] = r /\ \A x \in Mirror!Workers \ {k} : run'[x] = run[x]
      BY DEF LabelsTyped
<1>2. \A x \in Mirror!Workers : run'[x].at \in Mapping => run'[x] = run[x]
      BY <1>1
<1>3. \A x \in Mirror!Workers : run'[x].at = "reread" => link[run'[x].folder].label # None
      BY <1>1 DEF RunsOK, HasDone
<1>4. \A x \in Mirror!Workers : run'[x].desired \subseteq Given
      BY <1>1 DEF RunsOK, NamesOK
<1>5. Apart(path')
      BY DEF RunsOK, PathsOK
<1>.  QED BY <1>2, <1>3, <1>4, <1>5, QuietRuns

LEMMA EndKeepsRuns ==
    ASSUME LabelSizes, LabelsTyped, RunsOK, NEW k \in Mirror!Workers,
           run' = [run EXCEPT ![k] = Mirror!Idle], UNCHANGED <<path, name, made, link>>,
           \A t \in Threads : \A l \in carries'[t] : name[l] # None
    PROVE  RunsOK'
<1>1. Mirror!Idle.at \notin Mapping /\ Mirror!Idle.at # "reread" /\ Mirror!Idle.desired \subseteq Given
      BY IdleDoes DEF Mapping
<1>2. PICK r : r = Mirror!Idle
      OBVIOUS
<1>.  QED BY <1>1, <1>2, StepKeepsRuns

-----------------------------------------------------------------------------
(* The API and the queues.                                                   *)

LEMMA RepathKeeps ==
    ASSUME LabelSizes, LabelsInv, NEW f \in Folders, NEW p \in Paths, Mirror!Repath(f, p)
    PROVE  WorkersOK' /\ RunsOK' /\ ThreadsOK'
<1>1. LabelsTyped /\ WorkersOK /\ RunsOK /\ ThreadsOK
      BY DEF LabelsInv
<1>2. /\ UNCHANGED <<latest, name, made, carries, link, adding, run, adrift>>
      /\ path' = [path EXCEPT ![f] = p] /\ \A g \in Folders : path[g] # p
      /\ \/ jobs' = [jobs EXCEPT !["provision"] = Mirror!Added(jobs["provision"], TRUE)]
         \/ jobs' = jobs
      BY DEF Mirror!Repath, Mirror!mailVars
<1>3. "provision" \in JobIds /\ jobs["provision"] \in JobRows
      BY <1>1 DEF JobIds, LabelsTyped
<1>4. \A j \in JobIds : /\ jobs'[j].at = "active" <=> jobs[j].at = "active"
                        /\ jobs'[j].at # "none" => jobs'[j].left >= 1
                        /\ j # "provision" => jobs'[j] = jobs[j]
      <2>1. CASE jobs' = jobs
            BY <1>1, <2>1 DEF WorkersOK
      <2>2. CASE jobs' = [jobs EXCEPT !["provision"] = Mirror!Added(jobs["provision"], TRUE)]
            BY <1>1, <1>3, <2>2, AddedOne
      <2>.  QED BY <1>2, <2>1, <2>2
<1>5. WorkersOK'
      BY <1>1, <1>2, <1>4, QueueKeepsWorkers
<1>6. Apart(path')
      BY <1>1, <1>2 DEF Apart, RunsOK, PathsOK, LabelsTyped
<1>7. RunsOK'
      BY <1>1, <1>2, <1>6, QueueKeepsRuns
<1>8. \A t \in Threads : jobs'[t] = jobs[t] /\ (Pending(t)' <=> Pending(t))
      BY <1>2, <1>4 DEF JobIds, LabelSizes, Pending
<1>9. ThreadsOK'
      BY <1>1, <1>2, <1>8, ThreadsStay
<1>.  QED BY <1>5, <1>7, <1>9

LEMMA ClassifyKeeps ==
    ASSUME LabelSizes, LabelsInv, NEW t \in Threads, NEW api \in BOOLEAN, NEW f \in Folders \cup {None},
           Mirror!Classify(t, f, api)
    PROVE  WorkersOK' /\ RunsOK' /\ ThreadsOK'
<1>1. LabelsTyped /\ WorkersOK /\ RunsOK /\ ThreadsOK
      BY DEF LabelsInv
<1>2. /\ UNCHANGED <<path, name, made, carries, link, jobs, run, adrift>>
      /\ latest' = [latest EXCEPT ![t] = f] /\ adding' = adding \cup {<<t, api>>}
      BY DEF Mirror!Classify, Mirror!mailVars
<1>3. WorkersOK'
      BY <1>1, <1>2, QueueKeepsWorkers DEF WorkersOK
<1>4. RunsOK'
      BY <1>1, <1>2, QueueKeepsRuns DEF RunsOK, PathsOK
<1>5. \A u \in Threads : ~Pending(u)' => ~Pending(u) /\ u # t
      BY <1>2 DEF Pending
<1>6. \A u \in Threads : u # t => latest'[u] = latest[u]
      BY <1>1, <1>2 DEF LabelsTyped
<1>7. ThreadsOK'
      BY <1>1, <1>2, <1>5, <1>6, ThreadsStay
<1>.  QED BY <1>3, <1>4, <1>7

LEMMA AddsKeeps ==
    ASSUME LabelSizes, LabelsInv, NEW t \in Threads, NEW api \in BOOLEAN, Mirror!Adds(t, api)
    PROVE  WorkersOK' /\ RunsOK' /\ ThreadsOK'
<1>1. LabelsTyped /\ WorkersOK /\ RunsOK /\ ThreadsOK
      BY DEF LabelsInv
<1>2. /\ UNCHANGED <<path, latest, name, made, carries, link, run>>
      /\ adding' = adding \ {<<t, api>>}
      /\ jobs' = [jobs EXCEPT ![t] = Mirror!Added(jobs[t], api)]
      /\ adrift' = IF jobs[t].at = "active" THEN adrift \cup {t} ELSE adrift
      BY DEF Mirror!Adds, Mirror!mailVars, Mirror!treeVars
<1>3. t \in JobIds /\ jobs[t] \in JobRows /\ jobs[t].at \in {"none", "waiting", "active"}
      BY <1>1 DEF JobIds, LabelsTyped, JobRows
<1>4. \A j \in JobIds : /\ jobs'[j].at = "active" <=> jobs[j].at = "active"
                        /\ jobs'[j].at # "none" => jobs'[j].left >= 1
                        /\ j # t => jobs'[j] = jobs[j]
      BY <1>1, <1>2, <1>3, AddedOne
<1>5. t \in adrift' \/ jobs'[t].at = "waiting"
      BY <1>1, <1>2, <1>3, AddedDoes DEF WorkersOK, LabelsTyped
<1>6. WorkersOK'
      BY <1>1, <1>2, <1>4, QueueKeepsWorkers
<1>7. RunsOK'
      BY <1>1, <1>2, QueueKeepsRuns DEF RunsOK, PathsOK
<1>8. \A u \in Threads : u # t /\ ~Pending(u)' => ~Pending(u) /\ jobs'[u] = jobs[u]
      BY <1>2, <1>4 DEF JobIds, Pending
<1>9. ThreadsOK'
      BY <1>1, <1>2, <1>5, <1>8, ThreadsStay
<1>.  QED BY <1>6, <1>7, <1>9

LEMMA LosesAddKeeps ==
    ASSUME LabelSizes, LabelsInv, NEW t \in Threads, NEW api \in BOOLEAN, Mirror!LosesAdd(t, api)
    PROVE  WorkersOK' /\ RunsOK' /\ ThreadsOK'
<1>1. LabelsTyped /\ WorkersOK /\ RunsOK /\ ThreadsOK
      BY DEF LabelsInv
<1>2. /\ UNCHANGED <<path, latest, name, made, carries, link, jobs, run>>
      /\ adding' = adding \ {<<t, api>>} /\ adrift' = adrift \cup {t}
      BY DEF Mirror!LosesAdd, Mirror!mailVars, Mirror!treeVars
<1>3. WorkersOK'
      BY <1>1, <1>2, QueueKeepsWorkers DEF WorkersOK
<1>4. RunsOK'
      BY <1>1, <1>2, QueueKeepsRuns DEF RunsOK, PathsOK
<1>5. \A u \in Threads \ adrift' : ~Pending(u)' => ~Pending(u) /\ u \notin adrift
      BY <1>2 DEF Pending
<1>6. ThreadsOK'
      BY <1>1, <1>2, <1>5, ThreadsStay
<1>.  QED BY <1>3, <1>4, <1>6

LEMMA SwitchKeeps ==
    ASSUME LabelSizes, LabelsInv, Mirror!Switch
    PROVE  WorkersOK' /\ RunsOK' /\ ThreadsOK'
<1>1. LabelsTyped /\ WorkersOK /\ RunsOK /\ ThreadsOK
      BY DEF LabelsInv
<1>2. /\ UNCHANGED <<path, latest, name, made, carries, link, adding, run, adrift>>
      /\ \/ jobs' = [jobs EXCEPT !["relabel"] = Mirror!Added(jobs["relabel"], TRUE)]
         \/ jobs' = jobs
      BY DEF Mirror!Switch, Mirror!mailVars
<1>3. "relabel" \in JobIds /\ jobs["relabel"] \in JobRows
      BY <1>1 DEF JobIds, LabelsTyped
<1>4. \A j \in JobIds : /\ jobs'[j].at = "active" <=> jobs[j].at = "active"
                        /\ jobs'[j].at # "none" => jobs'[j].left >= 1
                        /\ j # "relabel" => jobs'[j] = jobs[j]
      <2>1. CASE jobs' = jobs
            BY <1>1, <2>1 DEF WorkersOK
      <2>2. CASE jobs' = [jobs EXCEPT !["relabel"] = Mirror!Added(jobs["relabel"], TRUE)]
            BY <1>1, <1>3, <2>2, AddedOne
      <2>.  QED BY <1>2, <2>1, <2>2
<1>5. WorkersOK'
      BY <1>1, <1>2, <1>4, QueueKeepsWorkers
<1>6. RunsOK'
      BY <1>1, <1>2, QueueKeepsRuns DEF RunsOK, PathsOK
<1>7. \A t \in Threads : jobs'[t] = jobs[t] /\ (Pending(t)' <=> Pending(t))
      BY <1>2, <1>4 DEF JobIds, LabelSizes, Pending
<1>8. ThreadsOK'
      BY <1>1, <1>2, <1>7, ThreadsStay
<1>.  QED BY <1>5, <1>6, <1>8

-----------------------------------------------------------------------------
(* The jobs.                                                                 *)

LEMMA StartKeeps ==
    ASSUME LabelSizes, LabelsInv, NEW k \in Mirror!Workers, NEW j \in Mirror!Jobs(k),
           Mirror!Start(k, j)
    PROVE  WorkersOK' /\ RunsOK' /\ ThreadsOK'
<1>1. LabelsTyped /\ WorkersOK /\ RunsOK /\ ThreadsOK
      BY DEF LabelsInv
<1>2. /\ UNCHANGED <<path, latest, name, made, carries, link, adding>>
      /\ run[k].at = "idle" /\ jobs[j].at = "waiting"
      BY DEF Mirror!Start, Mirror!treeVars, Mirror!mailVars
<1>3. j \in JobIds /\ jobs[j] \in JobRows /\ run[k] \in RunRows
      BY <1>1, JobsAre DEF LabelsTyped
<1>4. \A t \in Threads : Pending(t)' <=> Pending(t)
      BY <1>2 DEF Pending
<1>5. CASE on
      <2>.  DEFINE r == [run[k] EXCEPT !.at = IF k = "writer" THEN "thread" ELSE "tree", !.job = j,
                                       !.then = IF j = "relabel" THEN "sweep" ELSE "done"]
      <2>1. run' = [run EXCEPT ![k] = r] /\ jobs' = [jobs EXCEPT ![j].at = "active"] /\ adrift' = adrift
            BY <1>1, <1>5 DEF Mirror!Start, LabelsTyped
      <2>2. /\ r.at = IF k = "writer" THEN "thread" ELSE "tree"
            /\ r.job = j /\ r.then = (IF j = "relabel" THEN "sweep" ELSE "done") /\ r.desired = run[k].desired
            BY <1>3 DEF RunRows
      <2>.  HIDE DEF r
      <2>3. /\ jobs'[j].at = "active" /\ jobs'[j].left = jobs[j].left
            /\ \A i \in JobIds \ {j} : jobs'[i] = jobs[i]
            BY <1>1, <1>3, <2>1 DEF LabelsTyped, JobRows
      <2>4. \A i \in JobIds : jobs'[i].at # "none" => jobs'[i].left >= 1
            BY <1>1, <1>2, <1>3, <2>3 DEF WorkersOK
      <2>5. WorkersOK'
            <3>1. r.at # "idle" /\ r.job \in Mirror!Jobs(k) /\ jobs'[r.job].at = "active"
                  BY <2>2, <2>3
            <3>2. \A i \in JobIds \ {r.job} : jobs'[i].at = "active" <=> jobs[i].at = "active"
                  BY <2>2, <2>3
            <3>3. k = "provisioner" => /\ r.at \notin {"thread", "reread", "apply"}
                                       /\ r.then = IF r.job = "relabel" THEN "sweep" ELSE "done"
                  BY <2>2
            <3>4. ~(k = "writer" /\ r.at \in Mapping \cup {"tree", "reread"})
                  BY <2>2 DEF Mapping
            <3>.  QED BY <1>1, <1>2, <2>1, <2>4, <3>1, <3>2, <3>3, <3>4, StepKeepsWorkers
      <2>6. RunsOK'
            <3>1. r.at \notin Mapping /\ r.at # "reread" /\ r.desired \subseteq Given
                  BY <1>1, <2>2 DEF Mapping, RunsOK, NamesOK
            <3>2. \A t \in Threads : \A l \in carries'[t] : name[l] # None
                  BY <1>1, <1>2 DEF RunsOK, NamesOK
            <3>.  QED BY <1>1, <1>2, <2>1, <3>1, <3>2, StepKeepsRuns
      <2>7. CASE k = "writer"
            <3>1. run'["writer"].at = "thread"
                  BY <1>1, <2>1, <2>2, <2>7 DEF LabelsTyped
            <3>2. \A t \in Threads : t # j => jobs'[t] = jobs[t]
                  BY <2>3 DEF JobIds
            <3>.  QED BY <1>1, <1>2, <1>4, <2>1, <2>3, <2>5, <2>6, <3>1, <3>2, ThreadsStay
      <2>8. CASE k = "provisioner"
            <3>1. run'["writer"] = run["writer"]
                  BY <1>1, <2>1, <2>8 DEF LabelsTyped
            <3>2. \A t \in Threads : jobs'[t] = jobs[t]
                  BY <2>3, <2>8, JobsAre DEF JobIds, LabelSizes
            <3>.  QED BY <1>1, <1>2, <1>4, <2>1, <2>5, <2>6, <3>1, <3>2, ThreadsStay
      <2>.  QED BY <2>7, <2>8 DEF Mirror!Workers
<1>6. CASE ~on
      <2>1. /\ jobs' = [jobs EXCEPT ![j] = Mirror!NoJob]
            /\ adrift' = adrift \cup (Threads \cap {j}) /\ run' = run
            BY <1>6 DEF Mirror!Start
      <2>2. jobs'[j].at = "none" /\ \A i \in JobIds \ {j} : jobs'[i] = jobs[i]
            BY <1>1, <1>3, <2>1, NoJobDoes DEF LabelsTyped
      <2>3. WorkersOK'
            <3>1. \A i \in JobIds : /\ jobs'[i].at = "active" <=> jobs[i].at = "active"
                                    /\ jobs'[i].at # "none" => jobs'[i].left >= 1
                  BY <1>1, <1>2, <2>2 DEF WorkersOK
            <3>.  QED BY <1>1, <2>1, <3>1, QueueKeepsWorkers
      <2>4. RunsOK'
            BY <1>1, <1>2, <2>1, QueueKeepsRuns DEF RunsOK, PathsOK
      <2>5. \A t \in Threads \ adrift' : t \notin adrift /\ jobs'[t] = jobs[t]
            BY <2>1, <2>2 DEF JobIds
      <2>.  QED BY <1>1, <1>2, <1>4, <2>1, <2>3, <2>4, <2>5, ThreadsStay
<1>.  QED BY <1>5, <1>6

\* The writer reads its thread, which is in hand from then on.
LEMMA ReadsThreadKeeps ==
    ASSUME LabelSizes, LabelsInv, Mirror!ReadsThread
    PROVE  WorkersOK' /\ RunsOK' /\ ThreadsOK'
<1>1. LabelsTyped /\ WorkersOK /\ RunsOK /\ ThreadsOK
      BY DEF LabelsInv
<1>2. PICK w : w = "writer"
      OBVIOUS
<1>3. w \in Mirror!Workers /\ run[w] \in RunRows /\ run[w].at = "thread"
      BY <1>1, <1>2 DEF LabelsTyped, Mirror!Workers, Mirror!ReadsThread
<1>4. PICK t : t = run[w].job
      OBVIOUS
<1>5. t \in Threads /\ t \in JobIds /\ jobs[t].at = "active"
      BY <1>1, <1>2, <1>3, <1>4, JobsAre DEF WorkersOK
<1>6. PICK f \in Folders \cup {None} : f = latest[t]
      BY <1>1, <1>5 DEF LabelsTyped
<1>7. PICK at : at = IF f # None /\ ~Mirror!Linked(f) THEN "tree" ELSE "apply"
      OBVIOUS
<1>.  DEFINE r == [run[w] EXCEPT !.folder = f, !.managed = Mirror!Managed,
                                 !.desired = Mirror!Wanted(f), !.at = at, !.then = "reread"]
<1>8. run' = [run EXCEPT ![w] = r] /\ adrift' = adrift \ {t}
      BY <1>1, <1>2, <1>4, <1>6, <1>7 DEF Mirror!ReadsThread, LabelsTyped
<1>9. UNCHANGED <<path, latest, name, made, carries, link, adding, jobs>>
      BY DEF Mirror!ReadsThread, Mirror!treeVars, Mirror!mailVars
<1>10. /\ r.folder = f /\ r.managed = Mirror!Managed /\ r.desired = Mirror!Wanted(f) /\ r.at = at
       /\ r.then = "reread" /\ r.job = t
      BY <1>3, <1>4 DEF RunRows
<1>.  HIDE DEF r
<1>11. run'[w] = r
      BY <1>1, <1>3, <1>8 DEF LabelsTyped
<1>12. WorkersOK'
      <2>1. r.at # "idle" /\ r.job \in Mirror!Jobs(w) /\ run[w].job = r.job /\ w # "provisioner"
            BY <1>2, <1>4, <1>5, <1>7, <1>10, JobsAre
      <2>2. r.at \in Mapping \cup {"tree", "reread"} => r.then = "reread" /\ r.folder \in Folders
            BY <1>6, <1>7, <1>10 DEF Mapping
      <2>3. jobs'[r.job].at = "active" /\ \A i \in JobIds : jobs'[i] = jobs[i]
            BY <1>5, <1>9, <1>10
      <2>4. \A i \in JobIds : jobs'[i].at # "none" => jobs'[i].left >= 1
            BY <1>1, <1>9 DEF WorkersOK
      <2>.  QED BY <1>1, <1>3, <1>8, <2>1, <2>2, <2>3, <2>4, StepKeepsWorkers
<1>13. Mirror!Wanted(f) \subseteq Given
      BY <1>1, <1>6 DEF RunsOK, KeptOK, Mirror!Wanted, Mirror!Linked
<1>14. RunsOK'
      <2>1. r.at \notin Mapping /\ r.at # "reread" /\ r.desired \subseteq Given
            BY <1>7, <1>10, <1>13 DEF Mapping
      <2>2. \A u \in Threads : \A l \in carries'[u] : name[l] # None
            BY <1>1, <1>9 DEF RunsOK, NamesOK
      <2>.  QED BY <1>1, <1>3, <1>8, <1>9, <2>1, <2>2, StepKeepsRuns
<1>15. InHand(t)'
      <2>1. Mirror!Wanted(f)' = Mirror!Wanted(f) /\ Mirror!Managed' = Mirror!Managed
            BY <1>9 DEF Mirror!Wanted, Mirror!Managed, Mirror!Linked
      <2>2. Mirror!Linked(f)' = Mirror!Linked(f)
            BY <1>9 DEF Mirror!Linked
      <2>3. /\ run'["writer"].folder = f /\ run'["writer"].managed = Mirror!Managed
            /\ run'["writer"].desired = Mirror!Wanted(f) /\ run'["writer"].at = at
            BY <1>2, <1>10, <1>11
      <2>4. latest'[t] = f
            BY <1>6, <1>9
      <2>5. at = "apply" => (f # None => Mirror!Linked(f))
            BY <1>7
      <2>.  QED BY <2>1, <2>2, <2>3, <2>4, <2>5 DEF InHand, Mirror!Wanted, Mirror!Linked
<1>16. \A u \in Threads : u # t => jobs[u].at # "active"
      BY <1>1, <1>2, <1>4, WritersThread
<1>17. \A u \in Threads : Pending(u)' <=> Pending(u)
      BY <1>9 DEF Pending
<1>18. \A u \in Threads \ adrift' : u # t => u \notin adrift
      BY <1>8
<1>.  QED BY <1>1, <1>5, <1>9, <1>12, <1>14, <1>15, <1>16, <1>17, <1>18, ThreadsStay

LEMMA RereadsKeeps ==
    ASSUME LabelSizes, LabelsInv, Mirror!Rereads
    PROVE  WorkersOK' /\ RunsOK' /\ ThreadsOK'
<1>1. LabelsTyped /\ WorkersOK /\ RunsOK /\ ThreadsOK
      BY DEF LabelsInv
<1>2. PICK w : w = "writer"
      OBVIOUS
<1>3. w \in Mirror!Workers /\ run[w] \in RunRows /\ run[w].at = "reread"
      BY <1>1, <1>2 DEF LabelsTyped, Mirror!Workers, Mirror!Rereads
<1>4. PICK t : t = run[w].job
      OBVIOUS
<1>5. t \in Threads /\ t \in JobIds /\ jobs[t].at = "active"
      BY <1>1, <1>2, <1>3, <1>4, JobsAre DEF WorkersOK
<1>6. PICK f \in Folders : f = run[w].folder
      BY <1>1, <1>2, <1>3 DEF WorkersOK, BusyWriter
<1>7. run[w].then = "reread"
      BY <1>1, <1>2, <1>3 DEF WorkersOK, BusyWriter
<1>8. Mirror!Linked(f)
      BY <1>1, <1>3, <1>6 DEF RunsOK, HasDone, Mirror!Linked
<1>.  DEFINE r == [run[w] EXCEPT !.at = "apply", !.desired = Mirror!Wanted(f),
                                 !.managed = run[w].managed \cup Mirror!Wanted(f)]
<1>9. run' = [run EXCEPT ![w] = r]
      BY <1>1, <1>2, <1>6 DEF Mirror!Rereads, LabelsTyped
<1>10. UNCHANGED <<path, latest, name, made, carries, link, adding, jobs, adrift>>
      BY DEF Mirror!Rereads, Mirror!treeVars, Mirror!mailVars
<1>11. /\ r.folder = f /\ r.managed = run[w].managed \cup Mirror!Wanted(f)
       /\ r.desired = Mirror!Wanted(f) /\ r.at = "apply" /\ r.job = t
      BY <1>3, <1>4, <1>6 DEF RunRows
<1>.  HIDE DEF r
<1>12. run'[w] = r
      BY <1>1, <1>3, <1>9 DEF LabelsTyped
<1>13. WorkersOK'
      <2>1. r.at # "idle" /\ r.job \in Mirror!Jobs(w) /\ run[w].job = r.job /\ w # "provisioner"
            BY <1>2, <1>4, <1>5, <1>11, JobsAre
      <2>2. r.at \notin Mapping \cup {"tree", "reread"}
            BY <1>11 DEF Mapping
      <2>3. jobs'[r.job].at = "active" /\ \A i \in JobIds : jobs'[i] = jobs[i]
            BY <1>5, <1>10, <1>11
      <2>4. \A i \in JobIds : jobs'[i].at # "none" => jobs'[i].left >= 1
            BY <1>1, <1>10 DEF WorkersOK
      <2>.  QED BY <1>1, <1>3, <1>9, <2>1, <2>2, <2>3, <2>4, StepKeepsWorkers
<1>14. Mirror!Wanted(f) \subseteq Given
      BY <1>1, <1>6 DEF RunsOK, KeptOK, Mirror!Wanted, Mirror!Linked
<1>15. RunsOK'
      <2>1. r.at \notin Mapping /\ r.at # "reread" /\ r.desired \subseteq Given
            BY <1>11, <1>14 DEF Mapping
      <2>2. \A u \in Threads : \A l \in carries'[u] : name[l] # None
            BY <1>1, <1>10 DEF RunsOK, NamesOK
      <2>.  QED BY <1>1, <1>3, <1>9, <1>10, <2>1, <2>2, StepKeepsRuns
<1>16. ASSUME t \notin adrift, ~Pending(t) PROVE InHand(t)'
      <2>1. InHand(t)
            BY <1>1, <1>2, <1>3, <1>5, <1>16 DEF ThreadsOK
      <2>2. latest'[t] = f
            BY <1>2, <1>6, <1>10, <2>1 DEF InHand
      <2>3. carries[t] \cap Mirror!Managed \subseteq run[w].managed \cup Mirror!Wanted(f)
            BY <1>2, <1>3, <1>6, <1>7, <2>1 DEF InHand, BusyWriter
      <2>4. Mirror!Wanted(f)' = Mirror!Wanted(f) /\ Mirror!Managed' = Mirror!Managed
            BY <1>10 DEF Mirror!Wanted, Mirror!Managed, Mirror!Linked
      <2>5. Mirror!Linked(f)'
            BY <1>8, <1>10 DEF Mirror!Linked
      <2>6. PICK m : m = run[w].managed \cup Mirror!Wanted(f)
            OBVIOUS
      <2>7. /\ run'["writer"].folder = f /\ run'["writer"].managed = m
            /\ run'["writer"].desired = Mirror!Wanted(f) /\ run'["writer"].at = "apply"
            BY <1>2, <1>11, <1>12, <2>6
      <2>8. carries'[t] \cap Mirror!Managed' \subseteq m \cup Mirror!Wanted(f)
            BY <1>10, <2>3, <2>4, <2>6
      <2>9. ~BusyWriter'
            BY <2>7 DEF BusyWriter, Mapping
      <2>.  QED BY <2>2, <2>4, <2>5, <2>7, <2>8, <2>9 DEF InHand, Mirror!Wanted, Mirror!Linked
<1>17. \A u \in Threads : u # t => jobs[u].at # "active"
      BY <1>1, <1>2, <1>4, WritersThread
<1>18. \A u \in Threads : Pending(u)' <=> Pending(u)
      BY <1>10 DEF Pending
<1>.  QED BY <1>1, <1>5, <1>10, <1>13, <1>15, <1>16, <1>17, <1>18, ThreadsStay

\* The labels are written, or one that is wanted is gone and the run heals.
LEMMA AppliesKeeps ==
    ASSUME LabelSizes, LabelsInv, Mirror!Applies
    PROVE  WorkersOK' /\ RunsOK' /\ ThreadsOK'
<1>1. LabelsTyped /\ WorkersOK /\ RunsOK /\ ThreadsOK
      BY DEF LabelsInv
<1>2. PICK w : w = "writer"
      OBVIOUS
<1>3. w \in Mirror!Workers /\ run[w] \in RunRows /\ run[w].at = "apply"
      BY <1>1, <1>2 DEF LabelsTyped, Mirror!Workers, Mirror!Applies
<1>4. PICK t : t = run[w].job
      OBVIOUS
<1>5. t \in Threads /\ t \in JobIds /\ jobs[t].at = "active"
      BY <1>1, <1>2, <1>3, <1>4, JobsAre DEF WorkersOK
<1>6. UNCHANGED <<path, latest, name, made, link, adding, adrift>>
      BY DEF Mirror!Applies, Mirror!treeVars
<1>7. PICK d : d = run[w].desired
      OBVIOUS
<1>8. d \subseteq Mirror!Labels
      BY <1>3, <1>7 DEF RunRows
<1>9. \A u \in Threads : u # t => jobs[u].at # "active"
      BY <1>1, <1>2, <1>4, WritersThread
<1>10. \A u \in Threads : Pending(u)' <=> Pending(u)
       BY <1>6 DEF Pending
<1>11. \A u \in Threads : \A l \in carries[u] : name[l] # None
       BY <1>1 DEF RunsOK, NamesOK
<1>12. CASE \E l \in d \ carries[t] : ~Mirror!Exists(l)
       <2>.  DEFINE r == Mirror!Heal(run[w])
       <2>1. run' = [run EXCEPT ![w] = r] /\ UNCHANGED <<jobs, carries>>
             BY <1>2, <1>4, <1>7, <1>12 DEF Mirror!Applies
       <2>2. /\ r.at = "tree" /\ r.then = "throw" /\ r.job = t /\ r.folder = run[w].folder
             /\ r.desired = d
             BY <1>3, <1>4, <1>7 DEF RunRows, Mirror!Heal
       <2>.  HIDE DEF r
       <2>3. run'[w] = r
             BY <1>1, <1>3, <2>1 DEF LabelsTyped
       <2>4. WorkersOK'
             <3>1. r.at # "idle" /\ r.job \in Mirror!Jobs(w) /\ run[w].job = r.job /\ w # "provisioner"
                   BY <1>2, <1>4, <1>5, <2>2, JobsAre
             <3>2. r.then = "throw" /\ r.at # "reread"
                   BY <2>2
             <3>3. jobs'[r.job].at = "active" /\ \A i \in JobIds : jobs'[i] = jobs[i]
                   BY <1>5, <2>1, <2>2
             <3>4. \A i \in JobIds : jobs'[i].at # "none" => jobs'[i].left >= 1
                   BY <1>1, <2>1 DEF WorkersOK
             <3>.  QED BY <1>1, <1>3, <2>1, <3>1, <3>2, <3>3, <3>4, StepKeepsWorkers
       <2>5. RunsOK'
             <3>1. r.at \notin Mapping /\ r.at # "reread" /\ r.desired \subseteq Given
                   BY <1>1, <1>3, <1>7, <2>2 DEF Mapping, RunsOK, NamesOK
             <3>2. \A u \in Threads : \A l \in carries'[u] : name[l] # None
                   BY <1>11, <2>1
             <3>.  QED BY <1>1, <1>3, <1>6, <2>1, <3>1, <3>2, StepKeepsRuns
       <2>6. ASSUME t \notin adrift, ~Pending(t) PROVE InHand(t)'
             <3>1. InHand(t)
                   BY <1>1, <1>2, <1>3, <1>5, <2>6 DEF ThreadsOK
             <3>2. run'["writer"].at = "tree" /\ run'["writer"].then = "throw"
                   BY <1>2, <2>2, <2>3
             <3>3. run'["writer"].folder = latest'[t]
                   BY <1>2, <1>6, <2>2, <2>3, <3>1 DEF InHand
             <3>.  QED BY <3>2, <3>3 DEF InHand
       <2>.  QED BY <1>1, <1>5, <1>6, <1>9, <1>10, <2>1, <2>4, <2>5, <2>6, ThreadsStay
<1>13. CASE ~ \E l \in d \ carries[t] : ~Mirror!Exists(l)
       <2>.  DEFINE now == (carries[t] \ ((carries[t] \cap run[w].managed) \ d)) \cup (d \ carries[t])
       <2>1. /\ Mirror!Done("writer")
             /\ carries' = [carries EXCEPT ![t] = now]
             BY <1>2, <1>4, <1>7, <1>13 DEF Mirror!Applies, Mirror!Removal
       <2>2. jobs' = [jobs EXCEPT ![t] = Mirror!NoJob] /\ run' = [run EXCEPT ![w] = Mirror!Idle]
             BY <1>2, <1>4, <2>1 DEF Mirror!Done
       <2>3. carries'[t] = now /\ \A u \in Threads \ {t} : carries'[u] = carries[u]
             BY <1>1, <1>5, <2>1 DEF LabelsTyped
       <2>4. jobs'[t].at = "none" /\ \A i \in JobIds \ {t} : jobs'[i] = jobs[i]
             BY <1>1, <1>5, <2>2, NoJobDoes DEF LabelsTyped
       <2>5. WorkersOK'
             <3>1. \A i \in JobIds : jobs'[i].at # "none" => jobs'[i].left >= 1
                   BY <1>1, <2>4 DEF WorkersOK
             <3>2. run[w].at # "idle" /\ jobs'[t].at # "active"
                   BY <1>3, <2>4
             <3>3. \A i \in JobIds \ {t} : jobs'[i].at = "active" <=> jobs[i].at = "active"
                   BY <2>4
             <3>4. w \in Mirror!Workers /\ t = run[w].job
                   BY <1>3, <1>4
             <3>5. run' = [run EXCEPT ![w] = Mirror!Idle]
                   BY <2>2
             <3>.  QED BY Zenon, <1>1, <3>1, <3>2, <3>3, <3>4, <3>5, EndKeepsWorkers
       <2>6. \A l \in now : name[l] # None
             BY <1>5, <1>11, <1>13 DEF Mirror!Exists
       <2>7. RunsOK'
             <3>1. \A u \in Threads : \A l \in carries'[u] : name[l] # None
                   BY <1>11, <2>3, <2>6
             <3>.  QED BY <1>1, <1>3, <1>6, <2>2, <3>1, EndKeepsRuns
       <2>8. ASSUME t \notin adrift, ~Pending(t) PROVE Settled(t)'
             <3>1. InHand(t)
                   BY <1>1, <1>2, <1>3, <1>5, <2>8 DEF ThreadsOK
             <3>2. PICK f \in Folders \cup {None} : f = latest[t] /\ f = run[w].folder
                   BY <1>1, <1>2, <1>5, <3>1 DEF InHand, LabelsTyped
             <3>3. ~ \E l \in d : name[l] = None
                   BY <1>5, <1>11, <1>13 DEF Mirror!Exists
             <3>4. /\ f # None => Mirror!Linked(f)
                   /\ d = Mirror!Wanted(f)
                   /\ carries[t] \cap Mirror!Managed \subseteq run[w].managed \cup d
                   BY <1>2, <1>3, <1>7, <3>1, <3>2, <3>3 DEF InHand
             <3>5. d \subseteq Mirror!Managed
                   BY <1>1, <3>2, <3>4, WantedTyped
             <3>6. now \cap Mirror!Managed = d
                   BY <3>4, <3>5
             <3>7. /\ Mirror!Managed' = Mirror!Managed /\ Mirror!Wanted(f)' = Mirror!Wanted(f)
                   /\ Mirror!Linked(f)' = Mirror!Linked(f)
                   BY <1>6 DEF Mirror!Managed, Mirror!Wanted, Mirror!Linked
             <3>8. carries'[t] \cap Mirror!Managed' = Mirror!Wanted(f)'
                   BY <2>3, <3>4, <3>6, <3>7
             <3>9. latest'[t] = f /\ (f # None => Mirror!Linked(f)')
                   BY <1>6, <3>2, <3>4, <3>7
             <3>.  QED BY <3>8, <3>9 DEF Settled, Mirror!Wanted, Mirror!Linked
       <2>9. \A u \in Threads \ {t} : jobs'[u] = jobs[u]
             BY <2>4 DEF JobIds
       <2>.  QED BY <1>1, <1>6, <1>9, <1>10, <2>3, <2>4, <2>5, <2>7, <2>8, <2>9, ThreadsStay
<1>.  QED BY <1>12, <1>13

\* An attempt is over and its thread, if it has one, is set apart or waits again.
LEMMA EndKeepsThreads ==
    ASSUME LabelSizes, LabelsInv, NEW k \in Mirror!Workers, run[k].at # "idle",
           run' = [run EXCEPT ![k] = Mirror!Idle], UNCHANGED <<latest, carries, link, name, adding>>,
           NEW j, j = run[k].job, adrift \subseteq adrift',
           j \in Threads => j \in adrift' \/ jobs'[j].at = "waiting",
           \A t \in Threads \ {j} : jobs'[t] = jobs[t]
    PROVE  ThreadsOK'
<1>1. LabelsTyped /\ WorkersOK /\ ThreadsOK
      BY DEF LabelsInv
<1>2. \A t \in Threads : Pending(t)' <=> Pending(t)
      BY DEF Pending
<1>3. CASE k = "writer"
      <2>1. \A t \in Threads : jobs[t].at = "active" => t = j
            BY <1>1, <1>3, WritersThread
      <2>.  QED BY <1>1, <1>2, <2>1, ThreadsStay
<1>4. CASE k = "provisioner"
      <2>1. run'["writer"] = run["writer"]
            BY <1>1, <1>4 DEF LabelsTyped
      <2>.  QED BY <1>1, <1>2, <2>1, ThreadsStay
<1>.  QED BY <1>3, <1>4 DEF Mirror!Workers

LEMMA ThrowKeeps ==
    ASSUME LabelSizes, LabelsInv, NEW k \in Mirror!Workers, run[k].at # "idle", Mirror!Throw(k),
           UNCHANGED <<path, latest, name, made, carries, link, adding>>
    PROVE  WorkersOK' /\ RunsOK' /\ ThreadsOK'
<1>1. LabelsTyped /\ WorkersOK /\ RunsOK /\ ThreadsOK
      BY DEF LabelsInv
<1>2. PICK j : j = run[k].job
      OBVIOUS
<1>3. j \in JobIds /\ jobs[j] \in JobRows /\ jobs[j].at = "active" /\ jobs[j].left >= 1
      BY <1>1, <1>2, JobsAre DEF WorkersOK, LabelsTyped
<1>4. PICK q : q = IF jobs[j].left > 1 THEN [jobs[j] EXCEPT !.at = "waiting", !.left = jobs[j].left - 1]
                   ELSE Mirror!NoJob
      OBVIOUS
<1>5. /\ jobs' = [jobs EXCEPT ![j] = q]
      /\ adrift' = IF jobs[j].left = 1 THEN adrift \cup (Threads \cap {j}) ELSE adrift
      /\ run' = [run EXCEPT ![k] = Mirror!Idle]
      BY <1>2, <1>4 DEF Mirror!Throw
<1>6. /\ q.at \in {"none", "waiting"} /\ (q.at # "none" => q.left >= 1)
      /\ jobs[j].left # 1 => q.at = "waiting"
      BY <1>3, <1>4, NoJobDoes DEF JobRows
<1>7. jobs'[j] = q /\ \A i \in JobIds \ {j} : jobs'[i] = jobs[i]
      BY <1>1, <1>3, <1>5 DEF LabelsTyped
<1>8. WorkersOK'
      <2>1. \A i \in JobIds : jobs'[i].at # "none" => jobs'[i].left >= 1
            BY <1>1, <1>6, <1>7 DEF WorkersOK
      <2>2. jobs'[j].at # "active"
            BY <1>6, <1>7
      <2>3. \A i \in JobIds \ {j} : jobs'[i].at = "active" <=> jobs[i].at = "active"
            BY <1>7
      <2>4. run' = [run EXCEPT ![k] = Mirror!Idle]
            BY <1>5
      <2>.  QED BY Zenon, <1>1, <1>2, <2>1, <2>2, <2>3, <2>4, EndKeepsWorkers
<1>9. RunsOK'
      <2>1. \A t \in Threads : \A l \in carries'[t] : name[l] # None
            BY <1>1 DEF RunsOK, NamesOK
      <2>.  QED BY <1>1, <1>5, <2>1, EndKeepsRuns
<1>10. ThreadsOK'
      <2>1. adrift \subseteq adrift' /\ (j \in Threads => j \in adrift' \/ jobs'[j].at = "waiting")
            BY <1>5, <1>6, <1>7
      <2>2. \A t \in Threads \ {j} : jobs'[t] = jobs[t]
            BY <1>7 DEF JobIds
      <2>3. run' = [run EXCEPT ![k] = Mirror!Idle]
            BY <1>5
      <2>.  QED BY Zenon, <1>2, <2>1, <2>2, <2>3, EndKeepsThreads
<1>.  QED BY <1>8, <1>9, <1>10

\* An attempt that is done, its thread, if it has one, set apart.
LEMMA DoneKeeps ==
    ASSUME LabelSizes, LabelsInv, NEW k \in Mirror!Workers, run[k].at # "idle", Mirror!Done(k),
           NEW j, j = run[k].job, adrift \subseteq adrift', j \in Threads => j \in adrift',
           UNCHANGED <<path, latest, name, made, carries, link, adding>>
    PROVE  WorkersOK' /\ RunsOK' /\ ThreadsOK'
<1>1. LabelsTyped /\ WorkersOK /\ RunsOK /\ ThreadsOK
      BY DEF LabelsInv
<1>2. j \in JobIds
      BY <1>1, JobsAre DEF WorkersOK
<1>3. jobs' = [jobs EXCEPT ![j] = Mirror!NoJob] /\ run' = [run EXCEPT ![k] = Mirror!Idle]
      BY DEF Mirror!Done
<1>4. jobs'[j].at = "none" /\ \A i \in JobIds \ {j} : jobs'[i] = jobs[i]
      BY <1>1, <1>2, <1>3, NoJobDoes DEF LabelsTyped
<1>5. WorkersOK'
      <2>1. \A i \in JobIds : jobs'[i].at # "none" => jobs'[i].left >= 1
            BY <1>1, <1>4 DEF WorkersOK
      <2>.  QED BY <1>1, <1>3, <1>4, <2>1, EndKeepsWorkers
<1>6. RunsOK'
      <2>1. \A t \in Threads : \A l \in carries'[t] : name[l] # None
            BY <1>1 DEF RunsOK, NamesOK
      <2>.  QED BY <1>1, <1>3, <2>1, EndKeepsRuns
<1>7. ThreadsOK'
      <2>1. \A t \in Threads \ {j} : jobs'[t] = jobs[t]
            BY <1>4 DEF JobIds
      <2>2. run' = [run EXCEPT ![k] = Mirror!Idle]
            BY <1>3
      <2>.  QED BY Zenon, <2>1, <2>2, EndKeepsThreads
<1>.  QED BY <1>5, <1>6, <1>7

\* A relabelling adds a job per thread that has a folder.
LEMMA SweepKeeps ==
    ASSUME LabelSizes, LabelsInv, NEW k \in Mirror!Workers, k = "provisioner", run[k].at # "idle",
           run[k].then = "sweep", Mirror!Provisioned(k)
    PROVE  WorkersOK' /\ RunsOK' /\ ThreadsOK'
<1>1. LabelsTyped /\ WorkersOK /\ RunsOK /\ ThreadsOK
      BY DEF LabelsInv
<1>2. run[k].job = "relabel" /\ "relabel" \in JobIds
      BY <1>1 DEF WorkersOK, JobIds
<1>3. /\ jobs' = [i \in DOMAIN jobs |->
                    IF i = "relabel" THEN Mirror!NoJob
                    ELSE IF i \in Threads /\ latest[i] # None THEN Mirror!Added(jobs[i], FALSE)
                    ELSE jobs[i]]
      /\ run' = [run EXCEPT ![k] = Mirror!Idle]
      /\ UNCHANGED <<path, latest, name, made, carries, link, adding, adrift>>
      BY DEF Mirror!Provisioned, Mirror!treeVars, Mirror!mailVars
<1>4. \A i \in JobIds : jobs'[i] = IF i = "relabel" THEN Mirror!NoJob
                                   ELSE IF i \in Threads /\ latest[i] # None THEN Mirror!Added(jobs[i], FALSE)
                                   ELSE jobs[i]
      BY <1>1, <1>3 DEF LabelsTyped
<1>5. ASSUME NEW i \in JobIds, i # "relabel"
      PROVE  /\ jobs'[i].at = "active" <=> jobs[i].at = "active"
             /\ jobs'[i].at # "none" => jobs'[i].left >= 1
             /\ jobs'[i] = jobs[i] \/ jobs'[i].at = "waiting"
      <2>1. jobs[i] \in JobRows /\ (jobs[i].at # "none" => jobs[i].left >= 1)
            BY <1>1 DEF LabelsTyped, WorkersOK
      <2>2. CASE jobs'[i] = jobs[i]
            BY <2>1, <2>2
      <2>3. CASE jobs'[i] = Mirror!Added(jobs[i], FALSE)
            <3>1. PICK q : q = Mirror!Added(jobs[i], FALSE)
                  OBVIOUS
            <3>2. /\ jobs[i].at = "none" => q.at = "waiting"
                  /\ jobs[i].at # "none" => q = jobs[i]
                  /\ q.left >= 1
                  BY <2>1, <3>1, AddedDoes
            <3>.  QED BY <2>3, <3>1, <3>2
      <2>.  QED BY <1>4, <1>5, <2>2, <2>3
<1>6. jobs'["relabel"].at = "none"
      BY <1>2, <1>4, NoJobDoes
<1>7. WorkersOK'
      <2>1. \A i \in JobIds : jobs'[i].at # "none" => jobs'[i].left >= 1
            BY <1>5, <1>6
      <2>2. \A i \in JobIds \ {"relabel"} : jobs'[i].at = "active" <=> jobs[i].at = "active"
            BY <1>5
      <2>.  QED BY <1>1, <1>2, <1>3, <1>6, <2>1, <2>2, EndKeepsWorkers
<1>8. RunsOK'
      <2>1. \A t \in Threads : \A l \in carries'[t] : name[l] # None
            BY <1>1, <1>3 DEF RunsOK, NamesOK
      <2>.  QED BY <1>1, <1>3, <2>1, EndKeepsRuns
<1>9. ThreadsOK'
      <2>1. \A t \in Threads : Pending(t)' <=> Pending(t)
            BY <1>3 DEF Pending
      <2>2. \A t \in Threads : jobs'[t] = jobs[t] \/ jobs'[t].at = "waiting"
            BY <1>5 DEF JobIds, LabelSizes
      <2>3. run'["writer"] = run["writer"]
            BY <1>1, <1>3 DEF LabelsTyped
      <2>.  QED BY <1>1, <1>3, <2>1, <2>2, <2>3, ThreadsStay
<1>.  QED BY <1>7, <1>8, <1>9

\* The writer that had no link goes back to its thread.
LEMMA BackKeeps ==
    ASSUME LabelSizes, LabelsInv, NEW k \in Mirror!Workers, run[k].then = "reread",
           Mirror!Provisioned(k)
    PROVE  WorkersOK' /\ RunsOK' /\ ThreadsOK'
<1>1. LabelsTyped /\ WorkersOK /\ RunsOK /\ ThreadsOK
      BY DEF LabelsInv
<1>2. run[k] \in RunRows /\ run[k].at = "records" /\ run[k].todo = {}
      BY <1>1 DEF LabelsTyped, Mirror!Provisioned
<1>3. k = "writer"
      <2>1. k # "provisioner"
            BY <1>1, <1>2 DEF WorkersOK
      <2>.  QED BY <2>1 DEF Mirror!Workers
<1>4. PICK t : t = run[k].job
      OBVIOUS
<1>5. t \in Threads /\ t \in JobIds /\ jobs[t].at = "active"
      BY <1>1, <1>2, <1>3, <1>4, JobsAre DEF WorkersOK
<1>6. PICK f \in Folders : f = run[k].folder
      BY <1>1, <1>2, <1>3 DEF WorkersOK, BusyWriter, Mapping
<1>7. link[f].label # None
      BY <1>1, <1>2 DEF RunsOK, HasDone
<1>.  DEFINE r == [run[k] EXCEPT !.at = "reread", !.paths = <<>>, !.seen = <<>>]
<1>8. /\ run' = [run EXCEPT ![k] = r]
      /\ UNCHANGED <<path, latest, name, made, carries, link, adding, jobs, adrift>>
      BY <1>1 DEF Mirror!Provisioned, Mirror!treeVars, Mirror!mailVars, LabelsTyped
<1>9. /\ r.at = "reread" /\ r.then = "reread" /\ r.job = t /\ r.folder = f
      /\ r.desired = run[k].desired /\ r.managed = run[k].managed
      BY <1>2, <1>4, <1>6 DEF RunRows
<1>.  HIDE DEF r
<1>10. run'[k] = r
       BY <1>1, <1>8 DEF LabelsTyped
<1>11. WorkersOK'
       <2>1. r.at # "idle" /\ r.job \in Mirror!Jobs(k) /\ run[k].job = r.job /\ k # "provisioner"
             BY <1>3, <1>4, <1>5, <1>9, JobsAre
       <2>2. r.then = "reread" /\ r.folder \in Folders
             BY <1>9
       <2>3. jobs'[r.job].at = "active" /\ \A i \in JobIds : jobs'[i] = jobs[i]
             BY <1>5, <1>8, <1>9
       <2>4. \A i \in JobIds : jobs'[i].at # "none" => jobs'[i].left >= 1
             BY <1>1, <1>8 DEF WorkersOK
       <2>.  QED BY <1>1, <1>8, <2>1, <2>2, <2>3, <2>4, StepKeepsWorkers
<1>12. RunsOK'
       <2>1. r.at \notin Mapping /\ link[r.folder].label # None /\ r.desired \subseteq Given
             BY <1>1, <1>7, <1>9 DEF Mapping, RunsOK, NamesOK
       <2>2. \A u \in Threads : \A l \in carries'[u] : name[l] # None
             BY <1>1, <1>8 DEF RunsOK, NamesOK
       <2>.  QED BY <1>1, <1>8, <2>1, <2>2, StepKeepsRuns
<1>13. ASSUME t \notin adrift, ~Pending(t) PROVE InHand(t)'
       <2>1. InHand(t)
             BY <1>1, <1>2, <1>3, <1>5, <1>13 DEF ThreadsOK
       <2>2. latest'[t] = f
             BY <1>3, <1>6, <1>8, <2>1 DEF InHand
       <2>3. carries[t] \cap Mirror!Managed \subseteq run[k].managed \cup Mirror!Wanted(f)
             BY <1>2, <1>3, <1>6, <2>1 DEF InHand, BusyWriter, Mapping
       <2>4. Mirror!Wanted(f)' = Mirror!Wanted(f) /\ Mirror!Managed' = Mirror!Managed
             BY <1>8 DEF Mirror!Wanted, Mirror!Managed, Mirror!Linked
       <2>5. PICK m : m = run[k].managed
             OBVIOUS
       <2>6. /\ run'["writer"].folder = f /\ run'["writer"].managed = m
             /\ run'["writer"].at = "reread"
             BY <1>3, <1>9, <1>10, <2>5
       <2>7. carries'[t] \cap Mirror!Managed' \subseteq m \cup Mirror!Wanted(f)'
             BY <1>8, <2>3, <2>4, <2>5
       <2>.  QED BY <2>2, <2>6, <2>7 DEF InHand, Mirror!Wanted, Mirror!Linked
<1>14. \A u \in Threads : u # t => jobs[u].at # "active"
       BY <1>1, <1>3, <1>4, WritersThread
<1>15. \A u \in Threads : Pending(u)' <=> Pending(u)
       BY <1>8 DEF Pending
<1>.  QED BY <1>1, <1>5, <1>8, <1>11, <1>12, <1>13, <1>14, <1>15, ThreadsStay

LEMMA ProvisionedKeeps ==
    ASSUME LabelSizes, LabelsInv, NEW k \in Mirror!Workers, Mirror!Provisioned(k)
    PROVE  WorkersOK' /\ RunsOK' /\ ThreadsOK'
<1>1. LabelsTyped /\ WorkersOK
      BY DEF LabelsInv
<1>2. /\ run[k].at = "records" /\ run[k].at # "idle"
      /\ UNCHANGED <<path, latest, name, made, carries, link, adding>>
      BY DEF Mirror!Provisioned, Mirror!treeVars, Mirror!mailVars
<1>3. run[k].then \in {"done", "sweep", "reread", "throw"}
      BY <1>1 DEF LabelsTyped, RunRows
<1>4. run[k].then \in {"done", "sweep"} => k = "provisioner"
      <2>1. run[k].then \in {"done", "sweep"} => k # "writer"
            BY <1>1, <1>2 DEF WorkersOK, BusyWriter, Mapping
      <2>.  QED BY <2>1 DEF Mirror!Workers
<1>5. CASE run[k].then = "done"
      <2>1. Mirror!Done(k) /\ adrift' = adrift
            BY <1>5 DEF Mirror!Provisioned
      <2>2. run[k].job \notin Threads
            BY <1>1, <1>2, <1>4, <1>5, JobsAre DEF WorkersOK, LabelSizes
      <2>.  QED BY <1>2, <2>1, <2>2, DoneKeeps
<1>6. CASE run[k].then = "sweep"
      BY <1>2, <1>4, <1>6, SweepKeeps
<1>7. CASE run[k].then = "reread"
      BY <1>7, BackKeeps
<1>8. CASE run[k].then = "throw"
      <2>1. Mirror!Throw(k)
            BY <1>8 DEF Mirror!Provisioned
      <2>.  QED BY <1>2, <2>1, ThrowKeeps
<1>.  QED BY <1>3, <1>5, <1>6, <1>7, <1>8

-----------------------------------------------------------------------------
(* What goes wrong around them.                                              *)

LEMMA FailuresKeep ==
    ASSUME LabelSizes, LabelsInv, NEW k \in Mirror!Workers,
           Mirror!CallFails(k) \/ Mirror!AuthFails(k)
    PROVE  WorkersOK' /\ RunsOK' /\ ThreadsOK'
<1>1. CASE Mirror!CallFails(k)
      <2>1. /\ run[k].at # "idle" /\ Mirror!Throw(k)
            /\ UNCHANGED <<path, latest, name, made, carries, link, adding>>
            BY <1>1 DEF Mirror!CallFails, Mirror!treeVars, Mirror!mailVars
      <2>.  QED BY <2>1, ThrowKeeps
<1>2. CASE Mirror!AuthFails(k)
      <2>1. /\ run[k].at # "idle" /\ Mirror!Done(k)
            /\ adrift' = adrift \cup (Threads \cap {run[k].job})
            /\ UNCHANGED <<path, latest, name, made, carries, link, adding>>
            BY <1>2 DEF Mirror!AuthFails, Mirror!treeVars, Mirror!mailVars
      <2>2. adrift \subseteq adrift' /\ (run[k].job \in Threads => run[k].job \in adrift')
            BY <2>1
      <2>.  QED BY <2>1, <2>2, DoneKeeps
<1>.  QED BY <1>1, <1>2

LEMMA DiesKeeps ==
    ASSUME LabelSizes, LabelsInv, Mirror!WorkerDies
    PROVE  WorkersOK' /\ RunsOK' /\ ThreadsOK'
<1>1. LabelsTyped /\ WorkersOK /\ RunsOK /\ ThreadsOK
      BY DEF LabelsInv
<1>2. run' = [k \in Mirror!Workers |-> Mirror!Idle]
      BY DEF Mirror!WorkerDies
<1>3. /\ adrift' = adrift \cup {t \in Threads : jobs[t].at = "active" /\ jobs[t].stalled}
      /\ UNCHANGED <<path, latest, name, made, carries, link, adding>>
      BY DEF Mirror!WorkerDies, Mirror!treeVars, Mirror!mailVars
<1>4. \A k \in Mirror!Workers : run'[k].at = "idle" /\ run'[k].desired = {}
      BY <1>2, IdleDoes
<1>5. ASSUME NEW j \in JobIds
      PROVE  /\ jobs[j].at # "active" => jobs'[j] = jobs[j]
             /\ jobs[j].at = "active" /\ jobs[j].stalled => jobs'[j].at = "none"
             /\ jobs[j].at = "active" /\ ~jobs[j].stalled =>
                   jobs'[j].at = "waiting" /\ jobs'[j].left = jobs[j].left
      <2>1. jobs[j] \in JobRows
            BY <1>1 DEF LabelsTyped
      <2>2. jobs'[j] = IF jobs[j].at # "active" THEN jobs[j]
                       ELSE IF jobs[j].stalled THEN Mirror!NoJob
                       ELSE [at |-> "waiting", left |-> jobs[j].left, stalled |-> TRUE]
            BY <1>1 DEF LabelsTyped, Mirror!WorkerDies
      <2>.  QED BY <2>1, <2>2, NoJobDoes DEF JobRows
<1>6. WorkersOK'
      <2>1. \A j \in JobIds : jobs'[j].at # "active" /\ (jobs'[j].at # "none" => jobs'[j].left >= 1)
            BY <1>1, <1>5 DEF WorkersOK
      <2>2. "writer" \in Mirror!Workers /\ "provisioner" \in Mirror!Workers
            BY DEF Mirror!Workers
      <2>.  QED BY <1>4, <2>1, <2>2 DEF WorkersOK, BusyWriter, Mapping
<1>7. RunsOK'
      <2>1. \A x \in Mirror!Workers : run'[x].at \notin Mapping /\ run'[x].at # "reread"
            BY <1>4 DEF Mapping
      <2>2. \A x \in Mirror!Workers : run'[x].desired \subseteq Given
            BY <1>4
      <2>3. \A t \in Threads : \A l \in carries'[t] : name[l] # None
            BY <1>1, <1>3 DEF RunsOK, NamesOK
      <2>4. Apart(path')
            BY <1>1, <1>3 DEF RunsOK, PathsOK
      <2>.  QED BY <1>1, <1>3, <2>1, <2>2, <2>3, <2>4, QuietRuns
<1>8. ThreadsOK'
      <2>1. \A t \in Threads : Pending(t)' <=> Pending(t)
            BY <1>3 DEF Pending
      <2>2. \A t \in Threads \ adrift' :
               jobs'[t].at = "waiting" \/ (jobs[t].at # "active" /\ jobs'[t] = jobs[t])
            BY <1>3, <1>5 DEF JobIds
      <2>.  QED BY <1>1, <1>3, <2>1, <2>2, ThreadsStay
<1>.  QED BY <1>6, <1>7, <1>8

LEMMA DeletedKeeps ==
    ASSUME LabelSizes, LabelsInv, NEW l \in Mirror!Labels, Mirror!LabelDeleted(l)
    PROVE  WorkersOK' /\ RunsOK' /\ ThreadsOK'
<1>1. LabelsTyped /\ WorkersOK /\ RunsOK /\ ThreadsOK
      BY DEF LabelsInv
<1>2. jobs' = jobs /\ run' = run
      BY DEF Mirror!LabelDeleted
<1>3. WorkersOK'
      BY <1>1, <1>2, QueueKeepsWorkers DEF WorkersOK
<1>.  QED BY <1>1, <1>3, DeletedRuns, DeletedThreads

-----------------------------------------------------------------------------
(* A step of a run keeps what is known of the threads.                       *)

LEMMA MapsKeep ==
    ASSUME LabelSizes, LabelsInv, NEW k \in Mirror!Workers,
           \/ Mirror!ReadsTree(k) \/ Mirror!ReadsLinks(k) \/ Mirror!Lists(k) \/ Mirror!CreatesAll(k)
           \/ \E f \in Folders : Mirror!Renames(k, f) \/ Mirror!Creates(k, f)
    PROVE  WorkersOK' /\ RunsOK' /\ ThreadsOK'
<1>1. LabelsTyped /\ WorkersOK /\ RunsOK /\ ThreadsOK
      BY DEF LabelsInv
<1>2. SUFFICES /\ OnlyMaps /\ RunsOK' /\ adrift' = adrift /\ link' = link
               /\ \A l \in Given : name[l] = None => name'[l] = None
      <2>1. WorkersOK'
            BY <1>1, <1>2, MapsKeepWorkers
      <2>.  QED BY <1>1, <1>2, <2>1, MapsKeepThreads
<1>3. CASE Mirror!ReadsTree(k)
      <2>1. OnlyMaps /\ UNCHANGED <<adrift, link, name>>
            BY <1>1, <1>3, ReadsTreeDoes
      <2>.  QED BY <1>1, <1>3, <2>1, ReadsTreeRuns
<1>4. CASE Mirror!ReadsLinks(k)
      <2>1. OnlyMaps /\ UNCHANGED <<adrift, link, name>>
            BY <1>1, <1>4, ReadsLinksDoes
      <2>.  QED BY <1>1, <1>4, <2>1, ReadsLinksRuns
<1>5. CASE Mirror!Lists(k)
      <2>1. OnlyMaps /\ UNCHANGED <<adrift, link, name>>
            BY <1>1, <1>5, ListsDoes
      <2>.  QED BY <1>1, <1>5, <2>1, ListsRuns
<1>6. CASE Mirror!CreatesAll(k)
      <2>1. OnlyMaps /\ UNCHANGED <<adrift, link, name>>
            BY <1>1, <1>6, CreatesAllDoes
      <2>.  QED BY <1>1, <1>6, <2>1, CreatesAllRuns
<1>7. CASE \E f \in Folders : Mirror!Renames(k, f)
      <2>1. PICK f \in Folders : Mirror!Renames(k, f)
            BY <1>7
      <2>2. PICK l : l = run[k].links[f].label
            OBVIOUS
      <2>3. PICK taken \in BOOLEAN :
               taken <=> \E x \in Mirror!Labels \ {l} : name[x] = run[k].paths[f]
            OBVIOUS
      <2>4. /\ OnlyMaps /\ UNCHANGED <<adrift, link>>
            /\ name' = IF name[l] # None /\ ~taken THEN [name EXCEPT ![l] = run[k].paths[f]] ELSE name
            BY <1>1, <2>1, <2>2, <2>3, RenamesDoes
      <2>5. \A m \in Given : name[m] = None => name'[m] = None
            <3>1. PICK p : p = run[k].paths[f]
                  OBVIOUS
            <3>2. Given \subseteq Mirror!Labels
                  BY <1>1 DEF Given, Mirror!Labels, LabelsTyped, LabelSizes
            <3>.  QED BY <1>1, <2>4, <3>1, <3>2 DEF LabelsTyped
      <2>.  QED BY <1>1, <2>1, <2>4, <2>5, RenamesRuns
<1>8. CASE \E f \in Folders : Mirror!Creates(k, f)
      <2>1. PICK f \in Folders : Mirror!Creates(k, f)
            BY <1>8
      <2>2. OnlyMaps /\ UNCHANGED <<adrift, link>>
            BY <1>1, <2>1, CreatesDoes
      <2>3. \A l \in Given : name[l] = None => name'[l] = None
            <3>1. PICK p : name' = name \/ name' = [name EXCEPT ![made + 1] = p]
                  BY <2>1 DEF Mirror!Creates
            <3>2. Given \subseteq Mirror!Labels /\ \A l \in Given : l # made + 1
                  BY <1>1 DEF Given, Mirror!Labels, LabelsTyped, LabelSizes
            <3>.  QED BY <1>1, <3>1, <3>2 DEF LabelsTyped
      <2>.  QED BY <1>1, <2>1, <2>2, <2>3, CreatesRuns
<1>.  QED BY <1>3, <1>4, <1>5, <1>6, <1>7, <1>8

LEMMA RecordsKeeps ==
    ASSUME LabelSizes, LabelsInv, NEW k \in Mirror!Workers, NEW f \in Folders, Mirror!Records(k, f)
    PROVE  WorkersOK' /\ RunsOK' /\ ThreadsOK'
<1>1. LabelsTyped /\ WorkersOK /\ RunsOK /\ ThreadsOK
      BY DEF LabelsInv
<1>2. OnlyMaps
      BY <1>1, RecordsDoes
<1>3. WorkersOK'
      BY <1>1, <1>2, MapsKeepWorkers
<1>.  QED BY <1>1, <1>3, RecordsRuns, RecordsThreads

LEMMA WorkTyped ==
    ASSUME LabelSizes, LabelsTyped, WorkersOK, NEW k \in Mirror!Workers, Mirror!Work(k)
    PROVE  LabelsTyped'
<1>1. CASE \E j \in Mirror!Jobs(k) : Mirror!Start(k, j)
      <2>1. PICK j \in Mirror!Jobs(k) : Mirror!Start(k, j)
            BY <1>1
      <2>.  QED BY <2>1, StartTyped
<1>2. CASE \/ Mirror!ReadsTree(k) \/ Mirror!ReadsLinks(k) \/ Mirror!Lists(k)
           \/ Mirror!CreatesAll(k) \/ Mirror!Provisioned(k)
      BY <1>2, TreeReadsTyped, ResolvesTyped, ProvisionedTyped
<1>3. CASE \E f \in Folders : Mirror!Renames(k, f) \/ Mirror!Creates(k, f) \/ Mirror!Records(k, f)
      <2>1. PICK f \in Folders : Mirror!Renames(k, f) \/ Mirror!Creates(k, f) \/ Mirror!Records(k, f)
            BY <1>3
      <2>.  QED BY <2>1, RenamesTyped, CreatesTyped, RecordsTyped
<1>.  QED BY <1>1, <1>2, <1>3 DEF Mirror!Work, Mirror!Provision

LEMMA WorkKeeps ==
    ASSUME LabelSizes, LabelsInv, NEW k \in Mirror!Workers, Mirror!Work(k)
    PROVE  WorkersOK' /\ RunsOK' /\ ThreadsOK'
<1>1. CASE \E j \in Mirror!Jobs(k) : Mirror!Start(k, j)
      <2>1. PICK j \in Mirror!Jobs(k) : Mirror!Start(k, j)
            BY <1>1
      <2>.  QED BY <2>1, StartKeeps
<1>2. CASE \/ Mirror!ReadsTree(k) \/ Mirror!ReadsLinks(k) \/ Mirror!Lists(k) \/ Mirror!CreatesAll(k)
           \/ \E f \in Folders : Mirror!Renames(k, f) \/ Mirror!Creates(k, f)
      BY <1>2, MapsKeep
<1>3. CASE Mirror!Provisioned(k)
      BY <1>3, ProvisionedKeeps
<1>4. CASE \E f \in Folders : Mirror!Records(k, f)
      <2>1. PICK f \in Folders : Mirror!Records(k, f)
            BY <1>4
      <2>.  QED BY <2>1, RecordsKeeps
<1>.  QED BY <1>1, <1>2, <1>3, <1>4 DEF Mirror!Work, Mirror!Provision

LEMMA LabelsStart == LabelSizes /\ Mirror!Init => LabelsInv
<1>.  SUFFICES ASSUME LabelSizes, Mirror!Init PROVE LabelsInv
      OBVIOUS
<1>1. LabelsTyped
      BY LabelsInit
<1>2. /\ Apart(path) /\ latest \in [Threads -> Folders \cup {None}]
      /\ name = [l \in Mirror!Labels |-> None] /\ carries = [t \in Threads |-> {}]
      /\ link = [f \in Folders |-> [label |-> None, path |-> None]]
      /\ adding = {<<t, FALSE>> : t \in {u \in Threads : latest[u] # None}}
      BY DEF Mirror!Init, Apart
<1>3. \A j \in JobIds : jobs[j].at = "none"
      BY JobsAre, NoJobDoes DEF Mirror!Init
<1>4. \A k \in Mirror!Workers : run[k].at = "idle" /\ run[k].desired = {}
      BY IdleDoes DEF Mirror!Init
<1>5. WorkersOK
      BY <1>3, <1>4 DEF WorkersOK, BusyWriter, Mapping, Mirror!Workers
<1>6. \A f \in Folders : link[f].label = None
      BY <1>2
<1>7. RunsOK
      <2>1. NamesOK
            BY <1>2, <1>4 DEF NamesOK
      <2>2. KeptOK
            BY <1>4, <1>6 DEF KeptOK, KeptBy
      <2>3. PathsOK /\ Together
            BY <1>2, <1>4 DEF PathsOK, Together, Mapping
      <2>4. \A k \in Mirror!Workers : HasDone(k) /\ RenamesRight(k) /\ FindsRight(k)
            BY <1>4 DEF HasDone, RenamesRight, FindsRight
      <2>.  QED BY <2>1, <2>2, <2>3, <2>4 DEF RunsOK
<1>8. ThreadsOK
      <2>1. ASSUME NEW t \in Threads, ~Pending(t) PROVE latest[t] = None
            <3>1. ASSUME latest[t] # None PROVE <<t, FALSE>> \in adding
                  BY Zenon, <1>2, <3>1
            <3>.  QED BY <2>1, <3>1 DEF Pending
      <2>2. Mirror!Managed = {} /\ Mirror!Wanted(None) = {}
            BY <1>6 DEF Mirror!Managed, Mirror!Wanted, Mirror!Linked
      <2>3. \A t \in Threads : jobs[t].at = "none"
            BY <1>3 DEF JobIds
      <2>.  QED BY <2>1, <2>2, <2>3 DEF ThreadsOK, Settled
<1>.  QED BY <1>1, <1>5, <1>7, <1>8 DEF LabelsInv

LEMMA LabelsNext == LabelSizes /\ LabelsInv /\ [Mirror!Next]_Mirror!vars => LabelsInv'
<1>.  SUFFICES ASSUME LabelSizes, LabelsInv, [Mirror!Next]_Mirror!vars PROVE LabelsInv'
      OBVIOUS
<1>1. LabelsTyped /\ WorkersOK /\ RunsOK /\ ThreadsOK
      BY DEF LabelsInv
<1>2. CASE \E f \in Folders, p \in Paths : Mirror!Repath(f, p)
      BY <1>1, <1>2, RequestTyped, RepathKeeps DEF LabelsInv
<1>3. CASE \E t \in Threads, api \in BOOLEAN, f \in Folders \cup {None} : Mirror!Classify(t, f, api)
      BY <1>1, <1>3, RequestTyped, ClassifyKeeps DEF LabelsInv
<1>4. CASE \E t \in Threads, api \in BOOLEAN : Mirror!Adds(t, api)
      BY <1>1, <1>4, RequestTyped, AddsKeeps DEF LabelsInv
<1>5. CASE \E t \in Threads, api \in BOOLEAN : Mirror!LosesAdd(t, api)
      BY <1>1, <1>5, RequestTyped, LosesAddKeeps DEF LabelsInv
<1>6. CASE Mirror!Switch
      BY <1>1, <1>6, RequestTyped, SwitchKeeps DEF LabelsInv
<1>7. CASE \E k \in Mirror!Workers : Mirror!Work(k)
      BY <1>1, <1>7, WorkTyped, WorkKeeps DEF LabelsInv
<1>8. CASE \E k \in Mirror!Workers : Mirror!CallFails(k) \/ Mirror!AuthFails(k)
      BY <1>1, <1>8, MishapTyped, FailuresKeep DEF LabelsInv
<1>9. CASE Mirror!ReadsThread
      BY <1>1, <1>9, ThreadReadTyped, ReadsThreadKeeps DEF LabelsInv
<1>10. CASE Mirror!Rereads
      BY <1>1, <1>10, ThreadReadTyped, RereadsKeeps DEF LabelsInv
<1>11. CASE Mirror!Applies
      BY <1>1, <1>11, AppliesTyped, AppliesKeeps DEF LabelsInv
<1>12. CASE Mirror!WorkerDies
      BY <1>1, <1>12, MishapTyped, DiesKeeps DEF LabelsInv
<1>13. CASE \E l \in Mirror!Labels : Mirror!LabelDeleted(l)
      BY <1>1, <1>13, MishapTyped, DeletedKeeps DEF LabelsInv
<1>14. CASE UNCHANGED Mirror!vars
      <2>1. /\ path' = path /\ latest' = latest /\ name' = name /\ made' = made
            /\ carries' = carries /\ link' = link /\ on' = on /\ adding' = adding
            /\ jobs' = jobs /\ run' = run /\ adrift' = adrift /\ edits' = edits
            /\ mishaps' = mishaps
            BY <1>14 DEF Mirror!vars
      <2>2. LabelsTyped'
            BY <1>1, <2>1 DEF LabelsTyped
      <2>3. WorkersOK'
            BY <1>1, <2>1, QueueKeepsWorkers DEF WorkersOK
      <2>4. RunsOK'
            BY <1>1, <2>1, QueueKeepsRuns DEF RunsOK, PathsOK
      <2>5. \A t \in Threads : Pending(t)' <=> Pending(t)
            BY <2>1 DEF Pending
      <2>6. ThreadsOK'
            BY <1>1, <2>1, <2>5, ThreadsStay
      <2>.  QED BY <2>2, <2>3, <2>4, <2>6 DEF LabelsInv
<1>.  QED BY <1>2, <1>3, <1>4, <1>5, <1>6, <1>7, <1>8, <1>9, <1>10, <1>11, <1>12, <1>13, <1>14
          DEF Mirror!Next

\* A thread that no job is due for, and that no history sets apart, carries the label of
\* its folder and no label of another one, however many folders, threads, edits and
\* mishaps there are (provision-folder-labels.ts, writeback-thread-label.ts).
THEOREM LabelsAlwaysFollow ==
    LabelSizes => (Mirror!Spec => [](Mirror!LabelsTypeOK /\ Mirror!LabelsFollowFolders))
<1>.  SUFFICES ASSUME LabelSizes
               PROVE  Mirror!Spec => [](Mirror!LabelsTypeOK /\ Mirror!LabelsFollowFolders)
      OBVIOUS
<1>1. Mirror!Init => LabelsInv
      BY LabelsStart
<1>2. LabelsInv /\ [Mirror!Next]_Mirror!vars => LabelsInv'
      BY LabelsNext
<1>3. LabelsInv => Mirror!LabelsTypeOK /\ Mirror!LabelsFollowFolders
      <2>.  SUFFICES ASSUME LabelsInv PROVE Mirror!LabelsTypeOK /\ Mirror!LabelsFollowFolders
            OBVIOUS
      <2>1. LabelsTyped /\ WorkersOK /\ RunsOK /\ ThreadsOK
            BY DEF LabelsInv
      <2>2. Mirror!LabelsTypeOK
            <3>1. DOMAIN jobs = JobIds
                  BY <2>1 DEF LabelsTyped
            <3>2. \A l, m \in Mirror!Labels : Mirror!Exists(l) /\ name[l] = name[m] => l = m
                  BY <2>1 DEF RunsOK, NamesOK, Mirror!Exists
            <3>3. \A t \in Threads : \A l \in carries[t] : Mirror!Exists(l)
                  BY <2>1 DEF RunsOK, NamesOK, Mirror!Exists
            <3>.  QED BY <2>1, <3>1, <3>2, <3>3 DEF Mirror!LabelsTypeOK, LabelsTyped, WorkersOK
      <2>3. Mirror!LabelsFollowFolders
            BY <2>1 DEF ThreadsOK, Pending, Settled, Mirror!LabelsFollowFolders
      <2>.  QED BY <2>2, <2>3
<1>.  QED BY <1>1, <1>2, <1>3, PTL DEF Mirror!Spec
=============================================================================
