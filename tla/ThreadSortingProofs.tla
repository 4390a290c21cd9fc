------------------------ MODULE ThreadSortingProofs ------------------------
(* Proofs about ThreadSorting, for every value of its constants. *)
EXTENDS ThreadSorting, FiniteSetTheorems, TLAPS

\* A request or a sweep that waits to enqueue is of a kind in play.
KindsInPlay ==
    /\ \A op \in DOMAIN RouteKind : picked[op] # {} => RouteKind[op] \in Kinds
    /\ picked["import"] # {} => "migration" \in Kinds
    /\ armed => "unrouted" \in Kinds

TypeInv == TypeOK /\ KindsInPlay

LEMMA JobUpdate ==
    ASSUME QueueOK, NEW j \in Jobs, NEW r \in JobStates, r.at # "idle" => r.left > 0,
           job' = [job EXCEPT ![j] = r], UNCHANGED <<adds, picked, sweeps>>
    PROVE  QueueOK'
BY DEF QueueOK

\* The assumptions on the numeric constants, one by one.
LEMMA Numbers ==
    /\ LastWindow \in Nat /\ Limit \in Nat /\ MaxStalls \in Nat
    /\ MaxCrashes \in Nat /\ MaxWaiting \in Nat
    /\ Concurrency \in Nat \ {0} /\ Tries \in Nat \ {0}
    /\ MaxClassifyAttempts \in Nat \ {0}
BY ConstantsAssumption

LEMMA IdleType == Idle \in JobStates /\ Idle.at = "idle"
<1>1. 0 \in 0 .. Tries /\ 0 \in 0 .. MaxStalls /\ 0 \in Windows
      BY Numbers DEF Windows
<1>2. "LIVE" \in Sources /\ "PENDING" \in Statuses
      BY DEF Sources, Statuses
<1>.  QED BY <1>1, <1>2 DEF Idle, JobStates

LEMMA AtType ==
    ASSUME QueueOK, NEW j \in Jobs, NEW step \in Running \cup {"queued"}
    PROVE  /\ At(j, step) \in JobStates
           /\ At(j, step).at = step
           /\ At(j, step).left = job[j].left
           /\ At(j, step).stalls = job[j].stalls
<1>1. /\ job[j] \in JobStates
      /\ job[j].src \in Sources /\ job[j].left \in 0 .. Tries
      /\ job[j].stalls \in 0 .. MaxStalls
      BY DEF QueueOK, JobStates
<1>2. 0 \in Windows /\ "PENDING" \in Statuses
      BY Numbers DEF Windows, Statuses
<1>.  QED BY <1>1, <1>2 DEF At, Idle, JobStates

LEMMA GotoType ==
    ASSUME QueueOK, NEW j \in Jobs, NEW step \in Running, job[j].at # "idle",
           Goto(j, step), UNCHANGED <<adds, picked, sweeps>>
    PROVE  QueueOK'
<1>1. /\ [job[j] EXCEPT !.at = step] \in JobStates
      /\ [job[j] EXCEPT !.at = step].left > 0
      BY DEF QueueOK, JobStates
<1>2. job' = [job EXCEPT ![j] = [job[j] EXCEPT !.at = step]]
      BY DEF Goto, QueueOK
<1>.  QED BY <1>1, <1>2, JobUpdate

LEMMA RecordUpdate ==
    ASSUME NEW r \in JobStates
    PROVE  /\ [r EXCEPT !.ok = FALSE] \in JobStates
           /\ [r EXCEPT !.ok = FALSE].left = r.left
           /\ \A n \in 0 .. Tries : /\ [r EXCEPT !.left = n] \in JobStates
                                    /\ [r EXCEPT !.left = n].left = n
BY DEF JobStates

LEMMA ReturnType ==
    ASSUME QueueOK, NEW j \in Jobs, job[j].at # "idle",
           Return(j) \/ Throw(j) \/ ThrowForGood(j), UNCHANGED <<adds, picked, sweeps>>
    PROVE  QueueOK'
<1>1. At(j, "settle") \in JobStates /\ At(j, "settle").left > 0
      BY AtType DEF QueueOK, Running
<1>2. CASE Return(j)
      BY <1>1, <1>2, JobUpdate DEF Return
<1>3. CASE Throw(j)
      <2>. DEFINE r == [At(j, "settle") EXCEPT !.ok = FALSE]
      <2>1. r \in JobStates /\ r.left > 0
            BY <1>1, RecordUpdate
      <2>2. job' = [job EXCEPT ![j] = r]
            BY <1>3 DEF Throw
      <2>.  HIDE DEF r
      <2>.  QED BY <2>1, <2>2, JobUpdate
<1>4. CASE ThrowForGood(j)
      <2>. DEFINE q == [At(j, "settle") EXCEPT !.ok = FALSE]
                  r == [q EXCEPT !.left = 1]
      <2>1. q \in JobStates
            BY <1>1, RecordUpdate
      <2>2. job' = [job EXCEPT ![j] = r]
            BY <1>4 DEF ThrowForGood
      <2>.  HIDE DEF q
      <2>3. 1 \in 0 .. Tries
            BY Numbers
      <2>4. r \in JobStates /\ r.left = 1
            BY <2>1, <2>3, RecordUpdate
      <2>.  HIDE DEF r
      <2>5. r.left > 0
            BY <2>4
      <2>.  QED BY <2>2, <2>4, <2>5, JobUpdate
<1>.  QED BY <1>2, <1>3, <1>4

LEMMA AddsType ==
    ASSUME NEW S \in SUBSET Threads, NEW kind \in Kinds, NEW src \in Sources,
           NEW n \in 1 .. Tries
    PROVE  AddsFor(S, kind, src, n) \in SUBSET [job: Jobs, src: Sources, left: 1 .. Tries]
BY DEF AddsFor, Jobs

LEMMA StampedType ==
    ASSUME ThreadsOK, NEW S
    PROVE  Stamped(S) \in [Threads -> {"null", "fresh", "old"}]
BY DEF ThreadsOK, Stamped

LEMMA MarkType ==
    ASSUME ThreadsOK, NEW t, MarkClassifyFailed(t), UNCHANGED <<status, lastRow>>
    PROVE  ThreadsOK'
<1>1. \A n \in 0 .. MaxClassifyAttempts :
         (IF n < MaxClassifyAttempts THEN n + 1 ELSE n) \in 0 .. MaxClassifyAttempts
      BY Numbers
<1>2. CASE t \in Threads
      BY <1>1, <1>2 DEF ThreadsOK, MarkClassifyFailed
<1>3. CASE t \notin Threads
      BY <1>3 DEF ThreadsOK, MarkClassifyFailed
<1>.  QED BY <1>2, <1>3

\* A step that moves only the queue.
LEMMA QueueStep ==
    ASSUME TypeInv, QueueOK',
           UNCHANGED <<picked, sweeps, threadVars, meterVars, switchVars, crashes>>
    PROVE  TypeInv'
BY DEF TypeInv, TypeOK, KindsInPlay, ThreadsOK, MetersOK, SwitchesOK,
       threadVars, meterVars, switchVars

LEMMA TypeInit == Init => TypeInv
<1>. SUFFICES ASSUME Init PROVE TypeInv
     OBVIOUS
<1>1. QueueOK
      BY IdleType DEF Init, QueueOK
<1>2. ThreadsOK
      BY Numbers DEF Init, ThreadsOK, Statuses
<1>5. SwitchesOK
      BY DEF Init, SwitchesOK
<1>3. MetersOK /\ crashes \in 0 .. MaxCrashes
      BY Numbers DEF Init, MetersOK, Windows
<1>4. KindsInPlay
      BY DEF Init, KindsInPlay, RouteKind, Ops
<1>.  QED BY <1>1, <1>2, <1>3, <1>4, <1>5 DEF TypeInv, TypeOK

\* The steps of the handler preserve the types.
LEMMA TypeWork ==
    ASSUME TypeInv, NEW j \in Jobs, Work(j)
    PROVE  TypeInv'
<1>. USE DEF TypeInv, TypeOK
<1>1. CASE Load(j)
      <2>1. job[j] \in JobStates /\ job[j].left > 0
            BY <1>1 DEF Load, QueueOK
      <2>2. PICK r \in JobStates : job' = [job EXCEPT ![j] = r]
                                   /\ (r.at # "idle" => r.left > 0)
            <3>1. CASE job' = [job EXCEPT ![j] = Idle]
                  BY <3>1, IdleType
            <3>2. ASSUME NEW step \in Running, NEW met \in BOOLEAN,
                         job' = [job EXCEPT ![j].at = step, ![j].met = met]
                  PROVE  \E r \in JobStates : /\ job' = [job EXCEPT ![j] = r]
                                              /\ r.at # "idle" => r.left > 0
                  <4>. DEFINE r == [job[j] EXCEPT !.at = step, !.met = met]
                  <4>1. r \in JobStates /\ r.left > 0
                        BY <2>1 DEF JobStates
                  <4>2. job' = [job EXCEPT ![j] = r]
                        BY <3>2 DEF QueueOK
                  <4>.  QED BY <4>1, <4>2
            <3>.  QED BY <1>1, <3>1, <3>2 DEF Load, Running
      <2>3. QueueOK'
            BY <1>1, <2>2, JobUpdate DEF Load
      <2>.  QED BY <1>1, <2>3, QueueStep DEF Load
<1>2. CASE CheckPin(j)
      <2>1. QueueOK'
            BY <1>2, GotoType, ReturnType DEF CheckPin, Running
      <2>.  QED BY <1>2, <2>1, QueueStep DEF CheckPin
<1>3. CASE CountRows(j)
      <2>1. job[j] \in JobStates /\ job[j].left > 0
            BY <1>3 DEF CountRows, QueueOK
      <2>.  DEFINE met == job[j].met /\ month \notin counted[Thread(j)]
                   step == IF met /\ Enforce THEN "gate" ELSE "stamp"
                   win == IF met THEN month ELSE 0
                   r == [job[j] EXCEPT !.at = step, !.met = met, !.win = win]
      <2>2. met \in BOOLEAN /\ step \in Running /\ win \in Windows
            BY Numbers DEF MetersOK, Windows, Running
      <2>3. r \in JobStates /\ r.left > 0
            <3>. HIDE DEF met, step, win
            <3>. QED BY <2>1, <2>2 DEF JobStates
      <2>4. job' = [job EXCEPT ![j] = r]
            BY <1>3 DEF CountRows, QueueOK
      <2>.  HIDE DEF r
      <2>5. QueueOK'
            BY <1>3, <2>3, <2>4, JobUpdate DEF CountRows
      <2>.  QED BY <1>3, <2>5, QueueStep DEF CountRows
<1>4. CASE CheckQuota(j)
      <2>1. QueueOK'
            BY <1>4, GotoType DEF CheckQuota, Running
      <2>.  QED BY <1>4, <2>1, QueueStep DEF CheckQuota
<1>5. CASE Defer(j)
      <2>1. QueueOK'
            BY <1>5, ReturnType DEF Defer
      <2>.  QED BY <1>5, <2>1 DEF Defer, KindsInPlay, ThreadsOK, MetersOK, SwitchesOK,
                                   meterVars, switchVars, Statuses, Jobs, Thread
<1>6. CASE StampThread(j)
      <2>1. QueueOK'
            BY <1>6, GotoType DEF StampThread, Running
      <2>.  QED BY <1>6, <2>1 DEF StampThread, KindsInPlay, ThreadsOK, MetersOK, SwitchesOK,
                                   meterVars, switchVars, Jobs, Thread
<1>7. CASE Sort(j)
      <2>1. ASSUME NEW out \in Outcomes,
                   job' = [job EXCEPT ![j].at = "commit", ![j].out = out]
            PROVE  QueueOK'
            <3>. DEFINE r == [job[j] EXCEPT !.at = "commit", !.out = out]
            <3>1. out \in Statuses
                  BY ConstantsAssumption DEF Statuses
            <3>4. job[j] \in JobStates /\ job[j].left > 0
                  BY <1>7 DEF Sort, QueueOK
            <3>2. r \in JobStates /\ r.left > 0
                  BY <3>1, <3>4 DEF JobStates, Running
            <3>3. job' = [job EXCEPT ![j] = r]
                  BY <2>1 DEF QueueOK
            <3>.  QED BY <1>7, <3>2, <3>3, JobUpdate DEF Sort
      <2>2. QueueOK'
            BY <1>7, <2>1, GotoType, ReturnType DEF Sort, Running
      <2>.  QED BY <1>7, <2>2, QueueStep DEF Sort
<1>8. CASE AuthFailure(j)
      <2>1. QueueOK'
            BY <1>8, ReturnType DEF AuthFailure
      <2>.  QED BY <1>8, <2>1 DEF AuthFailure, KindsInPlay, ThreadsOK, MetersOK, SwitchesOK,
                                   threadVars, meterVars
<1>9. CASE Commit(j)
      <2>1. job[j] \in JobStates /\ job[j].win \in Windows /\ job[j].src \in Sources
            BY DEF QueueOK, JobStates
      <2>2. QueueOK'
            <3>. DEFINE r == [At(j, "status") EXCEPT !.out = job[j].out]
            <3>1. At(j, "status") \in JobStates /\ At(j, "status").left = job[j].left
                  BY AtType DEF Running
            <3>2. r \in JobStates /\ r.left = job[j].left
                  BY <2>1, <3>1 DEF JobStates
            <3>3. CASE job' = [job EXCEPT ![j] = r]
                  <4>1. r.left > 0
                        BY <1>9, <3>2 DEF Commit, QueueOK
                  <4>.  HIDE DEF r
                  <4>.  QED BY <1>9, <3>2, <3>3, <4>1, JobUpdate DEF Commit
            <3>.  QED BY <1>9, <3>3, ReturnType DEF Commit
      <2>3. MetersOK' /\ ThreadsOK'
            BY <1>9, <2>1 DEF Commit, MetersOK, ThreadsOK, AddRow, RecordMeterUsage,
                               CountedSource, meterVars, Jobs, Thread, Sources
      <2>.  QED BY <1>9, <2>2, <2>3 DEF Commit, KindsInPlay, SwitchesOK, switchVars
<1>10. CASE WriteStatus(j)
      <2>1. At(j, "triage") \in JobStates /\ At(j, "triage").left = job[j].left
            BY AtType DEF Running
      <2>2. QueueOK'
            <3>1. CASE job' = [job EXCEPT ![j] = At(j, "triage")]
                  <4>1. At(j, "triage").left > 0
                        BY <1>10, <2>1 DEF WriteStatus, QueueOK
                  <4>.  QED BY <1>10, <2>1, <3>1, <4>1, JobUpdate DEF WriteStatus
            <3>.  QED BY <1>10, <3>1, ReturnType DEF WriteStatus
      <2>3. job[j].out \in Statuses
            BY DEF QueueOK, JobStates
      <2>4. ThreadsOK'
            <3>1. 0 \in 0 .. MaxClassifyAttempts
                  BY Numbers
            <3>2. status' \in [Threads -> Statuses]
                  BY <1>10, <2>3 DEF WriteStatus, ThreadsOK
            <3>3. failedAt' \in [Threads -> BOOLEAN]
                  BY <1>10 DEF WriteStatus, ThreadsOK
            <3>4. attempts' \in [Threads -> 0 .. MaxClassifyAttempts]
                  <4>1. attempts' = attempts \/ attempts' = [attempts EXCEPT ![Thread(j)] = 0]
                        BY <1>10 DEF WriteStatus
                  <4>.  QED BY <3>1, <4>1 DEF ThreadsOK
            <3>.  QED BY <1>10, <3>2, <3>3, <3>4 DEF WriteStatus, ThreadsOK
      <2>.  QED BY <1>10, <2>2, <2>4 DEF WriteStatus, KindsInPlay, MetersOK, SwitchesOK,
                                          meterVars, switchVars
<1>11. CASE FileNoText(j)
      <2>1. At(j, "review") \in JobStates /\ At(j, "review").left = job[j].left
            BY AtType DEF Running
      <2>2. QueueOK'
            <3>1. CASE job' = [job EXCEPT ![j] = At(j, "review")]
                  <4>1. At(j, "review").left > 0
                        BY <1>11, <2>1 DEF FileNoText, QueueOK
                  <4>.  QED BY <1>11, <2>1, <3>1, <4>1, JobUpdate DEF FileNoText
            <3>.  QED BY <1>11, <3>1, ReturnType DEF FileNoText
      <2>3. job[j].src \in Sources
            BY DEF QueueOK, JobStates
      <2>4. ThreadsOK' /\ MetersOK'
            BY <1>11, <2>3 DEF FileNoText, ThreadsOK, MetersOK, AddRow, CountedSource,
                                Sources, Jobs, Thread
      <2>.  QED BY <1>11, <2>2, <2>4 DEF FileNoText, KindsInPlay, SwitchesOK, switchVars
<1>12. CASE ReviewNoText(j)
      <2>1. QueueOK'
            BY <1>12, ReturnType DEF ReviewNoText
      <2>2. ThreadsOK'
            <3>1. 0 \in 0 .. MaxClassifyAttempts
                  BY Numbers
            <3>2. status' \in [Threads -> Statuses]
                  BY <1>12 DEF ReviewNoText, ThreadsOK, Statuses
            <3>3. failedAt' \in [Threads -> BOOLEAN]
                  BY <1>12 DEF ReviewNoText, ThreadsOK
            <3>4. attempts' \in [Threads -> 0 .. MaxClassifyAttempts]
                  <4>1. attempts' = attempts \/ attempts' = [attempts EXCEPT ![Thread(j)] = 0]
                        BY <1>12 DEF ReviewNoText
                  <4>.  QED BY <3>1, <4>1 DEF ThreadsOK
            <3>.  QED BY <1>12, <3>2, <3>3, <3>4 DEF ReviewNoText, ThreadsOK
      <2>.  QED BY <1>12, <2>1, <2>2 DEF ReviewNoText, KindsInPlay, MetersOK, SwitchesOK,
                                          meterVars, switchVars
<1>13. CASE PersistTriage(j)
      <2>1. QueueOK'
            BY <1>13, ReturnType DEF PersistTriage
      <2>.  QED BY <1>13, <2>1, QueueStep DEF PersistTriage
<1>14. CASE Settle(j)
      <2>1. QueueOK'
            <3>1. CASE job' = [job EXCEPT ![j] = Idle]
                  BY <1>14, <3>1, IdleType, JobUpdate DEF Settle
            <3>2. CASE Goto(j, "failed")
                  BY <1>14, <3>2, GotoType DEF Settle, Running
            <3>.  QED BY <1>14, <3>1, <3>2 DEF Settle, Goto
      <2>.  QED BY <1>14, <2>1 DEF Settle, KindsInPlay, ThreadsOK, MetersOK, SwitchesOK,
                                    meterVars, switchVars
<1>15. CASE FailedEvent(j)
      <2>1. QueueOK'
            <3>. DEFINE r == [At(j, "queued") EXCEPT !.left = job[j].left - 1]
            <3>1. CASE job' = [job EXCEPT ![j] = Idle]
                  BY <1>15, <3>1, IdleType, JobUpdate DEF FailedEvent
            <3>2. CASE job' = [job EXCEPT ![j] = r] /\ job[j].left > 1
                  <4>1. job[j].left - 1 \in 0 .. Tries /\ job[j].left - 1 > 0
                        BY <3>2, Numbers DEF QueueOK, JobStates
                  <4>2. At(j, "queued") \in JobStates
                        BY AtType
                  <4>3. r \in JobStates /\ r.left = job[j].left - 1
                        BY <4>1, <4>2, RecordUpdate
                  <4>.  HIDE DEF r
                  <4>4. r.left > 0
                        BY <4>1, <4>3
                  <4>.  QED BY <1>15, <3>2, <4>3, <4>4, JobUpdate DEF FailedEvent
            <3>3. At(j, "queued").left = job[j].left
                  BY AtType
            <3>.  QED BY <1>15, <3>1, <3>2, <3>3, AtType DEF FailedEvent, JobStates
      <2>2. ThreadsOK'
            BY <1>15, MarkType DEF FailedEvent
      <2>.  QED BY <1>15, <2>1, <2>2 DEF FailedEvent, MarkClassifyFailed, KindsInPlay,
                         MetersOK, SwitchesOK, meterVars, switchVars
<1>.  QED BY <1>1, <1>2, <1>3, <1>4, <1>5, <1>6, <1>7, <1>8, <1>9, <1>10, <1>11,
             <1>12, <1>13, <1>14, <1>15 DEF Work

\* So do the queue's own steps.
LEMMA TypeQueue ==
    ASSUME TypeInv,
           \/ \E a \in adds : AddBulk(a) \/ LoseAdd(a)
           \/ \E j \in Jobs : Crash(j)
    PROVE  TypeInv'
<1>. USE DEF TypeInv, TypeOK
<1>1. ASSUME NEW a \in adds, AddBulk(a)
      PROVE  TypeInv'
      <2>1. a \in [job: Jobs, src: Sources, left: 1 .. Tries]
            BY DEF QueueOK
      <2>.  DEFINE r == [Idle EXCEPT !.at = "queued", !.src = a.src, !.left = a.left]
      <2>2. a.src \in Sources /\ a.left \in 0 .. Tries /\ a.left > 0
            BY <2>1, Numbers
      <2>3. r \in JobStates /\ r.left = a.left
            BY <2>2, IdleType DEF JobStates
      <2>4. job' = job \/ job' = [job EXCEPT ![a.job] = r]
            BY <1>1 DEF AddBulk
      <2>5. QueueOK'
            <3>. HIDE DEF r
            <3>. QED BY <1>1, <2>1, <2>2, <2>3, <2>4 DEF AddBulk, QueueOK
      <2>.  QED BY <1>1, <2>5, QueueStep DEF AddBulk
<1>2. ASSUME NEW a \in adds, LoseAdd(a)
      PROVE  TypeInv'
      BY <1>2, Numbers DEF LoseAdd, QueueOK, ThreadsOK, MetersOK, SwitchesOK, KindsInPlay,
                           threadVars, meterVars, switchVars
<1>3. ASSUME NEW j \in Jobs, Crash(j)
      PROVE  TypeInv'
      <2>1. crashes' \in 0 .. MaxCrashes
            BY <1>3, Numbers DEF Crash
      <2>2. job[j].left > 0 /\ job[j].stalls \in 0 .. MaxStalls
            BY <1>3 DEF Crash, QueueOK, JobStates, Running
      <2>3. At(j, "queued") \in JobStates
            BY AtType
      <2>4. At(j, "queued").left = job[j].left /\ At(j, "queued").stalls = job[j].stalls
            BY AtType
      <2>.  DEFINE r == [At(j, "queued") EXCEPT !.stalls = job[j].stalls + 1]
      <2>5. ASSUME job' = [job EXCEPT ![j] = r], job[j].stalls < MaxStalls
            PROVE  QueueOK'
            <3>1. job[j].stalls + 1 \in 0 .. MaxStalls
                  BY <2>2, <2>5, Numbers
            <3>2. r \in JobStates /\ r.left = job[j].left
                  BY <2>3, <2>4, <3>1 DEF JobStates
            <3>3. r.left > 0
                  BY <2>2, <3>2
            <3>.  HIDE DEF r
            <3>.  QED BY <1>3, <2>5, <3>2, <3>3, JobUpdate DEF Crash
      <2>6. ASSUME job' = [job EXCEPT ![j] = Idle]
            PROVE  QueueOK'
            BY <1>3, <2>6, IdleType, JobUpdate DEF Crash
      <2>7. QueueOK'
            BY <1>3, <2>4, <2>5, <2>6 DEF Crash
      <2>8. ThreadsOK'
            <3>1. CASE UNCHANGED <<stamp, failedAt, attempts>>
                  BY <1>3, <3>1 DEF Crash, ThreadsOK
            <3>.  QED BY <1>3, <3>1, MarkType DEF Crash
      <2>9. KindsInPlay' /\ MetersOK' /\ SwitchesOK'
            BY <1>3 DEF Crash, KindsInPlay, MetersOK, SwitchesOK, meterVars, switchVars
      <2>.  QED BY <2>1, <2>7, <2>8, <2>9
<1>.  QED BY <1>1, <1>2, <1>3

LEMMA TypeSync ==
    ASSUME TypeInv, Sync
    PROVE  TypeInv'
<1>. USE DEF TypeInv, TypeOK
<1>1. CASE StartRecovery
      BY <1>1 DEF StartRecovery, QueueOK, KindsInPlay, ThreadsOK, MetersOK, SwitchesOK,
                  threadVars, meterVars, switchVars, SyncOps, SweepKind
<1>2. ASSUME NEW op \in SyncOps, PickRecovery(op)
      PROVE  TypeInv'
      <2>1. Candidates(op) \subseteq Threads
            BY DEF Candidates, Unstamped, SyncOps
      <2>2. QueueOK'
            BY <1>2, <2>1 DEF PickRecovery, QueueOK, Ops
      <2>3. KindsInPlay'
            BY <1>2 DEF PickRecovery, QueueOK, KindsInPlay, Ops, SyncOps, RouteKind, switchVars
      <2>.  QED BY <1>2, <2>2, <2>3 DEF PickRecovery, ThreadsOK, MetersOK, SwitchesOK,
                         threadVars, meterVars, switchVars
<1>3. ASSUME NEW op \in SyncOps, EnqueueRecovery(op)
      PROVE  TypeInv'
      <2>1. PICK S \in (IF op = "armed" THEN {picked[op]} ELSE Room(picked[op])) :
               /\ stamp' = Stamped(S)
               /\ status' = [t \in Threads |->
                                IF t \in S /\ op = "quota" THEN "PENDING" ELSE status[t]]
               /\ adds' = adds \cup AddsFor(S, SweepKind[op],
                                            IF op = "armed" THEN "BACKFILL" ELSE "LIVE", Tries)
            BY <1>3 DEF EnqueueRecovery
      <2>2. picked[op] \in SUBSET Threads
            BY DEF QueueOK, Ops
      <2>3. S \in SUBSET Threads
            BY <2>1, <2>2 DEF Room
      <2>4. SweepKind[op] \in Kinds
            BY <1>3 DEF EnqueueRecovery, Due, QueueOK
      <2>5. Tries \in 1 .. Tries
            BY Numbers
      <2>6. adds' \in SUBSET [job: Jobs, src: Sources, left: 1 .. Tries]
            BY <2>1, <2>3, <2>4, <2>5, AddsType DEF QueueOK, Sources
      <2>7. QueueOK'
            BY <1>3, <2>6 DEF EnqueueRecovery, QueueOK
      <2>8. ThreadsOK'
            BY <1>3, <2>1, <2>3, StampedType DEF EnqueueRecovery, ThreadsOK, Statuses
      <2>9. KindsInPlay'
            BY <1>3 DEF EnqueueRecovery, QueueOK, KindsInPlay, Ops, SyncOps, RouteKind, switchVars
      <2>.  QED BY <1>3, <2>7, <2>8, <2>9 DEF EnqueueRecovery, MetersOK, SwitchesOK,
                         meterVars, switchVars
<1>.  QED BY <1>1, <1>2, <1>3 DEF Sync

LEMMA TypeEnvironment ==
    ASSUME TypeInv,
           \/ \E t \in Threads : SyncChanged(t) \/ Age(t)
           \/ NewMonth \/ EditTaxonomy \/ BackfillDone
    PROVE  TypeInv'
<1>. USE DEF TypeInv, TypeOK
<1>1. ASSUME NEW t \in Threads, SyncChanged(t)
      PROVE  TypeInv'
      <2>1. PICK k \in Kinds : adds' = adds \cup AddsFor({t}, k, "LIVE", Tries)
            BY <1>1 DEF SyncChanged
      <2>2. Tries \in 1 .. Tries
            BY Numbers
      <2>3. QueueOK'
            BY <1>1, <2>1, <2>2, AddsType DEF SyncChanged, QueueOK, Sources
      <2>4. ThreadsOK'
            BY <1>1, StampedType DEF SyncChanged, ThreadsOK
      <2>.  QED BY <1>1, <2>3, <2>4 DEF SyncChanged, KindsInPlay, MetersOK, SwitchesOK,
                         meterVars, switchVars
<1>2. ASSUME NEW t \in Threads, Age(t)
      PROVE  TypeInv'
      BY <1>2 DEF Age, QueueOK, KindsInPlay, ThreadsOK, MetersOK, SwitchesOK,
                  queueVars, meterVars, switchVars
<1>3. CASE NewMonth
      BY <1>3, Numbers DEF NewMonth, QueueOK, KindsInPlay, ThreadsOK, MetersOK, SwitchesOK,
                  queueVars, threadVars, switchVars, Windows
<1>4. CASE EditTaxonomy
      BY <1>4 DEF EditTaxonomy, QueueOK, KindsInPlay, ThreadsOK, MetersOK, SwitchesOK,
                  queueVars, threadVars, meterVars
<1>5. CASE BackfillDone
      BY <1>5 DEF BackfillDone, QueueOK, KindsInPlay, ThreadsOK, MetersOK, SwitchesOK,
                  queueVars, threadVars, meterVars
<1>.  QED BY <1>1, <1>2, <1>3, <1>4, <1>5

LEMMA TypeRequest ==
    ASSUME TypeInv, Request
    PROVE  TypeInv'
<1>. USE DEF TypeInv, TypeOK
<1>1. ASSUME NEW t \in Threads, Move(t)
      PROVE  TypeInv'
      BY <1>1 DEF Move, AddRow, CountedSource, QueueOK, KindsInPlay, ThreadsOK, MetersOK,
                  SwitchesOK, queueVars, switchVars, Statuses
<1>2. ASSUME NEW t \in Threads, AiClassify(t) \/ AiTriage(t)
      PROVE  TypeInv'
      <2>1. 1 \in 1 .. Tries
            BY Numbers
      <2>2. QueueOK'
            BY <1>2, <2>1, AddsType DEF AiClassify, AiTriage, QueueOK, Sources
      <2>3. ThreadsOK'
            BY <1>2, StampedType DEF AiClassify, AiTriage, ThreadsOK
      <2>.  QED BY <1>2, <2>2, <2>3 DEF AiClassify, AiTriage, KindsInPlay, MetersOK,
                         SwitchesOK, meterVars, switchVars
<1>3. ASSUME NEW t \in Threads, Cancel(t)
      PROVE  TypeInv'
      <2>1. QueueOK'
            BY <1>3, IdleType DEF Cancel, QueueOK, Jobs
      <2>.  QED BY <1>3, <2>1 DEF Cancel, KindsInPlay, ThreadsOK, MetersOK, SwitchesOK,
                         meterVars, switchVars
<1>4. CASE Pause
      BY <1>4 DEF Pause, QueueOK, KindsInPlay, ThreadsOK, MetersOK, SwitchesOK,
                  queueVars, threadVars, meterVars
<1>5. CASE Resume
      <2>1. QueueOK'
            BY <1>5 DEF Resume, QueueOK, Unstamped
      <2>2. KindsInPlay'
            BY <1>5 DEF Resume, QueueOK, KindsInPlay, RouteKind, Ops
      <2>.  QED BY <1>5, <2>1, <2>2 DEF Resume, ThreadsOK, MetersOK, SwitchesOK,
                         threadVars, meterVars
<1>6. CASE RouteUnrouted
      <2>1. QueueOK'
            BY <1>6 DEF RouteUnrouted, QueueOK, Unstamped
      <2>2. KindsInPlay'
            BY <1>6 DEF RouteUnrouted, QueueOK, KindsInPlay, RouteKind, Ops
      <2>.  QED BY <1>6, <2>1, <2>2 DEF RouteUnrouted, ThreadsOK, MetersOK, SwitchesOK,
                         threadVars, meterVars
<1>7. ASSUME NEW op \in DOMAIN StatusToReroute, Reroute(op)
      PROVE  TypeInv'
      <2>1. QueueOK'
            BY <1>7 DEF Reroute, QueueOK, Unstamped
      <2>2. KindsInPlay'
            BY <1>7 DEF Reroute, QueueOK, KindsInPlay, RouteKind, StatusToReroute, Ops,
                        switchVars
      <2>.  QED BY <1>7, <2>1, <2>2 DEF Reroute, ThreadsOK, MetersOK, SwitchesOK,
                         threadVars, meterVars, switchVars
<1>8. ASSUME NEW op \in DOMAIN RouteKind, EnqueueForRouting(op)
      PROVE  TypeInv'
      <2>1. picked[op] \in SUBSET Threads /\ RouteKind[op] \in Kinds
            BY <1>8 DEF EnqueueForRouting, QueueOK, KindsInPlay, RouteKind, Ops
      <2>2. 1 \in 1 .. Tries
            BY Numbers
      <2>3. QueueOK'
            BY <1>8, <2>1, <2>2, AddsType DEF EnqueueForRouting, QueueOK, Sources
      <2>4. ThreadsOK'
            BY <1>8, StampedType DEF EnqueueForRouting, ThreadsOK, Statuses
      <2>5. KindsInPlay'
            BY <1>8, <2>1 DEF EnqueueForRouting, QueueOK, KindsInPlay, RouteKind, Ops
      <2>.  QED BY <1>8, <2>3, <2>4, <2>5 DEF EnqueueForRouting, MetersOK, SwitchesOK,
                         meterVars
<1>9. CASE ImportTaxonomy
      <2>1. QueueOK'
            BY <1>9 DEF ImportTaxonomy, QueueOK
      <2>2. KindsInPlay'
            <3>1. PICK X, Y : picked' = [picked EXCEPT !["migrate"] = X, !["import"] = Y]
                  BY <1>9, Zenon DEF ImportTaxonomy
            <3>2. \A op \in DOMAIN RouteKind : picked'[op] = picked[op]
                  BY <3>1 DEF RouteKind, QueueOK, Ops
            <3>3. armed' = armed /\ "migration" \in Kinds
                  BY <1>9 DEF ImportTaxonomy, switchVars
            <3>.  QED BY <3>2, <3>3 DEF KindsInPlay
      <2>.  QED BY <1>9, <2>1, <2>2 DEF ImportTaxonomy, ThreadsOK, MetersOK, SwitchesOK,
                         threadVars, meterVars, switchVars
<1>10. CASE ApplyImport
      <2>1. picked["import"] \in SUBSET Threads
            BY DEF QueueOK, Ops
      <2>2. adds' = adds \/ "migration" \in Kinds
            BY <1>10 DEF ApplyImport, KindsInPlay, AddsFor
      <2>3. 1 \in 1 .. Tries
            BY Numbers
      <2>4. QueueOK'
            BY <1>10, <2>1, <2>2, <2>3, AddsType DEF ApplyImport, QueueOK, Sources
      <2>5. ThreadsOK'
            BY <1>10, StampedType DEF ApplyImport, ThreadsOK, Statuses
      <2>6. KindsInPlay'
            BY <1>10 DEF ApplyImport, QueueOK, KindsInPlay, RouteKind, Ops, switchVars
      <2>.  QED BY <1>10, <2>4, <2>5, <2>6 DEF ApplyImport, MetersOK, SwitchesOK,
                         meterVars, switchVars
<1>11. CASE Disconnect
      BY <1>11, IdleType DEF Disconnect, QueueOK, KindsInPlay, ThreadsOK, MetersOK,
                   SwitchesOK, meterVars
<1>12. CASE Reconnect
      BY <1>12 DEF Reconnect, QueueOK, KindsInPlay, ThreadsOK, MetersOK, SwitchesOK,
                   queueVars, threadVars, meterVars
<1>.  QED BY <1>1, <1>2, <1>3, <1>4, <1>5, <1>6, <1>7, <1>8, <1>9, <1>10, <1>11, <1>12
          DEF Request

LEMMA TypeStutter ==
    ASSUME TypeInv, UNCHANGED vars
    PROVE  TypeInv'
BY DEF TypeInv, TypeOK, QueueOK, ThreadsOK, MetersOK, SwitchesOK, KindsInPlay,
       vars, queueVars, threadVars, meterVars, switchVars

LEMMA TypeNext == TypeInv /\ [Next]_vars => TypeInv'
BY TypeWork, TypeQueue, TypeSync, TypeRequest, TypeEnvironment, TypeStutter
   DEF Next, Environment

\* Every reachable state is well typed: in particular no job is queued or runs
\* without an attempt left, and no thread's failures exceed the bound the
\* recovery sweep counts to.
THEOREM TypeCorrect == Spec => []TypeOK
<1>1. Spec => []TypeInv
      BY TypeInit, TypeNext, PTL DEF Spec
<1>2. TypeInv => TypeOK
      BY DEF TypeInv
<1>.  QED BY <1>1, <1>2, PTL

-----------------------------------------------------------------------------
(* The safety of the sorter and of its meter.                               *)

\* The steps a triage-only job never takes.
RoutingSteps == {"pin", "count", "gate", "defer", "commit", "file", "status", "review"}

\* What a job knows: a sort to be metered is not a backfill's, and the month it
\* will charge has begun; behind a status to be written there is a row.
JobFacts ==
    \A j \in Jobs :
        /\ job[j].met => job[j].src # "BACKFILL"
        /\ job[j].win <= month
        /\ job[j].at \in {"status", "review"} => lastRow[Thread(j)] # "NONE"
        /\ IsTriage(j) => job[j].at \notin RoutingSteps

RowInv == TypeInv /\ JobFacts /\ StatusBackedByRow /\ ChargedSortsLanded

LEMMA RowInit == Init => RowInv
<1>. SUFFICES ASSUME Init PROVE RowInv
     OBVIOUS
<1>1. JobFacts
      BY DEF Init, JobFacts, Idle, RoutingSteps
<1>2. StatusBackedByRow /\ ChargedSortsLanded
      BY DEF Init, StatusBackedByRow, ChargedSortsLanded
<1>.  QED BY <1>1, <1>2, TypeInit DEF RowInv

\* A step of a job leaves the other jobs alone.
LEMMA WorkAlone ==
    ASSUME TypeInv, NEW j \in Jobs, Work(j)
    PROVE  /\ \A i \in Jobs \ {j} : job'[i] = job[i]
           /\ UNCHANGED month
BY DEF TypeInv, TypeOK, QueueOK, Work, Load, CheckPin, CountRows, CheckQuota, Defer,
       StampThread, Sort, AuthFailure, Commit, WriteStatus, FileNoText, ReviewNoText,
       PersistTriage, Settle, FailedEvent, Goto, Return, Throw, ThrowForGood, meterVars

\* Who adds a classification row.
LEMMA RowWriters ==
    ASSUME [Next]_vars
    PROVE  \/ UNCHANGED <<lastRow, counted>>
           \/ \E j \in Jobs : /\ job[j].at \in {"commit", "file"}
                             /\ Work(j)
                             /\ AddRow(Thread(j), job[j].src)
           \/ \E t \in Threads : AddRow(t, "MOVE")
           \/ ApplyImport
<1>1. ASSUME NEW j \in Jobs, Work(j)
      PROVE  \/ UNCHANGED <<lastRow, counted>>
             \/ job[j].at \in {"commit", "file"} /\ AddRow(Thread(j), job[j].src)
      BY <1>1 DEF Work, Load, CheckPin, CountRows, CheckQuota, Defer, StampThread, Sort,
                  AuthFailure, Commit, WriteStatus, FileNoText, ReviewNoText, PersistTriage,
                  Settle, FailedEvent, threadVars, meterVars
<1>2. CASE Sync
      BY <1>2 DEF Sync, StartRecovery, PickRecovery, EnqueueRecovery, threadVars, meterVars
<1>3. CASE Request
      BY <1>3 DEF Request, Move, AiClassify, AiTriage, Cancel, Pause, Resume, RouteUnrouted,
                  Reroute, EnqueueForRouting, ImportTaxonomy, Disconnect, Reconnect,
                  threadVars, meterVars
<1>4. CASE Environment
      BY <1>4 DEF Environment, SyncChanged, Age, Crash, LoseAdd, NewMonth, EditTaxonomy,
                  BackfillDone, threadVars, meterVars
<1>5. CASE \E a \in adds : AddBulk(a)
      BY <1>5 DEF AddBulk, threadVars, meterVars
<1>6. CASE UNCHANGED vars
      BY <1>6 DEF vars, threadVars, meterVars
<1>.  QED BY <1>1, <1>2, <1>3, <1>4, <1>5, <1>6 DEF Next

LEMMA RowsStay ==
    ASSUME TypeInv, [Next]_vars, NEW t \in Threads, lastRow[t] # "NONE"
    PROVE  lastRow'[t] # "NONE"
<1>1. lastRow \in [Threads -> {"NONE", "AUTO", "MANUAL", "MOVE", "MIGRATION"}]
      BY DEF TypeInv, TypeOK, ThreadsOK
<1>2. \A j \in Jobs : job[j].src # "NONE"
      BY DEF TypeInv, TypeOK, QueueOK, JobStates, Sources
<1>.  QED BY <1>1, <1>2, RowWriters DEF AddRow, ApplyImport

LEMMA AtFields ==
    ASSUME NEW j, NEW step
    PROVE  /\ At(j, step).at = step
           /\ At(j, step).src = job[j].src
           /\ At(j, step).met = FALSE
           /\ At(j, step).win = 0
BY DEF At, Idle

\* A job that leaves the try block knows nothing but its source.
LEMMA LeaveFields ==
    ASSUME TypeInv, NEW j \in Jobs, Return(j) \/ Throw(j) \/ ThrowForGood(j)
    PROVE  /\ job'[j].at = "settle"
           /\ job'[j].src = job[j].src
           /\ job'[j].met = FALSE
           /\ job'[j].win = 0
<1>1. /\ job \in [Jobs -> JobStates]
      /\ At(j, "settle") \in JobStates
      BY AtType DEF TypeInv, TypeOK, QueueOK, Running
<1>2. /\ At(j, "settle").at = "settle" /\ At(j, "settle").src = job[j].src
      /\ At(j, "settle").met = FALSE /\ At(j, "settle").win = 0
      BY DEF At, Idle
<1>.  DEFINE a == At(j, "settle")
<1>3. \/ job'[j] = a \/ job'[j] = [a EXCEPT !.ok = FALSE]
      \/ job'[j] = [a EXCEPT !.ok = FALSE, !.left = 1]
      BY <1>1 DEF Return, Throw, ThrowForGood
<1>.  HIDE DEF a
<1>4. a \in JobStates /\ a.at = "settle" /\ a.src = job[j].src /\ a.met = FALSE /\ a.win = 0
      BY <1>1, <1>2 DEF a
<1>.  QED BY <1>3, <1>4 DEF JobStates

\* What a step of the handler makes of its job.
LEMMA WorkFacts ==
    ASSUME RowInv, NEW j \in Jobs, Work(j)
    PROVE  /\ job'[j].met => job'[j].src # "BACKFILL"
           /\ job'[j].win <= month
           /\ IsTriage(j) => job'[j].at \notin RoutingSteps
           /\ job'[j].at \in {"status", "review"} => lastRow'[Thread(j)] # "NONE"
<1>1. /\ TypeInv
      /\ job \in [Jobs -> JobStates] /\ job[j] \in JobStates
      /\ job[j].met => job[j].src # "BACKFILL"
      /\ job[j].win <= month
      /\ IsTriage(j) => job[j].at \notin RoutingSteps
      BY DEF RowInv, TypeInv, TypeOK, QueueOK, JobFacts
<1>2. /\ month \in Nat /\ 0 <= month /\ Thread(j) \in Threads
      /\ lastRow \in [Threads -> {"NONE", "AUTO", "MANUAL", "MOVE", "MIGRATION"}]
      BY Numbers DEF RowInv, TypeInv, TypeOK, MetersOK, ThreadsOK, Windows, Jobs, Thread
<1>3. ASSUME Return(j) \/ Throw(j) \/ ThrowForGood(j) 
      PROVE  /\ job'[j].met => job'[j].src # "BACKFILL"
             /\ job'[j].win <= month
             /\ IsTriage(j) => job'[j].at \notin RoutingSteps
             /\ job'[j].at \in {"status", "review"} => lastRow'[Thread(j)] # "NONE"
      <2>1. job'[j].at = "settle" /\ job'[j].met = FALSE /\ job'[j].win = 0
            BY <1>1, <1>3, LeaveFields
      <2>.  QED BY <2>1, <1>2 DEF RoutingSteps
<1>4. CASE Load(j)
      <2>1. CASE job' = [job EXCEPT ![j] = Idle]
            BY <1>1, <1>2, <2>1 DEF RoutingSteps, Idle
      <2>2. CASE \E bulk \in BOOLEAN : job' = [job EXCEPT
                          ![j].at = IF IsTriage(j) THEN "stamp"
                                    ELSE IF job[j].src = "MANUAL" THEN "count" ELSE "pin",
                          ![j].met = ~IsTriage(j) /\ job[j].src # "BACKFILL" /\ ~bulk]
            BY <1>1, <1>2, <2>2 DEF RoutingSteps, JobStates
      <2>.  QED BY <1>4, <2>1, <2>2 DEF Load
<1>5. CASE CheckPin(j) \/ CountRows(j) \/ CheckQuota(j) \/ StampThread(j)
      <2>1. CASE CheckPin(j)
            BY <1>1, <1>2, <1>3, <2>1 DEF CheckPin, Goto, JobStates, RoutingSteps
      <2>2. CASE CountRows(j)
            BY <1>1, <1>2, <2>2 DEF CountRows, JobStates, RoutingSteps
      <2>3. CASE CheckQuota(j)
            BY <1>1, <1>2, <2>3 DEF CheckQuota, Goto, JobStates, RoutingSteps
      <2>4. CASE StampThread(j)
            BY <1>1, <1>2, <2>4 DEF StampThread, Goto, JobStates, RoutingSteps
      <2>.  QED BY <1>5, <2>1, <2>2, <2>3, <2>4
<1>6. CASE Defer(j) \/ AuthFailure(j) \/ ReviewNoText(j) \/ PersistTriage(j)
      <2>1. CASE Defer(j)
            BY <1>3, <2>1 DEF Defer
      <2>2. CASE AuthFailure(j)
            BY <1>3, <2>2 DEF AuthFailure
      <2>3. CASE ReviewNoText(j)
            BY <1>3, <2>3 DEF ReviewNoText
      <2>4. CASE PersistTriage(j)
            BY <1>3, <2>4 DEF PersistTriage
      <2>.  QED BY <1>6, <2>1, <2>2, <2>3, <2>4
<1>7. CASE Sort(j)
      <2>1. CASE Return(j) \/ Throw(j) \/ ThrowForGood(j)
            BY <1>3, <2>1
      <2>2. CASE ~IsTriage(j) /\ \E out \in Outcomes :
                     job' = [job EXCEPT ![j].at = "commit", ![j].out = out]
            BY <1>1, <1>2, <2>2 DEF JobStates
      <2>3. CASE ~IsTriage(j) /\ Goto(j, "file")
            BY <1>1, <1>2, <2>3 DEF Goto, JobStates
      <2>.  QED BY <1>7, <2>1, <2>2, <2>3 DEF Sort
<1>8. ASSUME NEW step, NEW n, job'[j] = [At(j, step) EXCEPT !.out = n] \/ job'[j] = At(j, step)
      PROVE  /\ job'[j].at = step /\ job'[j].met = FALSE /\ job'[j].win = 0
      BY <1>8 DEF At, Idle
<1>9. CASE Commit(j) \/ FileNoText(j)
      <2>1. CASE Throw(j)
            BY <1>3, <2>1
      <2>2. CASE AddRow(Thread(j), job[j].src) /\ ~Throw(j)
            <3>1. job'[j].met = FALSE /\ job'[j].win = 0 /\ ~IsTriage(j)
                  <4>1. ~IsTriage(j)
                        BY <1>1, <1>9 DEF Commit, FileNoText, RoutingSteps
                  <4>2. CASE Commit(j)
                        <5>1. job' = [job EXCEPT ![j] = [At(j, "status") EXCEPT !.out = job[j].out]]
                              BY <2>2, <4>2 DEF Commit
                        <5>2. job'[j] = [At(j, "status") EXCEPT !.out = job[j].out]
                              BY <1>1, <5>1
                        <5>.  QED BY <1>8, <4>1, <5>2
                  <4>3. CASE FileNoText(j)
                        <5>1. job' = [job EXCEPT ![j] = At(j, "review")]
                              BY <2>2, <4>3 DEF FileNoText
                        <5>2. job'[j] = At(j, "review")
                              BY <1>1, <5>1
                        <5>.  QED BY <1>8, <4>1, <5>2
                  <4>.  QED BY <1>9, <4>2, <4>3
            <3>2. lastRow'[Thread(j)] # "NONE"
                  BY <1>1, <1>2, <2>2 DEF AddRow, JobStates, Sources
            <3>.  QED BY <1>2, <3>1, <3>2
      <2>.  QED BY <1>9, <2>1, <2>2 DEF Commit, FileNoText
<1>10. CASE WriteStatus(j)
      <2>1. CASE Throw(j)
            BY <1>3, <2>1
      <2>2. CASE job' = [job EXCEPT ![j] = At(j, "triage")]
            <3>1. job'[j] = At(j, "triage")
                  BY <1>1, <2>2
            <3>2. job'[j].at = "triage" /\ job'[j].met = FALSE /\ job'[j].win = 0
                  BY <3>1 DEF At, Idle
            <3>.  QED BY <1>2, <3>2 DEF RoutingSteps
      <2>.  QED BY <1>10, <2>1, <2>2 DEF WriteStatus
<1>11. CASE Settle(j)
      BY <1>1, <1>2, <1>11 DEF Settle, JobStates, RoutingSteps, Idle
<1>12. CASE FailedEvent(j)
      <2>1. CASE job' = [job EXCEPT ![j] = Idle]
            BY <1>1, <1>2, <2>1 DEF RoutingSteps, Idle
      <2>2. CASE job' = [job EXCEPT ![j] = [At(j, "queued") EXCEPT !.left = @ - 1]]
            <3>1. job'[j] = [At(j, "queued") EXCEPT !.left = @ - 1]
                  BY <1>1, <2>2
            <3>2. job'[j].at = "queued" /\ job'[j].met = FALSE /\ job'[j].win = 0
                  BY <3>1 DEF At, Idle
            <3>.  QED BY <1>2, <3>2 DEF RoutingSteps
      <2>.  QED BY <1>12, <2>1, <2>2 DEF FailedEvent
<1>.  QED BY <1>4, <1>5, <1>6, <1>7, <1>9, <1>10, <1>11, <1>12 DEF Work

\* Whatever changes a job and is not its own next step leaves it idle or queued.
LEMMA JobSteps ==
    ASSUME TypeInv, [Next]_vars, NEW j \in Jobs
    PROVE  \/ job'[j] = job[j]
           \/ Work(j)
           \/ /\ job'[j].at \in {"idle", "queued"}
              /\ job'[j].met = FALSE /\ job'[j].win = 0
<1>1. job \in [Jobs -> JobStates]
      BY DEF TypeInv, TypeOK, QueueOK
<1>2. Idle.at = "idle" /\ Idle.met = FALSE /\ Idle.win = 0
      BY DEF Idle
<1>3. ASSUME NEW i \in Jobs, Work(i)
      PROVE  job'[j] = job[j] \/ Work(j)
      BY <1>3, WorkAlone
<1>4. ASSUME NEW a \in adds, AddBulk(a)
      PROVE  job'[j] = job[j] \/ job'[j] = [Idle EXCEPT !.at = "queued", !.src = a.src, !.left = a.left]
      BY <1>1, <1>4 DEF AddBulk
<1>5. CASE Sync
      BY <1>5 DEF Sync, StartRecovery, PickRecovery, EnqueueRecovery
<1>6. CASE Request
      <2>1. ASSUME NEW t \in Threads, Cancel(t)
            PROVE  job'[j] = job[j] \/ job'[j] = Idle
            BY <1>1, <2>1 DEF Cancel
      <2>2. CASE Disconnect
            BY <1>2, <2>2 DEF Disconnect
      <2>3. CASE ~Disconnect /\ \A t \in Threads : ~Cancel(t)
            BY <1>6, <2>3 DEF Request, Move, AiClassify, AiTriage, Pause, Resume, RouteUnrouted,
                  Reroute, EnqueueForRouting, ImportTaxonomy, ApplyImport, Reconnect, queueVars
      <2>.  QED BY <1>2, <2>1, <2>2, <2>3
<1>7. ASSUME NEW i \in Jobs, Crash(i)
      PROVE  \/ job'[j] = job[j] \/ job'[j] = Idle
             \/ job'[j] = [At(j, "queued") EXCEPT !.stalls = @ + 1]
      BY <1>1, <1>7 DEF Crash
<1>8. CASE Environment
      <2>1. CASE \E i \in Jobs : Crash(i)
            BY <1>2, <1>7, <2>1 DEF At, Idle
      <2>2. CASE \A i \in Jobs : ~Crash(i)
            BY <1>8, <2>2 DEF Environment, SyncChanged, Age, LoseAdd, NewMonth, EditTaxonomy,
                  BackfillDone, queueVars
      <2>.  QED BY <2>1, <2>2
<1>9. CASE UNCHANGED vars
      BY <1>9 DEF vars, queueVars
<1>10. CASE \E a \in adds : AddBulk(a)
      BY <1>4, <1>10 DEF Idle
<1>.  QED BY <1>3, <1>5, <1>6, <1>8, <1>9, <1>10 DEF Next

LEMMA MonthSteps ==
    ASSUME TypeInv, [Next]_vars
    PROVE  month \in Nat /\ month' \in Nat /\ month <= month'
<1>1. month \in Nat
      BY Numbers DEF TypeInv, TypeOK, MetersOK, Windows
<1>2. CASE \E j \in Jobs : Work(j)
      BY <1>1, <1>2, WorkAlone
<1>3. CASE month' = month
      BY <1>1, <1>3
<1>5. CASE Request
      BY <1>3, <1>5 DEF Request, Move, AiClassify, AiTriage, Cancel, Pause, Resume,
            RouteUnrouted, Reroute, EnqueueForRouting, ImportTaxonomy, ApplyImport,
            Disconnect, Reconnect, meterVars
<1>6. CASE Sync \/ UNCHANGED vars \/ \E a \in adds : AddBulk(a)
      BY <1>3, <1>6 DEF Sync, StartRecovery, PickRecovery, EnqueueRecovery, AddBulk,
            vars, meterVars
<1>7. CASE Environment /\ ~NewMonth
      BY <1>3, <1>7 DEF Environment, SyncChanged, Age, Crash, LoseAdd, EditTaxonomy,
            BackfillDone, meterVars
<1>4. CASE NewMonth
      BY <1>1, <1>4 DEF NewMonth
<1>.  QED BY <1>2, <1>4, <1>5, <1>6, <1>7 DEF Next

\* A step leaves a thread's status alone, sends it back to wait, or has a
\* classification behind it.
LEMMA StatusSteps ==
    ASSUME RowInv, [Next]_vars, NEW t \in Threads
    PROVE  \/ status'[t] = status[t]
           \/ status'[t] \in {"PENDING", "QUOTA_BLOCKED"}
           \/ lastRow'[t] # "NONE"
<1>1. /\ status \in [Threads -> Statuses]
      /\ lastRow \in [Threads -> {"NONE", "AUTO", "MANUAL", "MOVE", "MIGRATION"}]
      BY DEF RowInv, TypeInv, TypeOK, ThreadsOK
<1>2. \A j \in Jobs : job[j].at \in {"status", "review"} => lastRow[Thread(j)] # "NONE"
      BY DEF RowInv, JobFacts
<1>3. ASSUME NEW j \in Jobs, Work(j), status' # status
      PROVE  \/ status'[t] = status[t]
             \/ status'[t] \in {"PENDING", "QUOTA_BLOCKED"}
             \/ lastRow'[t] # "NONE"
      <2>1. CASE Defer(j)
            BY <1>1, <2>1 DEF Defer
      <2>2. CASE WriteStatus(j) \/ ReviewNoText(j)
            BY <1>1, <1>2, <2>2 DEF WriteStatus, ReviewNoText
      <2>.  QED BY <1>3, <2>1, <2>2 DEF Work, Load, CheckPin, CountRows, CheckQuota,
                  StampThread, Sort, AuthFailure, Commit, FileNoText, PersistTriage,
                  Settle, FailedEvent, threadVars
<1>4. CASE Sync
      BY <1>4 DEF Sync, StartRecovery, PickRecovery, EnqueueRecovery, threadVars
<1>5. CASE Request
      BY <1>1, <1>5 DEF Request, Move, AddRow, AiClassify, AiTriage, Cancel, Pause, Resume,
                  RouteUnrouted, Reroute, EnqueueForRouting, ImportTaxonomy, ApplyImport,
                  Disconnect, Reconnect, threadVars
<1>6. CASE Environment \/ \E a \in adds : AddBulk(a)
      BY <1>6 DEF Environment, SyncChanged, Age, Crash, LoseAdd, NewMonth, EditTaxonomy,
                  BackfillDone, AddBulk, threadVars
<1>7. CASE UNCHANGED vars
      BY <1>7 DEF vars, threadVars
<1>.  QED BY <1>3, <1>4, <1>5, <1>6, <1>7 DEF Next

\* Rows are never deleted, and a thread is charged as its row is written.
LEMMA ChargeSteps ==
    ASSUME RowInv, [Next]_vars, NEW t \in Threads
    PROVE  /\ counted[t] \subseteq counted'[t]
           /\ \A w \in Windows : <<w, t>> \in markers' =>
                  <<w, t>> \in markers \/ (month \in counted'[t] /\ w <= month)
<1>1. /\ counted \in [Threads -> SUBSET Windows]
      /\ \A j \in Jobs : job[j].win <= month /\ (job[j].met => job[j].src # "BACKFILL")
      /\ \A j \in Jobs : job[j].src \in Sources
      BY DEF RowInv, TypeInv, TypeOK, MetersOK, QueueOK, JobStates, JobFacts
<1>2. CASE UNCHANGED <<counted, markers>>
      BY <1>2
<1>3. ASSUME NEW j \in Jobs, Work(j), ~UNCHANGED <<counted, markers>>
      PROVE  Commit(j) \/ FileNoText(j)
      BY <1>3 DEF Work, Load, CheckPin, CountRows, CheckQuota, Defer,
            StampThread, Sort, AuthFailure, WriteStatus, ReviewNoText, PersistTriage,
            Settle, FailedEvent, threadVars, meterVars
<1>4. ASSUME NEW j \in Jobs, FileNoText(j)
      PROVE  counted[t] \subseteq counted'[t] /\ markers' = markers
      BY <1>1, <1>4 DEF FileNoText, AddRow
<1>5. ASSUME NEW j \in Jobs, Commit(j)
      PROVE  /\ counted[t] \subseteq counted'[t]
             /\ \A w \in Windows : <<w, t>> \in markers' =>
                  <<w, t>> \in markers \/ (month \in counted'[t] /\ w <= month)
      <2>1. CASE UNCHANGED meterVars
            BY <1>1, <2>1 DEF meterVars
      <2>2. CASE AddRow(Thread(j), job[j].src) /\ UNCHANGED markers
            BY <1>1, <2>2 DEF AddRow
      <2>3. CASE AddRow(Thread(j), job[j].src) /\ job[j].met /\ RecordMeterUsage(job[j].win, Thread(j))
            <3>1. CountedSource(job[j].src)
                  BY <1>1, <2>3 DEF CountedSource, Sources
            <3>2. counted' = [counted EXCEPT ![Thread(j)] = @ \cup {month}]
                  BY <2>3, <3>1 DEF AddRow
            <3>3. markers' = markers \cup {<<job[j].win, Thread(j)>>}
                  BY <2>3 DEF RecordMeterUsage
            <3>.  QED BY <1>1, <3>2, <3>3
      <2>.  QED BY <1>5, <2>1, <2>2, <2>3 DEF Commit
<1>6. CASE Request
      BY <1>2, <1>6 DEF Request, Move, AddRow, CountedSource, AiClassify, AiTriage, Cancel,
                  Pause, Resume, RouteUnrouted, Reroute, EnqueueForRouting, ImportTaxonomy,
                  ApplyImport, Disconnect, Reconnect, meterVars
<1>7. CASE Sync \/ Environment \/ UNCHANGED vars \/ \E a \in adds : AddBulk(a)
      BY <1>2, <1>7 DEF Sync, StartRecovery, PickRecovery, EnqueueRecovery, Environment, SyncChanged,
                  Age, Crash, LoseAdd, NewMonth, EditTaxonomy, BackfillDone, AddBulk,
                  vars, meterVars
<1>.  QED BY <1>2, <1>3, <1>4, <1>5, <1>6, <1>7 DEF Next

LEMMA RowNext == RowInv /\ [Next]_vars => RowInv'
<1>. SUFFICES ASSUME RowInv, [Next]_vars PROVE RowInv'
     OBVIOUS
<1>1. TypeInv /\ TypeInv'
      BY TypeNext DEF RowInv
<1>2. month \in Nat /\ month' \in Nat /\ month <= month'
      BY <1>1, MonthSteps
<1>3. JobFacts'
      <2>. SUFFICES ASSUME NEW j \in Jobs
                    PROVE  /\ job'[j].met => job'[j].src # "BACKFILL"
                           /\ job'[j].win <= month'
                           /\ job'[j].at \in {"status", "review"} => lastRow'[Thread(j)] # "NONE"
                           /\ IsTriage(j) => job'[j].at \notin RoutingSteps
           BY DEF JobFacts
      <2>1. job'[j].win \in Nat
            BY <1>1, Numbers DEF TypeInv, TypeOK, QueueOK, JobStates, Windows
      <2>2. CASE Work(j)
            BY <1>2, <2>1, <2>2, WorkFacts
      <2>3. CASE job'[j] = job[j]
            <3>1. Thread(j) \in Threads
                  BY DEF Jobs, Thread
            <3>.  QED BY <1>1, <1>2, <2>1, <2>3, <3>1, RowsStay DEF RowInv, JobFacts
      <2>4. CASE /\ job'[j].at \in {"idle", "queued"}
                 /\ job'[j].met = FALSE /\ job'[j].win = 0
            BY <1>2, <2>4 DEF RoutingSteps
      <2>.  QED BY <1>1, <2>2, <2>3, <2>4, JobSteps
<1>4. StatusBackedByRow'
      BY <1>1, StatusSteps, RowsStay DEF RowInv, StatusBackedByRow
<1>5. ChargedSortsLanded'
      <2>. SUFFICES ASSUME NEW w \in Windows, NEW t \in Threads, <<w, t>> \in markers'
                    PROVE  \E v \in counted'[t] : v >= w
           BY DEF ChargedSortsLanded
      <2>1. CASE <<w, t>> \in markers
            BY <2>1, ChargeSteps DEF RowInv, ChargedSortsLanded
      <2>2. CASE month \in counted'[t] /\ w <= month
            BY <1>2, <2>2, Numbers DEF Windows
      <2>.  QED BY <2>1, <2>2, ChargeSteps
<1>.  QED BY <1>1, <1>3, <1>4, <1>5 DEF RowInv

LEMMA RowAlways == Spec => []RowInv
BY RowInit, RowNext, PTL DEF Spec

\* Whatever jobs, retries, crashes and requests interleave, no thread shows a
\* sorted status without a classification that put it there.
THEOREM StatusAlwaysBacked == Spec => []StatusBackedByRow
<1>1. RowInv => StatusBackedByRow
      BY DEF RowInv
<1>.  QED BY <1>1, RowAlways, PTL

\* No thread is charged to a month unless a sort of it landed in that month or a
\* later one.
THEOREM ChargedAlwaysLanded == Spec => []ChargedSortsLanded
<1>1. RowInv => ChargedSortsLanded
      BY DEF RowInv
<1>.  QED BY <1>1, RowAlways, PTL

\* The only ways past the pin check: a user's own sort, and a thread whose
\* latest classification is no manual move.
LEMMA PastPinSteps ==
    ASSUME RowInv, NEW j \in Jobs, Work(j), ~IsTriage(j), job'[j].at \in PastPin
    PROVE  /\ job'[j].src = job[j].src
           /\ \/ job[j].at \in PastPin
              \/ job[j].src = "MANUAL"
              \/ lastRow[Thread(j)] # "MOVE"
<1>1. TypeInv /\ job \in [Jobs -> JobStates] /\ job[j] \in JobStates
      BY DEF RowInv, TypeInv, TypeOK, QueueOK
<1>2. ~Return(j) /\ ~Throw(j) /\ ~ThrowForGood(j)
      BY <1>1, LeaveFields DEF PastPin
<1>3. CASE Load(j)
      <2>1. job' # [job EXCEPT ![j] = Idle]
            BY <1>1 DEF PastPin, Idle
      <2>2. PICK bulk \in BOOLEAN : job' = [job EXCEPT
                          ![j].at = IF IsTriage(j) THEN "stamp"
                                    ELSE IF job[j].src = "MANUAL" THEN "count" ELSE "pin",
                          ![j].met = ~IsTriage(j) /\ job[j].src # "BACKFILL" /\ ~bulk]
            BY <1>3, <2>1 DEF Load
      <2>.  QED BY <1>1, <2>2 DEF JobStates, PastPin
<1>4. CASE CheckPin(j) \/ CountRows(j) \/ CheckQuota(j) \/ StampThread(j)
      BY <1>1, <1>2, <1>4 DEF CheckPin, CountRows, CheckQuota, StampThread, Goto, JobStates,
            PastPin
<1>5. CASE Sort(j)
      BY <1>1, <1>2, <1>5 DEF Sort, Goto, JobStates, PastPin
<1>6. CASE Commit(j)
      <2>1. job'[j] = [At(j, "status") EXCEPT !.out = job[j].out] /\ job[j].at = "commit"
            BY <1>1, <1>2, <1>6 DEF Commit
      <2>2. job'[j].src = job[j].src
            BY <2>1 DEF At, Idle
      <2>.  QED BY <2>1, <2>2 DEF PastPin
<1>7. CASE FileNoText(j)
      <2>1. job'[j] = At(j, "review") /\ job[j].at = "file"
            BY <1>1, <1>2, <1>7 DEF FileNoText
      <2>2. job'[j].src = job[j].src
            BY <2>1 DEF At, Idle
      <2>.  QED BY <2>1, <2>2 DEF PastPin
<1>8. CASE WriteStatus(j)
      <2>1. job'[j] = At(j, "triage")
            BY <1>1, <1>2, <1>8 DEF WriteStatus
      <2>2. job'[j].at = "triage"
            BY <2>1 DEF At, Idle
      <2>.  QED BY <2>2 DEF PastPin
<1>9. CASE Settle(j)
      BY <1>1, <1>9 DEF Settle, JobStates, Idle, PastPin
<1>10. CASE FailedEvent(j)
      <2>1. job'[j] = Idle \/ job'[j] = [At(j, "queued") EXCEPT !.left = @ - 1]
            BY <1>1, <1>10 DEF FailedEvent
      <2>2. CASE job'[j] = Idle
            BY <2>2 DEF Idle, PastPin
      <2>3. CASE job'[j] = [At(j, "queued") EXCEPT !.left = @ - 1]
            <3>1. job'[j].at = "queued"
                  BY <2>3 DEF At, Idle
            <3>.  QED BY <3>1 DEF PastPin
      <2>.  QED BY <2>1, <2>2, <2>3
<1>.  QED BY <1>2, <1>3, <1>4, <1>5, <1>6, <1>7, <1>8, <1>9, <1>10
          DEF Work, Defer, AuthFailure, ReviewNoText, PersistTriage

\* Who may write over a pinned thread's row.
LEMMA PinnedRow ==
    ASSUME RowInv, [Next]_vars, NEW t \in Threads, Pinned(t)
    PROVE  lastRow'[t] \in {"MOVE", "MANUAL", "MIGRATION"}
<1>1. /\ lastRow \in [Threads -> {"NONE", "AUTO", "MANUAL", "MOVE", "MIGRATION"}]
      /\ lastRow[t] = "MOVE"
      BY DEF RowInv, TypeInv, TypeOK, ThreadsOK, Pinned
<1>2. ASSUME NEW j \in Jobs, job[j].at \in {"commit", "file"}, AddRow(Thread(j), job[j].src)
      PROVE  lastRow'[t] \in {"MOVE", "MANUAL"}
      <2>1. CASE Thread(j) = t
            <3>1. ~IsTriage(j)
                  BY <1>2 DEF RowInv, JobFacts, RoutingSteps
            <3>2. job[j].src = "MANUAL"
                  BY <1>2, <2>1, <3>1 DEF Pinned, PastPin
            <3>.  QED BY <1>1, <1>2, <2>1, <3>2 DEF AddRow
      <2>.  QED BY <1>1, <1>2, <2>1 DEF AddRow
<1>3. ASSUME NEW u \in Threads, AddRow(u, "MOVE")
      PROVE  lastRow'[t] = "MOVE"
      BY <1>1, <1>3 DEF AddRow
<1>4. CASE ApplyImport
      BY <1>1, <1>4 DEF ApplyImport
<1>.  QED BY <1>1, <1>2, <1>3, <1>4, RowWriters

LEMMA PinStep ==
    ASSUME RowInv, [Next]_vars, NEW t \in Threads, Pinned(t)
    PROVE  Pinned(t)' \/ lastRow'[t] \in {"MANUAL", "MIGRATION"}
<1>1. ASSUME NEW j \in Jobs, Thread(j) = t, ~IsTriage(j), job'[j].src # "MANUAL"
      PROVE  job'[j].at \notin PastPin
      <2>1. lastRow[t] = "MOVE" /\ (job[j].src # "MANUAL" => job[j].at \notin PastPin)
            BY <1>1 DEF Pinned
      <2>2. CASE Work(j)
            BY <1>1, <2>1, <2>2, PastPinSteps
      <2>3. CASE job'[j] = job[j]
            BY <1>1, <2>1, <2>3
      <2>4. CASE job'[j].at \in {"idle", "queued"}
            BY <2>4 DEF PastPin
      <2>.  QED BY <2>2, <2>3, <2>4, JobSteps DEF RowInv
<1>.  QED BY <1>1, PinnedRow DEF Pinned, IsTriage, Thread

\* A manual move is never undone by an automatic sort that had not passed its
\* pin check when the user moved the thread: not by a retry, a sweep, a
\* re-route or a crash.
THEOREM PinAlwaysHolds == Spec => PinHolds
<1>1. RowInv /\ [Next]_vars =>
         [\A t \in Threads : Pinned(t) =>
             Pinned(t)' \/ lastRow'[t] \in {"MANUAL", "MIGRATION"}]_vars
      BY PinStep
<1>.  QED BY <1>1, RowAlways, PTL DEF Spec, PinHolds

-----------------------------------------------------------------------------
(* The meter.                                                              *)

Kept == INSTANCE UsageLedgerProofs WITH
           Meters <- Windows, Units <- Threads, used <- used,
           charged <- [w \in Windows |-> {t \in Threads : <<w, t>> \in markers}]

\* The instances count as this module does.
LEMMA LedgerCounts ==
    \A S : /\ Ledger!IsFiniteSet(S) <=> IsFiniteSet(S)
           /\ Ledger!Cardinality(S) = Cardinality(S)
BY DEF Ledger!IsFiniteSet, IsFiniteSet, Ledger!Cardinality, Cardinality

LEMMA KeptCounts ==
    \A S : /\ Kept!IsFiniteSet(S) <=> IsFiniteSet(S)
           /\ Kept!Cardinality(S) = Cardinality(S)
BY DEF Kept!IsFiniteSet, IsFiniteSet, Kept!Cardinality, Cardinality

\* Nothing but the commit of a metered sort touches the meters.
Lands(j) ==
    /\ job[j].at = "commit" /\ job[j].met
    /\ RecordMeterUsage(job[j].win, Thread(j))
    /\ job' = [job EXCEPT ![j] = [At(j, "status") EXCEPT !.out = job[j].out]]

LEMMA Charges ==
    ASSUME [Next]_vars
    PROVE  \/ UNCHANGED <<used, markers>>
           \/ \E j \in Jobs : Lands(j)
<1>2. ASSUME NEW j \in Jobs, Work(j)
      PROVE  \/ UNCHANGED <<used, markers>>
             \/ Lands(j)
      <2>1. CASE Commit(j)
            BY <2>1 DEF Commit, Lands, meterVars
      <2>.  QED BY <1>2, <2>1 DEF Work, Load, CheckPin, CountRows, CheckQuota, Defer,
            StampThread, Sort, AuthFailure, FileNoText, WriteStatus, ReviewNoText,
            PersistTriage, Settle, FailedEvent, meterVars
<1>3. CASE Request
      BY <1>3 DEF Request, Move, AiClassify, AiTriage, Cancel, Pause, Resume,
            RouteUnrouted, Reroute, EnqueueForRouting, ImportTaxonomy, ApplyImport,
            Disconnect, Reconnect, meterVars
<1>4. CASE Sync \/ UNCHANGED vars \/ \E a \in adds : AddBulk(a)
      BY <1>4 DEF Sync, StartRecovery, PickRecovery, EnqueueRecovery, AddBulk, vars, meterVars
<1>5. CASE Environment
      BY <1>5 DEF Environment, SyncChanged, Age, Crash, LoseAdd, NewMonth, EditTaxonomy,
            BackfillDone, meterVars
<1>.  QED BY <1>2, <1>3, <1>4, <1>5 DEF Next

LEMMA MeterSteps ==
    ASSUME TypeInv, [Next]_vars
    PROVE  \/ UNCHANGED <<used, markers>>
           \/ \E w \in Windows, t \in Threads : RecordMeterUsage(w, t)
<1>1. \A j \in Jobs : job[j].win \in Windows /\ Thread(j) \in Threads
      BY DEF TypeInv, TypeOK, QueueOK, JobStates, Jobs, Thread
<1>.  QED BY <1>1, Charges DEF Lands

LEMMA LedgerStep ==
    ASSUME TypeInv, [Next]_vars
    PROVE  [Ledger!LedgerNext]_(Ledger!ledgerVars)
<1>.  DEFINE charged == [w \in Windows |-> {t \in Threads : <<w, t>> \in markers}]
<1>1. used \in [Windows -> Nat]
      BY DEF TypeInv, TypeOK, MetersOK
<1>2. CASE UNCHANGED <<used, markers>>
      BY <1>2 DEF Ledger!ledgerVars
<1>3. ASSUME NEW w \in Windows, NEW t \in Threads, RecordMeterUsage(w, t), <<w, t>> \in markers
      PROVE  UNCHANGED <<used, markers>>
      BY <1>3 DEF RecordMeterUsage
<1>4. ASSUME NEW w \in Windows, NEW t \in Threads, RecordMeterUsage(w, t), <<w, t>> \notin markers
      PROVE  Ledger!LedgerNext
      <2>1. IsFiniteSet({t}) /\ Cardinality({t}) = 1
            BY FS_Singleton
      <2>2. {t} \cap charged[w] = {}
            BY <1>4
      <2>3. charged' = [charged EXCEPT ![w] = @ \cup {t}]
            BY <1>4 DEF RecordMeterUsage
      <2>4. used' = [used EXCEPT ![w] = @ + 1]
            BY <1>4 DEF RecordMeterUsage
      <2>5. used' = [used EXCEPT ![w] = @ + Cardinality({t})]
            BY <2>1, <2>4
      <2>.  HIDE DEF charged
      <2>6. \E S \in SUBSET Threads :
               /\ IsFiniteSet(S)
               /\ S \cap charged[w] = {}
               /\ charged' = [charged EXCEPT ![w] = @ \cup S]
               /\ used' = [used EXCEPT ![w] = @ + Cardinality(S)]
            BY <2>1, <2>2, <2>3, <2>5
      <2>.  QED BY <2>6, LedgerCounts DEF Ledger!LedgerNext, Ledger!Charge, charged
<1>.  QED BY <1>2, <1>3, <1>4, MeterSteps

\* The thread sorter implements the usage ledger.
THEOREM SorterImplementsLedger == Spec => ImplementsLedger
<1>1. Init => Ledger!LedgerInit
      BY DEF Init, Ledger!LedgerInit
<1>2. TypeInv /\ [Next]_vars => [Ledger!LedgerNext]_(Ledger!ledgerVars)
      BY LedgerStep
<1>3. Spec => []TypeInv
      BY TypeInit, TypeNext, PTL DEF Spec
<1>.  QED BY <1>1, <1>2, <1>3, PTL DEF Spec, ImplementsLedger, Ledger!LedgerSpec

\* Hence a month's meter is the number of distinct threads metered in it.
THEOREM MeterAlwaysCounts == Spec => []MeterCountsDistinctThreads
<1>1. Ledger!LedgerInit => Kept!LedgerInit
      BY DEF Ledger!LedgerInit, Kept!LedgerInit
<1>2. [Ledger!LedgerNext]_(Ledger!ledgerVars) => [Kept!LedgerNext]_(Kept!ledgerVars)
      BY LedgerCounts, KeptCounts DEF Ledger!LedgerNext, Kept!LedgerNext, Ledger!ledgerVars,
         Kept!ledgerVars, Ledger!Charge, Kept!Charge
<1>3. Kept!LedgerSpec => [](Kept!LedgerTypeOK /\ Kept!LedgerBalanced)
      BY Kept!LedgerKept
<1>4. Kept!LedgerBalanced => MeterCountsDistinctThreads
      BY KeptCounts DEF Kept!LedgerBalanced, MeterCountsDistinctThreads
<1>.  QED BY <1>1, <1>2, <1>3, <1>4, SorterImplementsLedger, PTL
          DEF ImplementsLedger, Ledger!LedgerSpec, Kept!LedgerSpec

\* The jobs that run at once are no more than the workers' slots, and the gate
\* keeps the meter and what is about to be metered under the bound.
GateInv == RowInv /\ Cardinality(Active) <= Concurrency /\ OvershootBounded

LEMMA JobsFinite ==
    /\ IsFiniteSet(Jobs) /\ IsFiniteSet(Active)
    /\ \A w : IsFiniteSet(AboutToMeter(w))
<1>1. IsFiniteSet(Jobs)
      BY ConstantsAssumption, FS_Product DEF Jobs
<1>2. Active \in SUBSET Jobs /\ \A w : AboutToMeter(w) \in SUBSET Jobs
      BY DEF Active, AboutToMeter
<1>.  QED BY <1>1, <1>2, FS_Subset

LEMMA GateInit == Init => GateInv
<1>. SUFFICES ASSUME Init PROVE GateInv
     OBVIOUS
<1>1. Active = {} /\ \A w : AboutToMeter(w) = {}
      BY DEF Init, Active, AboutToMeter, Idle, Running
<1>2. \A w \in Windows : used[w] = 0
      BY DEF Init
<1>.  QED BY <1>1, <1>2, RowInit, FS_EmptySet, Numbers DEF GateInv, OvershootBounded

\* A job starts to run only when it is loaded.
LEMMA ActiveSteps ==
    ASSUME TypeInv, [Next]_vars
    PROVE  \/ Active' \subseteq Active
           \/ \E j \in Jobs : Load(j) /\ Active' \subseteq Active \cup {j}
<1>1. ASSUME NEW i \in Jobs, job'[i].at \in Running, job[i].at \notin Running
      PROVE  Load(i)
      <2>1. Work(i)
            BY <1>1, JobSteps DEF Running
      <2>.  QED BY <1>1, <2>1 DEF Work, CheckPin, CountRows, CheckQuota, Defer,
            StampThread, Sort, AuthFailure, Commit, FileNoText, WriteStatus, ReviewNoText,
            PersistTriage, Settle, FailedEvent, Running
<1>2. ASSUME NEW j \in Jobs, Load(j)
      PROVE  Active' \subseteq Active \cup {j}
      <2>1. Work(j)
            BY <1>2 DEF Work
      <2>.  QED BY <2>1, WorkAlone DEF Active
<1>3. CASE \A j \in Jobs : ~Load(j)
      BY <1>1, <1>3 DEF Active
<1>.  QED BY <1>2, <1>3

\* A job is about to be metered once it has passed the gate, below the limit.
LEMMA MeteredSteps ==
    ASSUME RowInv, Enforce, NEW j \in Jobs, Work(j),
           job'[j].at \in {"stamp", "sort", "commit"}, job'[j].met
    PROVE  \/ /\ job[j].at \in {"stamp", "sort"} /\ job[j].met
              /\ job'[j].win = job[j].win
           \/ CheckQuota(j) /\ used[job'[j].win] < Limit
<1>1. /\ TypeInv /\ job \in [Jobs -> JobStates] /\ job[j] \in JobStates
      /\ used \in [Windows -> Nat] /\ Limit \in Nat
      BY Numbers DEF RowInv, TypeInv, TypeOK, QueueOK, MetersOK
<1>2. ~Return(j) /\ ~Throw(j) /\ ~ThrowForGood(j)
      BY <1>1, LeaveFields
<1>3. CASE Load(j)
      <2>1. job' # [job EXCEPT ![j] = Idle]
            BY <1>1 DEF Idle
      <2>2. PICK bulk \in BOOLEAN : job' = [job EXCEPT
                          ![j].at = IF IsTriage(j) THEN "stamp"
                                    ELSE IF job[j].src = "MANUAL" THEN "count" ELSE "pin",
                          ![j].met = ~IsTriage(j) /\ job[j].src # "BACKFILL" /\ ~bulk]
            BY <1>3, <2>1 DEF Load
      <2>.  QED BY <1>1, <2>2 DEF JobStates
<1>4. CASE CheckPin(j) \/ StampThread(j)
      BY <1>1, <1>2, <1>4 DEF CheckPin, StampThread, Goto, JobStates
<1>5. CASE CountRows(j)
      BY <1>1, <1>5 DEF CountRows, JobStates
<1>6. CASE CheckQuota(j)
      <2>1. /\ job'[j].win = job[j].win
            /\ job'[j].at = IF used[job[j].win] >= Limit THEN "defer" ELSE "stamp"
            BY <1>1, <1>6 DEF CheckQuota, Goto, JobStates
      <2>2. used[job[j].win] \in Nat
            BY <1>1 DEF JobStates
      <2>.  QED BY <1>1, <1>6, <2>1, <2>2
<1>7. CASE Sort(j)
      BY <1>1, <1>2, <1>7 DEF Sort, Goto, JobStates
<1>8. CASE Commit(j) \/ FileNoText(j) \/ WriteStatus(j) \/ Settle(j) \/ FailedEvent(j)
      <2>1. \/ job'[j] = [At(j, "status") EXCEPT !.out = job[j].out]
            \/ job'[j] = At(j, "review") \/ job'[j] = At(j, "triage")
            \/ job'[j] = Idle \/ job'[j] = [job[j] EXCEPT !.at = "failed"]
            \/ job'[j] = [At(j, "queued") EXCEPT !.left = @ - 1]
            BY <1>1, <1>2, <1>8 DEF Commit, FileNoText, WriteStatus, Settle, FailedEvent
      <2>2. CASE job'[j] = [At(j, "status") EXCEPT !.out = job[j].out]
            BY <2>2 DEF At, Idle
      <2>3. CASE job'[j] = At(j, "review")
            BY <2>3 DEF At, Idle
      <2>4. CASE job'[j] = At(j, "triage")
            BY <2>4 DEF At, Idle
      <2>5. CASE job'[j] = Idle
            BY <2>5 DEF Idle
      <2>6. CASE job'[j] = [job[j] EXCEPT !.at = "failed"]
            BY <1>1, <2>6 DEF JobStates
      <2>7. CASE job'[j] = [At(j, "queued") EXCEPT !.left = @ - 1]
            BY <2>7 DEF At, Idle
      <2>.  QED BY <2>1, <2>2, <2>3, <2>4, <2>5, <2>6, <2>7
<1>.  QED BY <1>2, <1>3, <1>4, <1>5, <1>6, <1>7, <1>8
          DEF Work, Defer, AuthFailure, ReviewNoText, PersistTriage

\* What a step does to one month: it admits jobs below the limit, lands a
\* metered one, or admits none and lands none.
LEMMA GateSteps ==
    ASSUME RowInv, Enforce, [Next]_vars, NEW w \in Windows
    PROVE  \/ used'[w] = used[w] /\ AboutToMeter(w)' \subseteq AboutToMeter(w)
           \/ used'[w] = used[w] /\ used[w] < Limit
           \/ /\ used'[w] = used[w] + 1
              /\ \E j \in AboutToMeter(w) : AboutToMeter(w)' \subseteq AboutToMeter(w) \ {j}
<1>1. TypeInv /\ used \in [Windows -> Nat] /\ job \in [Jobs -> JobStates]
      BY DEF RowInv, TypeInv, TypeOK, QueueOK, MetersOK
<1>2. ASSUME NEW i \in Jobs, i \in AboutToMeter(w)'
      PROVE  i \in AboutToMeter(w) \/ (CheckQuota(i) /\ used[w] < Limit)
      <2>1. /\ job'[i].at \in {"stamp", "sort", "commit"} /\ job'[i].met
            /\ job'[i].win = w
            BY <1>2 DEF AboutToMeter
      <2>2. CASE job'[i] = job[i]
            BY <2>1, <2>2 DEF AboutToMeter
      <2>3. CASE Work(i)
            BY <2>1, <2>3, MeteredSteps DEF AboutToMeter
      <2>.  QED BY <1>1, <2>1, <2>2, <2>3, JobSteps
<1>3. ASSUME NEW i \in Jobs, CheckQuota(i)
      PROVE  used' = used
      BY <1>3 DEF CheckQuota, meterVars
<1>4. CASE used' = used
      BY <1>2, <1>4 DEF AboutToMeter
<1>5. CASE used' # used
      <2>1. PICK j \in Jobs : Lands(j)
            BY <1>5, Charges
      <2>2. /\ job[j].at = "commit" /\ RecordMeterUsage(job[j].win, Thread(j))
            /\ job' = [job EXCEPT ![j] = [At(j, "status") EXCEPT !.out = job[j].out]]
            BY <2>1 DEF Lands
      <2>3. j \in AboutToMeter(job[j].win)
            BY <2>1 DEF Lands, AboutToMeter
      <2>4. [At(j, "status") EXCEPT !.out = job[j].out].at = "status"
            BY DEF At, Idle
      <2>5. j \notin AboutToMeter(w)'
            BY <1>1, <2>2, <2>4 DEF AboutToMeter
      <2>6. \A i \in Jobs : ~CheckQuota(i)
            BY <1>3, <1>5
      <2>7. AboutToMeter(w)' \subseteq AboutToMeter(w) \ {j}
            BY <1>2, <2>5, <2>6 DEF AboutToMeter
      <2>8. used' = [used EXCEPT ![job[j].win] = @ + 1]
            BY <1>5, <2>2 DEF RecordMeterUsage
      <2>9. CASE w = job[j].win
            BY <1>1, <2>3, <2>7, <2>8, <2>9
      <2>10. CASE w # job[j].win
            BY <1>1, <2>7, <2>8, <2>10
      <2>.  QED BY <2>9, <2>10
<1>.  QED BY <1>4, <1>5

LEMMA GateNext == GateInv /\ [Next]_vars => GateInv'
<1>. SUFFICES ASSUME GateInv, [Next]_vars PROVE GateInv'
     OBVIOUS
<1>1. RowInv /\ RowInv' /\ TypeInv /\ TypeInv'
      BY RowNext DEF GateInv, RowInv
<1>2. IsFiniteSet(Active) /\ Cardinality(Active) \in Nat
      BY JobsFinite, FS_CardinalityType
<1>3. Cardinality(Active') <= Concurrency /\ IsFiniteSet(Active')
      <2>1. CASE Active' \subseteq Active
            BY <1>2, <2>1, FS_Subset, FS_CardinalityType, Numbers DEF GateInv
      <2>2. ASSUME NEW j \in Jobs, Load(j), Active' \subseteq Active \cup {j}
            PROVE  Cardinality(Active') <= Concurrency /\ IsFiniteSet(Active')
            <3>1. Cardinality(Active) < Concurrency
                  BY <2>2 DEF Load, HasSlot
            <3>2. IsFiniteSet(Active \cup {j}) /\ Cardinality(Active \cup {j}) <= Cardinality(Active) + 1
                  BY <1>2, FS_AddElement
            <3>3. /\ IsFiniteSet(Active')
                  /\ Cardinality(Active') <= Cardinality(Active \cup {j})
                  BY <2>2, <3>2, FS_Subset
            <3>4. Cardinality(Active \cup {j}) \in Nat /\ Cardinality(Active') \in Nat
                  BY <3>2, <3>3, FS_CardinalityType
            <3>.  QED BY <1>2, <3>1, <3>2, <3>3, <3>4, Numbers
      <2>.  QED BY <1>1, <2>1, <2>2, ActiveSteps
<1>4. ASSUME Enforce, NEW w \in Windows
      PROVE  used'[w] + Cardinality(AboutToMeter(w)') < Limit + Concurrency
      <2>1. /\ used[w] \in Nat /\ used'[w] \in Nat
            /\ Limit \in Nat /\ Concurrency \in Nat
            BY <1>1, Numbers DEF TypeInv, TypeOK, MetersOK
      <2>2. /\ IsFiniteSet(AboutToMeter(w)) /\ Cardinality(AboutToMeter(w)) \in Nat
            BY JobsFinite, FS_CardinalityType
      <2>3. /\ AboutToMeter(w)' \in SUBSET Active'
            BY DEF AboutToMeter, Active, Running
      <2>4. /\ IsFiniteSet(AboutToMeter(w)') /\ Cardinality(AboutToMeter(w)') \in Nat
            /\ Cardinality(AboutToMeter(w)') <= Concurrency
            BY <1>3, <2>1, <2>3, FS_Subset, FS_CardinalityType
      <2>5. used[w] + Cardinality(AboutToMeter(w)) < Limit + Concurrency
            BY <1>4 DEF GateInv, OvershootBounded
      <2>6. CASE used'[w] = used[w] /\ AboutToMeter(w)' \subseteq AboutToMeter(w)
            <3>1. Cardinality(AboutToMeter(w)') <= Cardinality(AboutToMeter(w))
                  BY <2>2, <2>6, FS_Subset
            <3>.  QED BY <2>1, <2>2, <2>4, <2>5, <2>6, <3>1
      <2>7. CASE used'[w] = used[w] /\ used[w] < Limit
            BY <2>1, <2>4, <2>7
      <2>8. ASSUME used'[w] = used[w] + 1, NEW j \in AboutToMeter(w),
                   AboutToMeter(w)' \subseteq AboutToMeter(w) \ {j}
            PROVE  used'[w] + Cardinality(AboutToMeter(w)') < Limit + Concurrency
            <3>1. /\ IsFiniteSet(AboutToMeter(w) \ {j})
                  /\ Cardinality(AboutToMeter(w) \ {j}) = Cardinality(AboutToMeter(w)) - 1
                  BY <2>2, FS_RemoveElement
            <3>2. Cardinality(AboutToMeter(w)') <= Cardinality(AboutToMeter(w) \ {j})
                  BY <2>8, <3>1, FS_Subset
            <3>.  QED BY <2>1, <2>2, <2>4, <2>5, <2>8, <3>1, <3>2
      <2>.  QED BY <1>1, <1>4, <2>6, <2>7, <2>8, GateSteps
<1>5. OvershootBounded'
      BY <1>4 DEF OvershootBounded
<1>.  QED BY <1>1, <1>3, <1>5 DEF GateInv

\* The meter overruns the plan's limit by fewer threads than jobs run at once,
\* however many jobs read it before any of them writes it.
THEOREM OvershootAlwaysBounded == Spec => []OvershootBounded
<1>1. Spec => []GateInv
      BY GateInit, GateNext, PTL DEF Spec
<1>2. GateInv => OvershootBounded
      BY DEF GateInv
<1>.  QED BY <1>1, <1>2, PTL
=============================================================================
