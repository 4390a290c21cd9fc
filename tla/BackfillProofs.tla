---------------------------- MODULE BackfillProofs ----------------------------
(* The historical backfill, for every number of workspaces, workers, threads  *)
(* and faults, and every size of page, chunk and cap.                         *)
EXTENDS BackfillInbox, FiniteSetTheorems, TLAPS

Limits == {"NONE", "CAPPED", "CAPPED_RETRY", "BLOCKED"}

SyncRows == [account: Nat, status: {"none", "PENDING", "RUNNING", "ERROR", "DONE"},
             started: {"null", "fresh", "stale"}, page: Nat, processed: Int, generation: Nat,
             armed: BOOLEAN, limit: Limits]

Attempts == [at: Steps, ws: Workspaces \cup {"none"}, from: {"none", "slot", "extra"},
             account: Nat, gen: Nat, armed: BOOLEAN, page: Nat, start: Int, processed: Int,
             ceiling: Int, examined: Int, exhausted: BOOLEAN, grace: BOOLEAN, blocked: BOOLEAN]

Meters == [used: Int, graceUsed: BOOLEAN, grants: SUBSET Workspaces,
           tokens: SUBSET (Nat \X Int \X Int \X BOOLEAN)]

StateTyped == state \in [Workspaces -> SyncRows]
RunTyped ==
    /\ run \in [Workers -> Attempts]
    /\ \A r \in Workers : run[r].at # "idle" => run[r].ws \in Workspaces
HistoryTyped ==
    /\ seen \in [Workspaces -> SUBSET Listed] /\ trimmed \in [Workspaces -> SUBSET Listed]
    /\ rows \in [Workspaces -> SUBSET Listed]

Typed == StateTyped /\ RunTyped /\ HistoryTyped /\ meter \in Meters

LEMMA Bounds ==
    /\ Mail \in Nat /\ Cap \in Nat
    /\ PageSize \in Nat \ {0} /\ Chunk \in Nat \ {0}
    /\ SentOnly \subseteq Listed /\ Broken \subseteq Listed
BY BackfillAssumption DEF Importable

-----------------------------------------------------------------------------
(* What the operators return.                                              *)

LEMMA Counts ==
    ASSUME NEW S \in SUBSET Listed
    PROVE  Cardinality(S) \in Nat
<1>1. IsFiniteSet(Listed)
      BY FS_Interval, Bounds DEF Listed
<1>.  QED BY <1>1, FS_Subset, FS_CardinalityType

LEMMA IdleTyped == Idle \in Attempts /\ Idle.at = "idle"
BY DEF Idle, Attempts, Steps

\* The loop's condition decides where an attempt goes and changes nothing else.
LEMMA LoopDoes ==
    ASSUME NEW x \in Attempts
    PROVE  /\ Loop(x) \in Attempts /\ Loop(x).at \in {"page", "route"}
           /\ Loop(x).ws = x.ws /\ Loop(x).account = x.account /\ Loop(x).gen = x.gen
           /\ Loop(x).page = x.page /\ Loop(x).exhausted = x.exhausted
BY DEF Loop, Attempts, Steps

LEMMA ResetDoes ==
    ASSUME NEW s \in SyncRows
    PROVE  /\ Reset(s) \in SyncRows /\ Reset(s).account = s.account
           /\ Reset(s).generation = s.generation /\ Reset(s).page = 0
           /\ Reset(s).status = "PENDING"
<1>1. Reset(s) \in SyncRows
      <2>1. \A u \in SyncRows : /\ [u EXCEPT !.status = "PENDING"] \in SyncRows
                                /\ [u EXCEPT !.started = "null"] \in SyncRows
            BY DEF SyncRows
      <2>2. \A u \in SyncRows : /\ [u EXCEPT !.page = 0] \in SyncRows
                                /\ [u EXCEPT !.processed = 0] \in SyncRows
            BY DEF SyncRows
      <2>3. Reset(s) = [[[[s EXCEPT !.status = "PENDING"] EXCEPT !.started = "null"]
                           EXCEPT !.page = 0] EXCEPT !.processed = 0]
            BY DEF Reset
      <2>.  QED BY <2>1, <2>2, <2>3
<1>.  QED BY <1>1 DEF Reset, SyncRows

LEMMA NoStateTyped ==
    ASSUME NEW n \in Nat
    PROVE  /\ NoState(n) \in SyncRows /\ NoState(n).account = n /\ NoState(n).generation = 0
           /\ NoState(n).page = 0 /\ NoState(n).status = "none"
BY DEF NoState, SyncRows, Limits

\* A chunk that ends the backfill without a banner has run out of pages.
LEMMA FinishedDoes ==
    ASSUME NEW s \in SyncRows, NEW x \in Attempts
    PROVE  /\ Finished(s, x) \in SyncRows
           /\ Finished(s, x).account = s.account /\ Finished(s, x).generation = s.generation
           /\ Finished(s, x).page \in {0, x.page}
           /\ Finished(s, x).status \in {"DONE", "RUNNING"}
           /\ Finished(s, x).status = "DONE" /\ Finished(s, x).limit = "NONE" => x.exhausted
<1>1. LimitState(x) \in Limits /\ (LimitState(x) = "NONE" => x.exhausted)
      BY DEF LimitState, Limits
<1>2. CASE Done(x)
      BY <1>1, <1>2 DEF Finished, SyncRows, Attempts
<1>3. CASE ~Done(x)
      BY <1>3 DEF Finished, SyncRows, Attempts
<1>.  QED BY <1>2, <1>3

LEMMA ChargeTyped ==
    ASSUME meter \in Meters, NEW x \in Attempts
    PROVE  Charge(x, ChunkToken(x)) \in Meters
<1>1. Done(x) \in BOOLEAN
      BY DEF Done
<1>2. ChunkToken(x) \in Nat \X Int \X Int \X BOOLEAN
      BY <1>1 DEF ChunkToken, Attempts
<1>.  DEFINE t == ChunkToken(x)
<1>3. t \in Nat \X Int \X Int \X BOOLEAN
      BY <1>2
<1>.  HIDE DEF t
<1>4. [meter EXCEPT !.used = @ + x.processed - x.start, !.tokens = @ \cup {t}] \in Meters
      <2>1. /\ meter.used + x.processed - x.start \in Int
            /\ meter.tokens \cup {t} \in SUBSET (Nat \X Int \X Int \X BOOLEAN)
            BY <1>3 DEF Meters, Attempts
      <2>.  QED BY <2>1 DEF Meters
<1>5. Charge(x, t) \in Meters
      BY <1>4 DEF Charge
<1>.  QED BY <1>5 DEF t

-----------------------------------------------------------------------------
(* The invariant.                                                          *)

\* Every thread of the pages before p was examined, or was cut off by the budget.
Covered(w, p) == {q \in Listed : q <= p} \ trimmed[w] \subseteq seen[w]

\* The cursor of the row does not run ahead of what was examined.
RowOK(w) ==
    /\ Covered(w, state[w].page)
    /\ state[w].status = "DONE" /\ state[w].limit = "NONE" => Covered(w, Mail)
    /\ seen[w] \ (SentOnly \cup Broken) \subseteq rows[w]

\* Nor does the cursor of an attempt that may still write the row: a reset since has moved
\* the generation on, an erasure the account.
AttemptOK(x) ==
    x.at # "idle" =>
       /\ x.account <= state[x.ws].account
       /\ x.account = state[x.ws].account => x.gen <= state[x.ws].generation
       /\ x.account = state[x.ws].account /\ x.gen = state[x.ws].generation =>
             Covered(x.ws, x.page)
       /\ x.exhausted => Mail <= x.page
       /\ x.at \in {"claim", "read"} => ~x.exhausted

RowsOK     == \A w \in Workspaces : RowOK(w)
AttemptsOK == \A r \in Workers : AttemptOK(run[r])

\* What a step may do to a row and to what was examined for it.
Grows(w) ==
    /\ state'[w].account = state[w].account /\ state'[w].generation = state[w].generation
    /\ seen[w] \subseteq seen'[w] /\ trimmed[w] \subseteq trimmed'[w]
Swept(w)  == state'[w].account = state[w].account /\ state'[w].generation = state[w].generation + 1
Erasure(w) == state'[w].account = state[w].account + 1
Onward(w) == Grows(w) \/ Swept(w) \/ Erasure(w)

LEMMA CoverGrows ==
    ASSUME NEW w, NEW p, Covered(w, p), Grows(w)
    PROVE  Covered(w, p)'
BY DEF Covered, Grows

\* An attempt that does not move stays right, whatever else happens.
LEMMA AttemptStays ==
    ASSUME Typed, NEW x \in Attempts, x.at # "idle" => x.ws \in Workspaces, AttemptOK(x),
           \A w \in Workspaces : Onward(w)
    PROVE  AttemptOK(x)'
<1>.  SUFFICES ASSUME x.at # "idle"
               PROVE  AttemptOK(x)'
      BY DEF AttemptOK
<1>1. PICK w \in Workspaces : w = x.ws
      OBVIOUS
<1>2. state[w].account \in Nat /\ state[w].generation \in Nat /\ x.account \in Nat /\ x.gen \in Nat
      BY DEF Typed, StateTyped, SyncRows, Attempts
<1>3. /\ x.account <= state[w].account
      /\ x.account = state[w].account => x.gen <= state[w].generation
      /\ x.account = state[w].account /\ x.gen = state[w].generation => Covered(w, x.page)
      /\ x.exhausted => Mail <= x.page
      /\ x.at \in {"claim", "read"} => ~x.exhausted
      BY <1>1 DEF AttemptOK
<1>4. CASE Grows(w)
      <2>1. x.account = state[w].account /\ x.gen = state[w].generation => Covered(w, x.page)'
            BY <1>3, <1>4, CoverGrows
      <2>.  QED BY <1>1, <1>3, <1>4, <2>1 DEF AttemptOK, Grows
<1>5. CASE Swept(w)
      BY <1>1, <1>2, <1>3, <1>5 DEF AttemptOK, Swept
<1>6. CASE Erasure(w)
      BY <1>1, <1>2, <1>3, <1>6 DEF AttemptOK, Erasure
<1>.  QED BY <1>1, <1>4, <1>5, <1>6 DEF Onward

-----------------------------------------------------------------------------
(* Ways to step.                                                           *)

\* Nothing is examined, or the threads of S are, for w.
LEMMA NothingSeen ==
    ASSUME Typed, RowsOK, UNCHANGED <<rows, seen, trimmed>>
    PROVE  /\ HistoryTyped'
           /\ \A v \in Workspaces : /\ seen[v] \subseteq seen'[v] /\ trimmed[v] \subseteq trimmed'[v]
                                    /\ seen'[v] \ (SentOnly \cup Broken) \subseteq rows'[v]
BY DEF Typed, HistoryTyped, RowsOK, RowOK

LEMMA ThreadsSeen ==
    ASSUME Typed, RowsOK, NEW w \in Workspaces, NEW S \in SUBSET Listed, NEW T \in SUBSET Listed,
           ImportThreads(w, S),
           trimmed' = trimmed \/ trimmed' = [trimmed EXCEPT ![w] = @ \cup T]
    PROVE  /\ HistoryTyped'
           /\ \A v \in Workspaces : /\ seen[v] \subseteq seen'[v] /\ trimmed[v] \subseteq trimmed'[v]
                                    /\ seen'[v] \ (SentOnly \cup Broken) \subseteq rows'[v]
           /\ seen'[w] = seen[w] \cup S
<1>1. /\ seen' = [seen EXCEPT ![w] = @ \cup S]
      /\ rows' = [rows EXCEPT ![w] = @ \cup (S \ (SentOnly \cup Broken))]
      BY DEF ImportThreads
<1>2. HistoryTyped'
      BY <1>1 DEF Typed, HistoryTyped
<1>3. /\ seen'[w] = seen[w] \cup S /\ rows'[w] = rows[w] \cup (S \ (SentOnly \cup Broken))
      /\ \A v \in Workspaces \ {w} : seen'[v] = seen[v] /\ rows'[v] = rows[v]
      BY <1>1 DEF Typed, HistoryTyped
<1>4. \A v \in Workspaces : trimmed[v] \subseteq trimmed'[v]
      BY DEF Typed, HistoryTyped
<1>.  QED BY <1>2, <1>3, <1>4 DEF RowsOK, RowOK

\* The row of w becomes s, of the same account and generation.
LEMMA RowsMove ==
    ASSUME Typed, RowsOK, HistoryTyped',
           \A v \in Workspaces : /\ seen[v] \subseteq seen'[v] /\ trimmed[v] \subseteq trimmed'[v]
                                 /\ seen'[v] \ (SentOnly \cup Broken) \subseteq rows'[v],
           NEW w \in Workspaces, NEW s \in SyncRows, state' = [state EXCEPT ![w] = s],
           s.account = state[w].account, s.generation = state[w].generation,
           Covered(w, s.page), s.status = "DONE" /\ s.limit = "NONE" => Covered(w, Mail)
    PROVE  StateTyped' /\ RowsOK' /\ \A v \in Workspaces : Grows(v) /\ Onward(v)
<1>1. StateTyped' /\ state'[w] = s /\ \A v \in Workspaces \ {w} : state'[v] = state[v]
      BY DEF Typed, StateTyped
<1>2. \A v \in Workspaces : Grows(v)
      BY <1>1 DEF Grows
<1>3. RowOK(w)'
      BY <1>1, <1>2, CoverGrows DEF RowOK
<1>4. \A v \in Workspaces \ {w} : RowOK(v)'
      BY <1>1, <1>2, CoverGrows DEF RowsOK, RowOK
<1>.  QED BY <1>1, <1>2, <1>3, <1>4 DEF RowsOK, Onward

LEMMA RowsStay ==
    ASSUME Typed, RowsOK, HistoryTyped', state' = state,
           \A v \in Workspaces : /\ seen[v] \subseteq seen'[v] /\ trimmed[v] \subseteq trimmed'[v]
                                 /\ seen'[v] \ (SentOnly \cup Broken) \subseteq rows'[v]
    PROVE  StateTyped' /\ RowsOK' /\ \A v \in Workspaces : Grows(v) /\ Onward(v)
<1>1. \A v \in Workspaces : Grows(v)
      BY DEF Grows
<1>2. \A v \in Workspaces : RowOK(v)'
      BY <1>1, CoverGrows DEF RowsOK, RowOK
<1>.  QED BY <1>1, <1>2 DEF RowsOK, Onward, Typed, StateTyped

LEMMA CoveredFromStart == \A w : Covered(w, 0)
BY Bounds DEF Covered, Listed

\* The attempt of r becomes y, the others stay.
LEMMA RunMoves ==
    ASSUME Typed, AttemptsOK, \A w \in Workspaces : Onward(w),
           NEW r \in Workers, NEW y \in Attempts, run' = [run EXCEPT ![r] = y],
           y.at # "idle" => y.ws \in Workspaces, AttemptOK(y)'
    PROVE  RunTyped' /\ AttemptsOK'
<1>1. run'[r] = y /\ \A d \in Workers \ {r} : run'[d] = run[d]
      BY DEF Typed, RunTyped
<1>2. RunTyped'
      BY <1>1 DEF Typed, RunTyped
<1>3. ASSUME NEW d \in Workers \ {r}
      PROVE  AttemptOK(run[d])'
      <2>1. PICK x \in Attempts : x = run[d] /\ (x.at # "idle" => x.ws \in Workspaces)
            BY DEF Typed, RunTyped
      <2>2. AttemptOK(x)'
            BY <2>1, AttemptStays DEF AttemptsOK
      <2>.  QED BY <1>1, <2>1, <2>2 DEF AttemptOK
<1>4. AttemptOK(run[r])'
      BY <1>1 DEF AttemptOK
<1>.  QED BY <1>2, <1>3, <1>4 DEF AttemptsOK

LEMMA RunStays ==
    ASSUME Typed, AttemptsOK, \A w \in Workspaces : Onward(w), run' = run
    PROVE  RunTyped' /\ AttemptsOK'
<1>1. RunTyped'
      BY DEF Typed, RunTyped
<1>2. ASSUME NEW d \in Workers
      PROVE  AttemptOK(run[d])'
      <2>1. PICK x \in Attempts : x = run[d] /\ (x.at # "idle" => x.ws \in Workspaces)
            BY DEF Typed, RunTyped
      <2>2. AttemptOK(x)'
            BY <2>1, AttemptStays DEF AttemptsOK
      <2>.  QED BY <2>1, <2>2 DEF AttemptOK
<1>.  QED BY <1>1, <1>2 DEF AttemptsOK

\* The attempt leaves, or goes on with its claim and its pages as they were.
LEMMA RunLeaves ==
    ASSUME Typed, AttemptsOK, \A w \in Workspaces : Onward(w),
           NEW r \in Workers, run' = [run EXCEPT ![r] = Idle]
    PROVE  RunTyped' /\ AttemptsOK'
<1>1. AttemptOK(Idle)'
      BY IdleTyped DEF AttemptOK
<1>.  QED BY <1>1, IdleTyped, RunMoves

LEMMA RunGoes ==
    ASSUME Typed, AttemptsOK, \A w \in Workspaces : Onward(w),
           NEW r \in Workers, run[r].at # "idle",
           NEW y \in Attempts, run' = [run EXCEPT ![r] = y],
           y.at # "idle", y.at \in {"claim", "read"} => run[r].at \in {"claim", "read"},
           y.ws = run[r].ws, y.account = run[r].account, y.gen = run[r].gen,
           y.page = run[r].page, y.exhausted = run[r].exhausted
    PROVE  RunTyped' /\ AttemptsOK'
<1>1. PICK x \in Attempts : x = run[r] /\ x.ws \in Workspaces
      BY DEF Typed, RunTyped
<1>2. AttemptOK(x)'
      BY <1>1, AttemptStays DEF AttemptsOK
<1>3. AttemptOK(y)'
      BY <1>1, <1>2 DEF AttemptOK
<1>.  QED BY <1>1, <1>3, RunMoves

-----------------------------------------------------------------------------
(* The invariant, and that each action keeps it.                           *)

BackfillInv == Typed /\ RowsOK /\ AttemptsOK

LEMMA InitInv == Init => BackfillInv
<1>.  SUFFICES ASSUME Init
               PROVE  BackfillInv
      OBVIOUS
<1>1. StateTyped /\ \A w \in Workspaces : state[w] = NoState(0)
      BY NoStateTyped DEF Init, StateTyped
<1>2. RunTyped /\ \A r \in Workers : run[r] = Idle
      BY IdleTyped DEF Init, RunTyped
<1>3. HistoryTyped /\ meter \in Meters
      BY DEF Init, HistoryTyped, Meters
<1>4. \A w \in Workspaces : RowOK(w)
      BY <1>1, NoStateTyped, CoveredFromStart DEF RowOK, Init
<1>5. \A r \in Workers : AttemptOK(run[r])
      BY <1>2, IdleTyped DEF AttemptOK
<1>.  QED BY <1>1, <1>2, <1>3, <1>4, <1>5 DEF BackfillInv, Typed, RowsOK, AttemptsOK

LEMMA SyncTickInv ==
    ASSUME BackfillInv, NEW w \in Workspaces, SyncTick(w)
    PROVE  BackfillInv'
<1>1. UNCHANGED <<rows, seen, trimmed, run, meter>>
      BY DEF SyncTick, rowVars, history
<1>2. CASE state[w].status = "none"
      <2>1. PICK s \in SyncRows : s = [state[w] EXCEPT !.status = "PENDING"]
            BY DEF BackfillInv, Typed, StateTyped, SyncRows
      <2>2. state' = [state EXCEPT ![w] = s]
            BY <1>2, <2>1 DEF SyncTick
      <2>3. /\ s.account = state[w].account /\ s.generation = state[w].generation
            /\ s.page = state[w].page /\ s.status = "PENDING"
            BY <2>1 DEF BackfillInv, Typed, StateTyped, SyncRows
      <2>4. Covered(w, s.page)
            BY <2>3 DEF BackfillInv, RowsOK, RowOK
      <2>5. StateTyped' /\ RowsOK' /\ \A v \in Workspaces : Onward(v)
            BY <1>1, <2>2, <2>3, <2>4, NothingSeen, RowsMove DEF BackfillInv
      <2>6. RunTyped' /\ AttemptsOK'
            BY <1>1, <2>5, RunStays DEF BackfillInv
      <2>.  QED BY <1>1, <2>5, <2>6, NothingSeen DEF BackfillInv, Typed
<1>3. CASE state[w].status # "none"
      <2>1. state' = state
            BY <1>3 DEF SyncTick
      <2>2. StateTyped' /\ RowsOK' /\ \A v \in Workspaces : Onward(v)
            BY <1>1, <2>1, NothingSeen, RowsStay DEF BackfillInv
      <2>3. RunTyped' /\ AttemptsOK'
            BY <1>1, <2>2, RunStays DEF BackfillInv
      <2>.  QED BY <1>1, <2>2, <2>3, NothingSeen DEF BackfillInv, Typed
<1>.  QED BY <1>2, <1>3

LEMMA SweepInv ==
    ASSUME BackfillInv, NEW w \in Workspaces, SweepInbox(w)
    PROVE  BackfillInv'
<1>1. UNCHANGED <<rows, run, meter>>
      BY DEF SweepInbox, rowVars
<1>2. PICK old \in SyncRows : old = state[w]
      BY DEF BackfillInv, Typed, StateTyped
<1>3. PICK t \in SyncRows : t = Reset(old)
      BY ResetDoes
<1>4. PICK s \in SyncRows : /\ s = [t EXCEPT !.limit = "NONE", !.generation = old.generation + 1]
                           /\ s.account = old.account /\ s.generation = old.generation + 1
                           /\ s.page = 0 /\ s.status = "PENDING"
      <2>1. t.generation \in Nat /\ t.generation = old.generation /\ t.account = old.account
            BY <1>3, ResetDoes DEF SyncRows
      <2>2. t.page = 0 /\ t.status = "PENDING"
            BY <1>3, ResetDoes
      <2>3. PICK u \in SyncRows : u = [t EXCEPT !.limit = "NONE"]
            BY DEF SyncRows, Limits
      <2>4. PICK n \in Nat : n = t.generation + 1
            BY <2>1
      <2>5. PICK s \in SyncRows : s = [u EXCEPT !.generation = n]
            BY DEF SyncRows
      <2>6. s = [t EXCEPT !.limit = "NONE", !.generation = n]
            BY <2>3, <2>5 DEF SyncRows
      <2>7. s.account = t.account /\ s.generation = n /\ s.page = t.page /\ s.status = t.status
            BY <2>3, <2>5 DEF SyncRows
      <2>.  QED BY <2>1, <2>2, <2>4, <2>6, <2>7
<1>5. /\ state' = [state EXCEPT ![w] = s]
      /\ seen' = [seen EXCEPT ![w] = {}] /\ trimmed' = [trimmed EXCEPT ![w] = {}]
      <2>1. state' = [state EXCEPT ![w] = [Reset(state[w]) EXCEPT !.limit = "NONE",
                                    !.generation = state[w].generation + 1]]
            BY DEF SweepInbox
      <2>.  QED BY <1>2, <1>3, <1>4, <2>1 DEF SweepInbox
<1>6. /\ StateTyped' /\ HistoryTyped'
      /\ state'[w] = s /\ seen'[w] = {}
      /\ \A v \in Workspaces \ {w} :
            state'[v] = state[v] /\ seen'[v] = seen[v] /\ trimmed'[v] = trimmed[v]
      BY <1>1, <1>5 DEF BackfillInv, Typed, StateTyped, HistoryTyped
<1>7. \A v \in Workspaces : Onward(v)
      <2>1. Swept(w)
            BY <1>2, <1>4, <1>6 DEF Swept
      <2>2. \A v \in Workspaces \ {w} : Grows(v)
            BY <1>6 DEF Grows
      <2>.  QED BY <2>1, <2>2 DEF Onward
<1>8. RowsOK'
      <2>1. Covered(w, 0)'
            BY CoveredFromStart, Bounds DEF Covered, Listed
      <2>2. RowOK(w)'
            BY <1>4, <1>6, <2>1 DEF RowOK
      <2>3. \A v \in Workspaces \ {w} : RowOK(v)'
            BY <1>1, <1>6 DEF BackfillInv, RowsOK, RowOK, Covered
      <2>.  QED BY <2>2, <2>3 DEF RowsOK
<1>9. RunTyped' /\ AttemptsOK'
      BY <1>1, <1>7, RunStays DEF BackfillInv
<1>.  QED BY <1>1, <1>6, <1>8, <1>9 DEF BackfillInv, Typed

LEMMA EraseInv ==
    ASSUME BackfillInv, NEW w \in Workspaces, EraseEmailAccountData(w)
    PROVE  BackfillInv'
<1>1. UNCHANGED <<run, meter>>
      BY DEF EraseEmailAccountData
<1>2. PICK n \in Nat : n = state[w].account
      BY DEF BackfillInv, Typed, StateTyped, SyncRows
<1>3. PICK s \in SyncRows : s = NoState(n + 1)
      BY <1>2, NoStateTyped
<1>4. s.account = n + 1 /\ s.page = 0 /\ s.status = "none"
      BY <1>3 DEF NoState
<1>5. /\ state' = [state EXCEPT ![w] = s] /\ rows' = [rows EXCEPT ![w] = {}]
      /\ seen' = [seen EXCEPT ![w] = {}] /\ trimmed' = [trimmed EXCEPT ![w] = {}]
      BY <1>2, <1>3 DEF EraseEmailAccountData
<1>6. /\ StateTyped' /\ HistoryTyped'
      /\ state'[w] = s /\ seen'[w] = {}
      /\ \A v \in Workspaces \ {w} :
            /\ state'[v] = state[v] /\ rows'[v] = rows[v]
            /\ seen'[v] = seen[v] /\ trimmed'[v] = trimmed[v]
      BY <1>5 DEF BackfillInv, Typed, StateTyped, HistoryTyped
<1>7. \A v \in Workspaces : Onward(v)
      <2>1. Erasure(w)
            BY <1>2, <1>4, <1>6 DEF Erasure
      <2>2. \A v \in Workspaces \ {w} : Grows(v)
            BY <1>6 DEF Grows
      <2>.  QED BY <2>1, <2>2 DEF Onward
<1>8. RowsOK'
      <2>1. Covered(w, 0)'
            BY CoveredFromStart, Bounds DEF Covered, Listed
      <2>2. RowOK(w)'
            BY <1>4, <1>6, <2>1 DEF RowOK
      <2>3. \A v \in Workspaces \ {w} : RowOK(v)'
            BY <1>6 DEF BackfillInv, RowsOK, RowOK, Covered
      <2>.  QED BY <2>2, <2>3 DEF RowsOK
<1>9. RunTyped' /\ AttemptsOK'
      BY <1>1, <1>7, RunStays DEF BackfillInv
<1>.  QED BY <1>1, <1>6, <1>8, <1>9 DEF BackfillInv, Typed

\* The arm and the age of a claim say nothing of what was examined.
LEMMA MarkInv ==
    ASSUME BackfillInv, NEW w \in Workspaces, UNCHANGED <<rows, seen, trimmed, run, meter>>,
           \/ state' = state
           \/ state' = [state EXCEPT ![w].armed = TRUE]
           \/ state[w].status = "RUNNING" /\ state' = [state EXCEPT ![w].started = "stale"]
    PROVE  BackfillInv'
<1>1. CASE state' = state
      <2>1. StateTyped' /\ RowsOK' /\ \A v \in Workspaces : Onward(v)
            BY <1>1, NothingSeen, RowsStay DEF BackfillInv
      <2>2. RunTyped' /\ AttemptsOK'
            BY <2>1, RunStays DEF BackfillInv
      <2>.  QED BY <2>1, <2>2, NothingSeen DEF BackfillInv, Typed
<1>2. CASE state' # state
      <2>1. PICK s \in SyncRows : /\ state' = [state EXCEPT ![w] = s]
                                  /\ s.account = state[w].account
                                  /\ s.generation = state[w].generation
                                  /\ s.page = state[w].page
                                  /\ s.status = state[w].status /\ s.limit = state[w].limit
            <3>1. state[w] \in SyncRows
                  BY DEF BackfillInv, Typed, StateTyped
            <3>2. /\ [state[w] EXCEPT !.armed = TRUE] \in SyncRows
                  /\ [state[w] EXCEPT !.started = "stale"] \in SyncRows
                  BY <3>1 DEF SyncRows
            <3>.  QED BY <1>2, <3>1, <3>2 DEF SyncRows
      <2>2. Covered(w, s.page) /\ (s.status = "DONE" /\ s.limit = "NONE" => Covered(w, Mail))
            BY <2>1 DEF BackfillInv, RowsOK, RowOK
      <2>3. StateTyped' /\ RowsOK' /\ \A v \in Workspaces : Onward(v)
            BY <2>1, <2>2, NothingSeen, RowsMove DEF BackfillInv
      <2>4. RunTyped' /\ AttemptsOK'
            BY <2>3, RunStays DEF BackfillInv
      <2>.  QED BY <2>3, <2>4, NothingSeen DEF BackfillInv, Typed
<1>.  QED BY <1>1, <1>2

LEMMA BeginInv ==
    ASSUME BackfillInv, NEW r \in Workers, NEW w \in Workspaces, NEW from \in {"slot", "extra"},
           Begin(r, w, from)
    PROVE  BackfillInv'
<1>1. UNCHANGED <<state, rows, seen, trimmed, meter>>
      BY DEF Begin, rowVars, history
<1>2. StateTyped' /\ RowsOK' /\ \A v \in Workspaces : Onward(v)
      BY <1>1, NothingSeen, RowsStay DEF BackfillInv
<1>3. CASE run' = run
      <2>1. RunTyped' /\ AttemptsOK'
            BY <1>2, <1>3, RunStays DEF BackfillInv
      <2>.  QED BY <1>1, <1>2, <2>1, NothingSeen DEF BackfillInv, Typed
<1>4. CASE run' # run
      <2>1. state[w].account \in Nat /\ state[w].generation \in Nat
            BY DEF BackfillInv, Typed, StateTyped, SyncRows
      <2>2. PICK y \in Attempts : y = [Idle EXCEPT !.at = "claim", !.ws = w, !.from = from,
                                                   !.account = state[w].account]
            BY <2>1, IdleTyped DEF Attempts, Steps
      <2>3. /\ y.at = "claim" /\ y.ws = w /\ y.account = state[w].account
            /\ y.gen = 0 /\ y.page = 0 /\ ~y.exhausted
            BY <2>2 DEF Idle
      <2>4. run' = [run EXCEPT ![r] = y]
            BY <1>4, <2>2 DEF Begin
      <2>5. AttemptOK(y)
            BY <2>1, <2>3, CoveredFromStart DEF AttemptOK
      <2>6. AttemptOK(y)'
            BY <1>2, <2>3, <2>5, AttemptStays DEF BackfillInv
      <2>7. RunTyped' /\ AttemptsOK'
            BY <1>2, <2>3, <2>4, <2>6, RunMoves DEF BackfillInv
      <2>.  QED BY <1>1, <1>2, <2>7, NothingSeen DEF BackfillInv, Typed
<1>.  QED BY <1>3, <1>4

LEMMA ClaimInv ==
    ASSUME BackfillInv, NEW r \in Workers, Claim(r)
    PROVE  BackfillInv'
<1>1. UNCHANGED <<rows, seen, trimmed, meter>>
      BY DEF Claim, rowVars, history
<1>2. PICK x \in Attempts : x = run[r]
      BY DEF BackfillInv, Typed, RunTyped
<1>3. x.at = "claim" /\ x.ws \in Workspaces
      BY <1>2 DEF BackfillInv, Typed, RunTyped, Claim, At
<1>4. PICK w \in Workspaces : w = x.ws
      BY <1>3
<1>5. CASE state' = state
      <2>1. StateTyped' /\ RowsOK' /\ \A v \in Workspaces : Onward(v)
            BY <1>1, <1>5, NothingSeen, RowsStay DEF BackfillInv
      <2>2. RunTyped' /\ AttemptsOK'
            <3>1. CASE run' = [run EXCEPT ![r] = Idle]
                  BY <2>1, <3>1, RunLeaves DEF BackfillInv
            <3>2. CASE Goto(r, "read")
                  <4>1. PICK y \in Attempts : y = [x EXCEPT !.at = "read"]
                        BY DEF Attempts, Steps
                  <4>2. run' = [run EXCEPT ![r] = y]
                        BY <1>2, <3>2, <4>1 DEF Goto
                  <4>3. /\ y.at = "read" /\ y.ws = x.ws /\ y.account = x.account
                        /\ y.gen = x.gen /\ y.page = x.page /\ y.exhausted = x.exhausted
                        BY <4>1 DEF Attempts
                  <4>.  QED BY <1>2, <1>3, <2>1, <4>2, <4>3, RunGoes DEF BackfillInv
            <3>.  QED BY <3>1, <3>2 DEF Claim, Leave
      <2>.  QED BY <1>1, <2>1, <2>2, NothingSeen DEF BackfillInv, Typed
<1>6. CASE state' # state
      <2>1. PICK s \in SyncRows : s = [state[w] EXCEPT !.status = "RUNNING", !.started = "fresh"]
            BY DEF BackfillInv, Typed, StateTyped, SyncRows
      <2>2. state' = [state EXCEPT ![w] = s] /\ Goto(r, "read")
            BY <1>2, <1>4, <1>6, <2>1 DEF Claim
      <2>3. /\ s.account = state[w].account /\ s.generation = state[w].generation
            /\ s.page = state[w].page /\ s.status = "RUNNING"
            BY <2>1 DEF BackfillInv, Typed, StateTyped, SyncRows
      <2>4. Covered(w, s.page)
            BY <2>3 DEF BackfillInv, RowsOK, RowOK
      <2>5. StateTyped' /\ RowsOK' /\ \A v \in Workspaces : Onward(v)
            BY <1>1, <2>2, <2>3, <2>4, NothingSeen, RowsMove DEF BackfillInv
      <2>6. PICK y \in Attempts : y = [x EXCEPT !.at = "read"]
            BY DEF Attempts, Steps
      <2>7. run' = [run EXCEPT ![r] = y]
            BY <1>2, <2>2, <2>6 DEF Goto
      <2>8. /\ y.at = "read" /\ y.ws = x.ws /\ y.account = x.account
            /\ y.gen = x.gen /\ y.page = x.page /\ y.exhausted = x.exhausted
            BY <2>6 DEF Attempts
      <2>9. RunTyped' /\ AttemptsOK'
            BY <1>2, <1>3, <2>5, <2>7, <2>8, RunGoes DEF BackfillInv
      <2>.  QED BY <1>1, <2>5, <2>9, NothingSeen DEF BackfillInv, Typed
<1>.  QED BY <1>5, <1>6

\* What an attempt reads of its workspace's row.
LEMMA ReadDoes ==
    ASSUME NEW r \in Workers, run \in [Workers -> Attempts], ReadClaimed(r),
           NEW x \in Attempts, x = run[r], NEW s \in SyncRows, s = state[x.ws],
           NEW found \in BOOLEAN, found <=> (s.status # "none" /\ s.account = x.account)
    PROVE  \E y \in Attempts :
              /\ run' = [run EXCEPT ![r] = y] /\ y.at = "budget"
              /\ y.ws = x.ws /\ y.account = x.account
              /\ y.exhausted = x.exhausted /\ y.examined = x.examined
              /\ y.page = (IF found THEN s.page ELSE 0)
              /\ y.gen = (IF found THEN s.generation ELSE 0)
              /\ y.start = (IF found THEN s.processed ELSE 0)
              /\ y.processed = (IF found THEN s.processed ELSE 0)
<1>1. PICK page : page = IF found THEN s.page ELSE 0
      OBVIOUS
<1>2. PICK processed : processed = IF found THEN s.processed ELSE 0
      OBVIOUS
<1>3. PICK gen : gen = IF found THEN s.generation ELSE 0
      OBVIOUS
<1>4. s.armed \in BOOLEAN
      BY DEF SyncRows
<1>5. PICK armed \in BOOLEAN : armed = (found /\ s.armed)
      BY <1>4
<1>6. run' = [run EXCEPT ![r].at = "budget", ![r].page = page, ![r].start = processed,
                         ![r].processed = processed, ![r].gen = gen, ![r].armed = armed]
      <2>1. s = state[run[r].ws] /\ (found <=> (s.status # "none" /\ s.account = run[r].account))
            OBVIOUS
      <2>2. page = (IF s.status # "none" /\ s.account = run[r].account THEN s.page ELSE 0)
            BY <1>1, <2>1
      <2>3. processed = (IF s.status # "none" /\ s.account = run[r].account THEN s.processed ELSE 0)
            BY <1>2, <2>1
      <2>4. gen = (IF s.status # "none" /\ s.account = run[r].account THEN s.generation ELSE 0)
            BY <1>3, <2>1
      <2>5. armed = ((s.status # "none" /\ s.account = run[r].account) /\ s.armed)
            BY <1>5, <2>1
      <2>6. run' = [run EXCEPT
                      ![r].at = "budget",
                      ![r].page = IF s.status # "none" /\ s.account = run[r].account THEN s.page ELSE 0,
                      ![r].start = IF s.status # "none" /\ s.account = run[r].account
                                   THEN s.processed ELSE 0,
                      ![r].processed = IF s.status # "none" /\ s.account = run[r].account
                                       THEN s.processed ELSE 0,
                      ![r].gen = IF s.status # "none" /\ s.account = run[r].account
                                 THEN s.generation ELSE 0,
                      ![r].armed = (s.status # "none" /\ s.account = run[r].account) /\ s.armed]
            BY <2>1, ZenonT(60) DEF ReadClaimed
      <2>.  QED BY <2>2, <2>3, <2>4, <2>5, <2>6, Zenon
<1>7. PICK y : y = [x EXCEPT !.at = "budget", !.page = page, !.start = processed,
                             !.processed = processed, !.gen = gen, !.armed = armed]
      OBVIOUS
<1>8. run' = [run EXCEPT ![r] = y]
      BY <1>6, <1>7
<1>9. page \in Nat /\ processed \in Int /\ gen \in Nat
      BY <1>1, <1>2, <1>3 DEF SyncRows
<1>10. y \in Attempts
       BY <1>7, <1>9 DEF Attempts, Steps
<1>11. /\ y.at = "budget" /\ y.ws = x.ws /\ y.account = x.account
       /\ y.exhausted = x.exhausted /\ y.examined = x.examined
       /\ y.page = page /\ y.gen = gen /\ y.start = processed /\ y.processed = processed
       BY <1>7 DEF Attempts
<1>.  QED BY <1>1, <1>2, <1>3, <1>8, <1>10, <1>11

LEMMA ReadInv ==
    ASSUME BackfillInv, NEW r \in Workers, ReadClaimed(r)
    PROVE  BackfillInv'
<1>1. UNCHANGED <<state, rows, seen, trimmed, meter>>
      BY DEF ReadClaimed, rowVars, history
<1>2. StateTyped' /\ RowsOK' /\ \A v \in Workspaces : Onward(v)
      BY <1>1, NothingSeen, RowsStay DEF BackfillInv
<1>3. PICK x \in Attempts : x = run[r]
      BY DEF BackfillInv, Typed, RunTyped
<1>4. x.at = "read" /\ x.ws \in Workspaces /\ AttemptOK(x)
      BY <1>3 DEF BackfillInv, Typed, RunTyped, AttemptsOK, ReadClaimed, At
<1>5. PICK s \in SyncRows : s = state[x.ws]
      BY <1>4 DEF BackfillInv, Typed, StateTyped
<1>6. PICK found \in BOOLEAN : found <=> (s.status # "none" /\ s.account = x.account)
      OBVIOUS
<1>7. run \in [Workers -> Attempts]
      BY DEF BackfillInv, Typed, RunTyped
<1>8. PICK y \in Attempts :
          /\ run' = [run EXCEPT ![r] = y] /\ y.at = "budget"
          /\ y.ws = x.ws /\ y.account = x.account /\ y.exhausted = x.exhausted
          /\ y.page = (IF found THEN s.page ELSE 0)
          /\ y.gen = (IF found THEN s.generation ELSE 0)
      BY <1>3, <1>5, <1>6, <1>7, ReadDoes
<1>10. AttemptOK(y)
      <2>1. Covered(x.ws, s.page) /\ Covered(x.ws, 0)
            BY <1>4, <1>5, CoveredFromStart DEF BackfillInv, RowsOK, RowOK
      <2>2. s.generation \in Nat /\ ~x.exhausted /\ x.account <= s.account
            BY <1>4, <1>5 DEF SyncRows, AttemptOK
      <2>.  QED BY <1>4, <1>5, <1>8, <2>1, <2>2 DEF AttemptOK
<1>11. AttemptOK(y)'
      BY <1>2, <1>4, <1>8, <1>10, AttemptStays DEF BackfillInv
<1>12. RunTyped' /\ AttemptsOK'
      BY <1>2, <1>4, <1>8, <1>11, RunMoves DEF BackfillInv
<1>.  QED BY <1>1, <1>2, <1>12, NothingSeen DEF BackfillInv, Typed

LEMMA BudgetInv ==
    ASSUME BackfillInv, NEW r \in Workers, ResolveBudget(r) \/ ClaimGrace(r)
    PROVE  BackfillInv'
<1>1. UNCHANGED <<state, rows, seen, trimmed>>
      BY DEF ResolveBudget, ClaimGrace, rowVars, history
<1>2. StateTyped' /\ RowsOK' /\ \A v \in Workspaces : Onward(v)
      BY <1>1, NothingSeen, RowsStay DEF BackfillInv
<1>3. PICK x \in Attempts : x = run[r]
      BY DEF BackfillInv, Typed, RunTyped
<1>4. x.at \in {"budget", "grace"} /\ x.ws \in Workspaces
      BY <1>3 DEF BackfillInv, Typed, RunTyped, ResolveBudget, ClaimGrace, At
<1>5. /\ meter.used \in Int /\ meter.graceUsed \in BOOLEAN /\ Cap \in Int
      /\ x.start \in Int /\ x.ceiling \in Int
      BY Bounds DEF BackfillInv, Typed, Meters, Attempts
<1>6. meter' \in Meters
      <2>1. \A w \in Workspaces : [meter EXCEPT !.grants = @ \cup {w}] \in Meters
            BY DEF BackfillInv, Typed, Meters
      <2>2. [meter EXCEPT !.graceUsed = TRUE] \in Meters
            BY DEF BackfillInv, Typed, Meters
      <2>.  QED BY <1>3, <1>4, <2>1, <2>2 DEF ResolveBudget, ClaimGrace, BackfillInv, Typed
<1>7. \A z \in Attempts :
         z.at # "idle" /\ z.ws = x.ws /\ z.account = x.account /\ z.gen = x.gen /\ z.page = x.page
            /\ z.exhausted = x.exhausted /\ z.at \notin {"claim", "read"}
            /\ run' = [run EXCEPT ![r] = z]
         => RunTyped' /\ AttemptsOK'
      BY <1>2, <1>3, <1>4, RunGoes DEF BackfillInv
<1>8. \A z \in Attempts :
         /\ z.ws = x.ws /\ z.account = x.account /\ z.gen = x.gen /\ z.page = x.page
         /\ z.exhausted = x.exhausted
         /\ run' = [run EXCEPT ![r] = Loop(z)]
         => RunTyped' /\ AttemptsOK'
      BY <1>7, LoopDoes
<1>9. CASE ResolveBudget(r)
      <2>1. PICK left \in Int : left = Left(r)
            BY <1>5 DEF Left, Ceiling
      <2>2. CASE left > 0
            <3>1. PICK c \in Int : c = x.start + left
                  BY <1>5
            <3>2. PICK z \in Attempts : z = [x EXCEPT !.ceiling = c, !.grace = meter.graceUsed]
                  BY <1>5 DEF Attempts
            <3>3. run' = [run EXCEPT ![r] = Loop(z)]
                  BY <1>3, <1>9, <2>1, <2>2, <3>1, <3>2 DEF ResolveBudget
            <3>4. /\ z.ws = x.ws /\ z.account = x.account /\ z.gen = x.gen /\ z.page = x.page
                  /\ z.exhausted = x.exhausted
                  BY <3>2 DEF Attempts
            <3>.  QED BY <1>1, <1>2, <1>6, <1>8, <3>3, <3>4, NothingSeen DEF BackfillInv, Typed
      <2>3. CASE ~(left > 0) /\ ~meter.graceUsed /\ x.ws \in meter.grants
            <3>1. PICK c \in Int : c = x.start + 2 * Cap - meter.used
                  BY <1>5
            <3>2. PICK z \in Attempts : z = [x EXCEPT !.at = "grace", !.ceiling = c]
                  BY DEF Attempts, Steps
            <3>3. run' = [run EXCEPT ![r] = z]
                  BY <1>3, <1>9, <2>1, <2>3, <3>1, <3>2 DEF ResolveBudget
            <3>4. /\ z.ws = x.ws /\ z.account = x.account /\ z.gen = x.gen /\ z.page = x.page
                  /\ z.exhausted = x.exhausted /\ z.at = "grace"
                  BY <3>2 DEF Attempts
            <3>.  QED BY <1>1, <1>2, <1>6, <1>7, <3>3, <3>4, NothingSeen DEF BackfillInv, Typed
      <2>4. CASE ~(left > 0) /\ ~(~meter.graceUsed /\ x.ws \in meter.grants)
            <3>1. PICK z \in Attempts : z = [x EXCEPT !.ceiling = x.start, !.grace = meter.graceUsed,
                                                      !.blocked = meter.graceUsed]
                  BY <1>5 DEF Attempts
            <3>2. run' = [run EXCEPT ![r] = Loop(z)]
                  BY <1>3, <1>9, <2>1, <2>4, <3>1 DEF ResolveBudget
            <3>3. /\ z.ws = x.ws /\ z.account = x.account /\ z.gen = x.gen /\ z.page = x.page
                  /\ z.exhausted = x.exhausted
                  BY <3>1 DEF Attempts
            <3>.  QED BY <1>1, <1>2, <1>6, <1>8, <3>2, <3>3, NothingSeen DEF BackfillInv, Typed
      <2>.  QED BY <2>2, <2>3, <2>4
<1>10. CASE ClaimGrace(r)
      <2>1. CASE meter.graceUsed
            <3>1. PICK z \in Attempts : z = [x EXCEPT !.ceiling = x.start, !.blocked = TRUE]
                  BY <1>5 DEF Attempts
            <3>2. run' = [run EXCEPT ![r] = Loop(z)]
                  BY <1>3, <1>10, <2>1, <3>1 DEF ClaimGrace
            <3>3. /\ z.ws = x.ws /\ z.account = x.account /\ z.gen = x.gen /\ z.page = x.page
                  /\ z.exhausted = x.exhausted
                  BY <3>1 DEF Attempts
            <3>.  QED BY <1>1, <1>2, <1>6, <1>8, <3>2, <3>3, NothingSeen DEF BackfillInv, Typed
      <2>2. CASE ~meter.graceUsed
            <3>1. PICK c \in Int : c = IF x.ceiling > x.start THEN x.ceiling ELSE x.start
                  BY <1>5
            <3>2. PICK z \in Attempts : z = [x EXCEPT !.ceiling = c, !.grace = TRUE]
                  BY DEF Attempts
            <3>3. run' = [run EXCEPT ![r] = Loop(z)]
                  BY <1>3, <1>10, <2>2, <3>1, <3>2 DEF ClaimGrace
            <3>4. /\ z.ws = x.ws /\ z.account = x.account /\ z.gen = x.gen /\ z.page = x.page
                  /\ z.exhausted = x.exhausted
                  BY <3>2 DEF Attempts
            <3>.  QED BY <1>1, <1>2, <1>6, <1>8, <3>3, <3>4, NothingSeen DEF BackfillInv, Typed
      <2>.  QED BY <2>1, <2>2
<1>.  QED BY <1>9, <1>10

\* A page is examined, or cut off by the budget, to its last thread.
LEMMA ImportPageInv ==
    ASSUME BackfillInv, NEW r \in Workers, ImportPage(r)
    PROVE  BackfillInv'
<1>1. state' = state /\ meter' = meter
      BY DEF ImportPage
<1>2. PICK x \in Attempts : x = run[r]
      BY DEF BackfillInv, Typed, RunTyped
<1>3. x.at = "page" /\ x.ws \in Workspaces /\ AttemptOK(x)
      BY <1>2 DEF BackfillInv, Typed, RunTyped, AttemptsOK, ImportPage, At
<1>4. PICK w \in Workspaces : w = x.ws
      BY <1>3
<1>5. PICK S \in SUBSET Listed : S = Taken(x)
      BY DEF Taken, Page
<1>6. PICK T \in SUBSET Listed : T = Page(x) \ S
      BY DEF Page
<1>7. ImportThreads(w, S) /\ trimmed' = [trimmed EXCEPT ![w] = @ \cup T]
      BY <1>2, <1>4, <1>5, <1>6 DEF ImportPage
<1>8. /\ HistoryTyped' /\ seen'[w] = seen[w] \cup S /\ trimmed'[w] = trimmed[w] \cup T
      /\ \A v \in Workspaces : /\ seen[v] \subseteq seen'[v] /\ trimmed[v] \subseteq trimmed'[v]
                               /\ seen'[v] \ (SentOnly \cup Broken) \subseteq rows'[v]
      BY <1>7, ThreadsSeen DEF BackfillInv, Typed, HistoryTyped
<1>9. StateTyped' /\ RowsOK' /\ \A v \in Workspaces : Grows(v) /\ Onward(v)
      BY <1>1, <1>8, RowsStay DEF BackfillInv
<1>10. PICK p \in Nat, a \in Nat, b \in Nat :
          /\ p = x.page + PageSize
          /\ a = Cardinality(S \ SentOnly) /\ b = Cardinality(S)
      BY Bounds, Counts DEF Attempts
<1>11. PICK e \in BOOLEAN : e = (p >= Mail)
      <2>1. (p >= Mail) \in BOOLEAN
            OBVIOUS
      <2>.  QED BY <2>1, Zenon
<1>12. PICK z \in Attempts : /\ z = [x EXCEPT !.processed = @ + a, !.examined = @ + b,
                                              !.page = p, !.exhausted = e]
                             /\ z.ws = x.ws /\ z.account = x.account /\ z.gen = x.gen
                             /\ z.page = p /\ z.exhausted = e
      <2>1. PICK k \in Int, m \in Int : k = x.processed + a /\ m = x.examined + b
            BY DEF Attempts
      <2>2. PICK z \in Attempts : z = [x EXCEPT !.processed = k, !.examined = m,
                                                 !.page = p, !.exhausted = e]
            BY DEF Attempts
      <2>3. /\ z.ws = x.ws /\ z.account = x.account /\ z.gen = x.gen
            /\ z.page = p /\ z.exhausted = e
            BY <2>2 DEF Attempts
      <2>.  QED BY <2>1, <2>2, <2>3
<1>13. PICK y \in Attempts : y = Loop(z)
      BY LoopDoes
<1>14. /\ y.at \in {"page", "route"} /\ y.ws = w /\ y.account = x.account /\ y.gen = x.gen
       /\ y.page = p /\ y.exhausted = e
      BY <1>4, <1>12, <1>13, LoopDoes
<1>15. run' = [run EXCEPT ![r] = y]
      <2>1. run' = [run EXCEPT ![r] = Loop([x EXCEPT
                      !.processed = @ + a, !.examined = @ + b, !.page = p, !.exhausted = e])]
            BY <1>2, <1>5, <1>10, <1>11 DEF ImportPage
      <2>.  QED BY <1>12, <1>13, <2>1
<1>16. AttemptOK(y)'
      <2>1. /\ x.account <= state[w].account
            /\ x.account = state[w].account => x.gen <= state[w].generation
            /\ x.account = state[w].account /\ x.gen = state[w].generation => Covered(w, x.page)
            BY <1>3, <1>4 DEF AttemptOK
      <2>2. ASSUME Covered(w, x.page)
            PROVE  Covered(w, p)'
            <3>1. x.page \in Nat
                  BY DEF Attempts
            <3>2. {q \in Listed : q <= p} \subseteq {q \in Listed : q <= x.page} \cup Page(x)
                  BY <1>10, <3>1, Bounds DEF Page, Listed
            <3>.  QED BY <1>6, <1>8, <2>2, <3>2 DEF Covered
      <2>3. e => Mail <= p
            BY <1>11, Bounds
      <2>.  QED BY <1>1, <1>14, <2>1, <2>2, <2>3 DEF AttemptOK
<1>17. RunTyped' /\ AttemptsOK'
      BY <1>9, <1>14, <1>15, <1>16, RunMoves DEF BackfillInv
<1>.  QED BY <1>1, <1>8, <1>9, <1>17 DEF BackfillInv, Typed

LEMMA NoticeInv ==
    ASSUME BackfillInv, NEW r \in Workers, NoticeDisconnect(r)
    PROVE  BackfillInv'
<1>1. state' = state /\ meter' = meter /\ trimmed' = trimmed
      BY DEF NoticeDisconnect
<1>2. PICK x \in Attempts : x = run[r]
      BY DEF BackfillInv, Typed, RunTyped
<1>3. x.at = "page" /\ x.ws \in Workspaces
      BY <1>2 DEF BackfillInv, Typed, RunTyped, NoticeDisconnect, At
<1>4. PICK n \in Taken(x) : ImportThreads(x.ws, {p \in Taken(x) : p <= n})
      BY <1>2 DEF NoticeDisconnect
<1>5. {p \in Taken(x) : p <= n} \in SUBSET Listed
      BY DEF Taken, Page
<1>6. /\ HistoryTyped'
      /\ \A v \in Workspaces : /\ seen[v] \subseteq seen'[v] /\ trimmed[v] \subseteq trimmed'[v]
                               /\ seen'[v] \ (SentOnly \cup Broken) \subseteq rows'[v]
      BY <1>1, <1>3, <1>4, <1>5, ThreadsSeen DEF BackfillInv
<1>7. StateTyped' /\ RowsOK' /\ \A v \in Workspaces : Onward(v)
      BY <1>1, <1>6, RowsStay DEF BackfillInv
<1>8. PICK y \in Attempts : y = [x EXCEPT !.at = "disconnected"]
      BY DEF Attempts, Steps
<1>9. /\ y.at = "disconnected" /\ y.ws = x.ws /\ y.account = x.account
      /\ y.gen = x.gen /\ y.page = x.page /\ y.exhausted = x.exhausted
      BY <1>8 DEF Attempts
<1>10. run' = [run EXCEPT ![r] = y]
      BY <1>2, <1>8 DEF NoticeDisconnect, Goto
<1>11. RunTyped' /\ AttemptsOK'
      BY <1>2, <1>3, <1>7, <1>9, <1>10, RunGoes DEF BackfillInv
<1>.  QED BY <1>1, <1>6, <1>7, <1>11 DEF BackfillInv, Typed

\* An attempt that still owns the row may write what it carries.
LEMMA OwnedCovers ==
    ASSUME BackfillInv, NEW r \in Workers, run[r].at # "idle", Owned(r)
    PROVE  /\ Covered(run[r].ws, run[r].page)
           /\ run[r].exhausted => Covered(run[r].ws, Mail)
<1>1. PICK x \in Attempts : x = run[r] /\ AttemptOK(x)
      BY DEF BackfillInv, Typed, RunTyped, AttemptsOK
<1>2. Covered(x.ws, x.page) /\ (x.exhausted => Mail <= x.page)
      BY <1>1 DEF AttemptOK, Owned
<1>3. Mail <= x.page => {q \in Listed : q <= Mail} \subseteq {q \in Listed : q <= x.page}
      BY Bounds DEF Attempts, Listed
<1>4. x.exhausted => Covered(x.ws, Mail)
      BY <1>2, <1>3 DEF Covered
<1>.  QED BY <1>1, <1>2, <1>4

LEMMA ResetInv ==
    ASSUME BackfillInv, NEW r \in Workers, ResetDisconnected(r)
    PROVE  BackfillInv'
<1>1. UNCHANGED <<rows, seen, trimmed, meter>> /\ run' = [run EXCEPT ![r] = Idle]
      BY DEF ResetDisconnected, rowVars, history, Leave
<1>2. PICK w \in Workspaces : w = run[r].ws
      BY DEF BackfillInv, Typed, RunTyped, ResetDisconnected, At
<1>3. StateTyped' /\ RowsOK' /\ \A v \in Workspaces : Onward(v)
      <2>1. CASE state' = state
            BY <1>1, <2>1, NothingSeen, RowsStay DEF BackfillInv
      <2>2. CASE state' = [state EXCEPT ![w] = Reset(@)]
            <3>1. PICK old \in SyncRows : old = state[w]
                  BY DEF BackfillInv, Typed, StateTyped
            <3>2. PICK s \in SyncRows : s = Reset(old)
                  BY ResetDoes
            <3>3. /\ s.account = old.account /\ s.generation = old.generation /\ s.page = 0
                  /\ s.status = "PENDING"
                  BY <3>2, ResetDoes
            <3>4. state' = [state EXCEPT ![w] = s]
                  BY <2>2, <3>1, <3>2
            <3>.  QED BY <1>1, <3>1, <3>3, <3>4, CoveredFromStart, NothingSeen, RowsMove
                      DEF BackfillInv
      <2>.  QED BY <1>2, <2>1, <2>2 DEF ResetDisconnected
<1>4. RunTyped' /\ AttemptsOK'
      BY <1>1, <1>3, RunLeaves DEF BackfillInv
<1>.  QED BY <1>1, <1>3, <1>4, NothingSeen DEF BackfillInv, Typed

LEMMA RouteArmedInv ==
    ASSUME BackfillInv, NEW r \in Workers, RouteArmed(r)
    PROVE  BackfillInv'
<1>1. UNCHANGED <<state, rows, seen, trimmed, meter>>
      BY DEF RouteArmed, history
<1>2. StateTyped' /\ RowsOK' /\ \A v \in Workspaces : Onward(v)
      BY <1>1, NothingSeen, RowsStay DEF BackfillInv
<1>3. PICK x \in Attempts : x = run[r]
      BY DEF BackfillInv, Typed, RunTyped
<1>4. x.at = "route"
      BY <1>3 DEF RouteArmed, At
<1>5. PICK y \in Attempts : y = [x EXCEPT !.at = "commit"]
      BY DEF Attempts, Steps
<1>6. /\ y.at = "commit" /\ y.ws = x.ws /\ y.account = x.account
      /\ y.gen = x.gen /\ y.page = x.page /\ y.exhausted = x.exhausted
      BY <1>5 DEF Attempts
<1>7. run' = [run EXCEPT ![r] = y]
      BY <1>3, <1>5 DEF RouteArmed, Goto
<1>8. RunTyped' /\ AttemptsOK'
      BY <1>2, <1>3, <1>4, <1>6, <1>7, RunGoes DEF BackfillInv
<1>.  QED BY <1>1, <1>2, <1>8, NothingSeen DEF BackfillInv, Typed

LEMMA CommitInv ==
    ASSUME BackfillInv, NEW r \in Workers, Commit(r)
    PROVE  BackfillInv'
<1>1. UNCHANGED <<rows, seen, trimmed>>
      BY DEF Commit, rowVars
<1>2. PICK x \in Attempts : x = run[r]
      BY DEF BackfillInv, Typed, RunTyped
<1>3. x.at = "commit" /\ x.ws \in Workspaces
      BY <1>2 DEF BackfillInv, Typed, RunTyped, Commit, At
<1>4. PICK w \in Workspaces : w = x.ws
      BY <1>3
<1>5. StateTyped' /\ RowsOK' /\ \A v \in Workspaces : Onward(v)
      <2>1. CASE ~Owned(r)
            BY <1>1, <2>1, NothingSeen, RowsStay DEF BackfillInv, Commit
      <2>2. CASE Owned(r)
            <3>1. PICK old \in SyncRows : old = state[w]
                  BY DEF BackfillInv, Typed, StateTyped
            <3>2. PICK s \in SyncRows : /\ s = Finished(old, x)
                                        /\ s.account = old.account /\ s.generation = old.generation
                                        /\ s.page \in {0, x.page}
                                        /\ s.status = "DONE" /\ s.limit = "NONE" => x.exhausted
                  BY FinishedDoes
            <3>3. state' = [state EXCEPT ![w] = s]
                  BY <1>2, <1>4, <2>2, <3>1, <3>2 DEF Commit
            <3>4. /\ Covered(w, s.page)
                  /\ s.status = "DONE" /\ s.limit = "NONE" => Covered(w, Mail)
                  BY <1>2, <1>3, <1>4, <2>2, <3>2, OwnedCovers, CoveredFromStart
            <3>.  QED BY <1>1, <3>1, <3>2, <3>3, <3>4, NothingSeen, RowsMove DEF BackfillInv
      <2>.  QED BY <2>1, <2>2
<1>6. meter' \in Meters
      BY <1>2, ChargeTyped DEF BackfillInv, Typed, Commit
<1>7. RunTyped' /\ AttemptsOK'
      <2>1. CASE run' = [run EXCEPT ![r] = Idle]
            BY <1>5, <2>1, RunLeaves DEF BackfillInv
      <2>2. CASE Goto(r, "add")
            <3>1. PICK y \in Attempts : y = [x EXCEPT !.at = "add"]
                  BY DEF Attempts, Steps
            <3>2. /\ y.at = "add" /\ y.ws = x.ws /\ y.account = x.account
                  /\ y.gen = x.gen /\ y.page = x.page /\ y.exhausted = x.exhausted
                  BY <3>1 DEF Attempts
            <3>3. run' = [run EXCEPT ![r] = y]
                  BY <1>2, <2>2, <3>1 DEF Goto
            <3>.  QED BY <1>2, <1>3, <1>5, <3>2, <3>3, RunGoes DEF BackfillInv
      <2>.  QED BY <2>1, <2>2 DEF Commit, Leave
<1>.  QED BY <1>1, <1>5, <1>6, <1>7, NothingSeen DEF BackfillInv, Typed

\* The catch writes ERROR and keeps the cursor, over DONE too.
LEMMA FailInv ==
    ASSUME BackfillInv, NEW r \in Workers, Fail(r)
    PROVE  BackfillInv'
<1>1. trimmed' = trimmed /\ run' = [run EXCEPT ![r] = Idle]
      BY DEF Fail, Leave
<1>2. PICK x \in Attempts : x = run[r]
      BY DEF BackfillInv, Typed, RunTyped
<1>3. x.at # "idle" /\ x.ws \in Workspaces
      BY <1>2 DEF BackfillInv, Typed, RunTyped, Fail
<1>4. PICK w \in Workspaces : w = x.ws
      BY <1>3
<1>5. /\ HistoryTyped'
      /\ \A v \in Workspaces : /\ seen[v] \subseteq seen'[v] /\ trimmed[v] \subseteq trimmed'[v]
                               /\ seen'[v] \ (SentOnly \cup Broken) \subseteq rows'[v]
      <2>1. CASE UNCHANGED <<rows, seen>>
            BY <1>1, <2>1, NothingSeen DEF BackfillInv
      <2>2. CASE \E n \in 0 .. Mail : ImportThreads(w, {p \in Taken(x) : p <= n})
            <3>1. PICK n \in 0 .. Mail : ImportThreads(w, {p \in Taken(x) : p <= n})
                  BY <2>2
            <3>2. {p \in Taken(x) : p <= n} \in SUBSET Listed
                  BY DEF Taken, Page
            <3>.  QED BY <1>1, <3>1, <3>2, ThreadsSeen DEF BackfillInv
      <2>.  QED BY <1>2, <1>4, <2>1, <2>2 DEF Fail
<1>6. StateTyped' /\ RowsOK' /\ \A v \in Workspaces : Onward(v)
      <2>1. CASE state' = state
            BY <1>5, <2>1, RowsStay DEF BackfillInv
      <2>2. CASE state' # state
            <3>1. PICK old \in SyncRows : old = state[w]
                  BY DEF BackfillInv, Typed, StateTyped
            <3>2. PICK t \in SyncRows :
                     /\ t \in {old, Finished(old, x)}
                     /\ state' = [state EXCEPT ![w] = [t EXCEPT !.status = "ERROR", !.started = "null"]]
                  BY <1>2, <1>4, <2>2, <3>1, FinishedDoes DEF Fail
            <3>3. Owned(r)
                  BY <2>2 DEF Fail
            <3>4. t.account = old.account /\ t.generation = old.generation
                  BY <3>2, FinishedDoes
            <3>5. Covered(w, t.page)
                  <4>1. Covered(w, old.page)
                        BY <3>1 DEF BackfillInv, RowsOK, RowOK
                  <4>2. Covered(w, 0) /\ Covered(w, x.page)
                        BY <1>2, <1>3, <1>4, <3>3, OwnedCovers, CoveredFromStart
                  <4>.  QED BY <3>2, <4>1, <4>2, FinishedDoes
            <3>6. PICK s \in SyncRows : /\ s = [t EXCEPT !.status = "ERROR", !.started = "null"]
                                        /\ s.account = t.account /\ s.generation = t.generation
                                        /\ s.page = t.page /\ s.status = "ERROR"
                  <4>1. PICK u \in SyncRows : u = [t EXCEPT !.status = "ERROR"]
                        BY DEF SyncRows
                  <4>2. PICK s \in SyncRows : s = [u EXCEPT !.started = "null"]
                        BY DEF SyncRows
                  <4>.  QED BY <4>1, <4>2 DEF SyncRows
            <3>7. state' = [state EXCEPT ![w] = s]
                  BY <3>2, <3>6
            <3>.  QED BY <1>5, <3>1, <3>4, <3>5, <3>6, <3>7, RowsMove DEF BackfillInv
      <2>.  QED BY <2>1, <2>2
<1>7. meter' \in Meters
      BY <1>2, ChargeTyped DEF BackfillInv, Typed, Fail
<1>8. RunTyped' /\ AttemptsOK'
      BY <1>1, <1>6, RunLeaves DEF BackfillInv
<1>.  QED BY <1>5, <1>6, <1>7, <1>8 DEF BackfillInv, Typed

LEMMA LeaveInv ==
    ASSUME BackfillInv, NEW r \in Workers, AddContinuation(r) \/ Crash(r)
    PROVE  BackfillInv'
<1>1. UNCHANGED <<state, rows, seen, trimmed, meter>> /\ run' = [run EXCEPT ![r] = Idle]
      BY DEF AddContinuation, Crash, rowVars, history, Leave
<1>2. StateTyped' /\ RowsOK' /\ \A v \in Workspaces : Onward(v)
      BY <1>1, NothingSeen, RowsStay DEF BackfillInv
<1>3. RunTyped' /\ AttemptsOK'
      BY <1>1, <1>2, RunLeaves DEF BackfillInv
<1>.  QED BY <1>1, <1>2, <1>3, NothingSeen DEF BackfillInv, Typed

LEMMA StepInv == BackfillInv /\ [Next]_vars => BackfillInv'
<1>.  SUFFICES ASSUME BackfillInv, [Next]_vars
               PROVE  BackfillInv'
      OBVIOUS
<1>1. ASSUME NEW r \in Workers, Work(r)
      PROVE  BackfillInv'
      BY <1>1, BeginInv, ClaimInv, ReadInv, BudgetInv, ImportPageInv, NoticeInv, ResetInv,
         RouteArmedInv, CommitInv, LeaveInv DEF Work
<1>2. ASSUME NEW r \in Workers, Fail(r) \/ Crash(r)
      PROVE  BackfillInv'
      BY <1>2, FailInv, LeaveInv
<1>3. ASSUME NEW w \in Workspaces, SyncTick(w) \/ SweepInbox(w) \/ EraseEmailAccountData(w)
      PROVE  BackfillInv'
      BY <1>3, SyncTickInv, SweepInv, EraseInv
<1>4. ASSUME NEW w \in Workspaces, ArmAutoRouteBacklog(w) \/ Age(w)
      PROVE  BackfillInv'
      <2>1. UNCHANGED <<rows, seen, trimmed, run, meter>>
            BY <1>4 DEF ArmAutoRouteBacklog, Age, rowVars, history
      <2>2. \/ state' = state
            \/ state' = [state EXCEPT ![w].armed = TRUE]
            \/ state[w].status = "RUNNING" /\ state' = [state EXCEPT ![w].started = "stale"]
            BY <1>4 DEF ArmAutoRouteBacklog, Age
      <2>.  QED BY <2>1, <2>2, MarkInv
<1>5. ASSUME NEW w \in Workspaces, RouteUnrouted(w) \/ Disconnect(w) \/ Reconnect(w)
      PROVE  BackfillInv'
      <2>1. UNCHANGED <<state, rows, seen, trimmed, run, meter>>
            BY <1>5 DEF RouteUnrouted, Disconnect, Reconnect, rowVars, history
      <2>.  QED BY <2>1, MarkInv
<1>6. CASE UNCHANGED vars
      <2>1. UNCHANGED <<state, rows, seen, trimmed, run, meter>>
            BY <1>6 DEF vars, rowVars, history
      <2>2. StateTyped' /\ RowsOK' /\ \A v \in Workspaces : Onward(v)
            BY <2>1, NothingSeen, RowsStay DEF BackfillInv
      <2>3. RunTyped' /\ AttemptsOK'
            BY <2>1, <2>2, RunStays DEF BackfillInv
      <2>.  QED BY <2>1, <2>2, <2>3, NothingSeen DEF BackfillInv, Typed
<1>.  QED BY <1>1, <1>2, <1>3, <1>4, <1>5, <1>6 DEF Next

-----------------------------------------------------------------------------
(* The theorem.                                                            *)

LEMMA InvScanned == BackfillInv => DoneMeansScanned
<1>.  SUFFICES ASSUME BackfillInv, NEW w \in Workspaces,
                      state[w].status = "DONE", state[w].limit = "NONE"
               PROVE  /\ Listed \ trimmed[w] \subseteq seen[w]
                      /\ Importable \ (Broken \cup trimmed[w]) \subseteq rows[w]
      BY DEF DoneMeansScanned
<1>1. Covered(w, Mail) /\ seen[w] \ (SentOnly \cup Broken) \subseteq rows[w]
      BY DEF BackfillInv, RowsOK, RowOK
<1>2. Listed \ trimmed[w] \subseteq seen[w]
      BY <1>1 DEF Covered, Listed
<1>.  QED BY <1>1, <1>2 DEF Importable

\* When the row says DONE without a banner, every thread of the mailbox has been examined
\* since the account was made or last swept, except those a page left out for want of
\* budget, and each one that can be imported has its row: the claim, the generation check
\* of sections 7, 9 and 10 of backfill-inbox.ts and the erasure of the account let no
\* attempt, failed, superseded or taken over, finish for pages it did not see.
THEOREM DoneAlwaysScanned == Spec => []DoneMeansScanned
<1>1. Spec => []BackfillInv
      BY InitInv, StepInv, PTL DEF Spec
<1>.  QED BY <1>1, InvScanned, PTL

-----------------------------------------------------------------------------
(* The pooled budget.  An attempt holds budget from the moment it resolved *)
(* its ceiling until it commits or leaves.                                 *)

Spending == {"page", "route", "commit"}

Held(x)  == IF x.at \in Spending THEN x.ceiling - x.start ELSE 0
Holders  == {r \in Workers : Held(run[r]) > 0}

\* What k attempts leave of the room for those of all workers but one.
Room(k) == (Cardinality(Workers) - 1 - k) * ChunkLength

\* An attempt has imported no more than it examined, and no more than it holds.
AmountOK(x) ==
    /\ x.at \in {"claim", "read", "budget", "grace"} => x.examined = 0
    /\ x.at \in {"budget", "grace"} => x.processed = x.start
    /\ x.at \in Spending =>
          /\ x.start <= x.processed /\ x.processed - x.start <= x.examined
          /\ x.examined <= ChunkLength
          /\ x.processed = x.start \/ x.processed <= x.ceiling
    /\ x.at = "page" => x.examined < Chunk /\ x.processed < x.ceiling

AmountsOK == \A r \in Workers : AmountOK(run[r])

\* The attempts that hold budget can import a chunk each. The last one to resolve its
\* ceiling will respect what was used then; until it commits or leaves it is the witness.
HoldersOK(n) ==
    \/ meter.used <= Ceiling + Room(n)
    \/ \E r \in Holders : meter.used + Held(run[r]) <= Ceiling + Room(n - 1)

\* Attempts that found the first cap used up may double it once.
GraceOK(n) ==
    ~meter.graceUsed => \A r \in Workers : run[r].at = "grace" =>
        /\ Cap <= meter.used
        /\ meter.used + run[r].ceiling - run[r].start <= 2 * Cap + Room(n)

PoolOK == HoldersOK(Cardinality(Holders)) /\ GraceOK(Cardinality(Holders))

LEMMA WorkersCount ==
    /\ IsFiniteSet(Workers) /\ Cardinality(Workers) \in Nat /\ Cardinality(Workers) >= 1
    /\ ChunkLength \in Nat
<1>1. IsFiniteSet(Workers) /\ Workers # {}
      BY BackfillAssumption
<1>2. Cardinality(Workers) \in Nat /\ Cardinality(Workers) # 0
      BY <1>1, FS_CardinalityType, FS_EmptySet
<1>.  QED BY <1>1, <1>2, Bounds DEF ChunkLength

LEMMA RoomDoes ==
    /\ \A k \in Int : Room(k) \in Int /\ Room(k - 1) = Room(k) + ChunkLength
    /\ \A k \in Int : k < Cardinality(Workers) => Room(k) >= 0
    /\ \A k \in Nat : Room(k) <= Room(0)
<1>.  DEFINE w == Cardinality(Workers)
             n == ChunkLength
<1>1. w \in Nat /\ n \in Nat
      BY WorkersCount
<1>.  HIDE DEF w, n
<1>2. \A k \in Int : (w - 1 - k) * n \in Int /\ (w - 1 - (k - 1)) * n = (w - 1 - k) * n + n
      BY <1>1
<1>3. \A j \in Nat : j * n >= 0
      BY <1>1
<1>4. \A k \in Int : k < w => (w - 1 - k) * n >= 0
      BY <1>1, <1>3
<1>5. \A k \in Nat : (w - 1 - k) * n + k * n = (w - 1 - 0) * n
      BY <1>1
<1>.  QED BY <1>1, <1>2, <1>3, <1>4, <1>5 DEF Room, w, n

LEMMA HoldersCount ==
    /\ IsFiniteSet(Holders) /\ Cardinality(Holders) \in Nat
    /\ \A r \in Workers \ Holders : /\ Cardinality(Holders) < Cardinality(Workers)
                                    /\ Cardinality(Holders \cup {r}) = Cardinality(Holders) + 1
    /\ \A r \in Holders : Cardinality(Holders \ {r}) = Cardinality(Holders) - 1
<1>1. IsFiniteSet(Holders) /\ Cardinality(Holders) \in Nat
      BY WorkersCount, FS_Subset, FS_CardinalityType DEF Holders
<1>2. ASSUME NEW r \in Workers \ Holders
      PROVE  /\ Cardinality(Holders) < Cardinality(Workers)
             /\ Cardinality(Holders \cup {r}) = Cardinality(Holders) + 1
      <2>1. Cardinality(Holders \cup {r}) = Cardinality(Holders) + 1
            BY <1>1, <1>2, FS_AddElement
      <2>2. Holders \cup {r} \subseteq Workers
            BY <1>2 DEF Holders
      <2>3. Cardinality(Holders \cup {r}) <= Cardinality(Workers)
            BY <2>2, WorkersCount, FS_Subset
      <2>.  QED BY <1>1, <2>1, <2>3, WorkersCount
<1>3. \A r \in Holders : Cardinality(Holders \ {r}) = Cardinality(Holders) - 1
      BY <1>1, FS_RemoveElement
<1>.  QED BY <1>1, <1>2, <1>3

\* The attempt of r becomes y.
LEMMA HoldersMove ==
    ASSUME RunTyped, NEW r \in Workers, NEW y \in Attempts, run' = [run EXCEPT ![r] = y]
    PROVE  /\ run'[r] = y /\ \A d \in Workers \ {r} : run'[d] = run[d]
           /\ Holders' = IF Held(y) > 0 THEN Holders \cup {r} ELSE Holders \ {r}
<1>1. run'[r] = y /\ \A d \in Workers \ {r} : run'[d] = run[d]
      BY DEF RunTyped
<1>.  QED BY <1>1 DEF Holders, Held

LEMMA HeldTyped ==
    ASSUME NEW x \in Attempts
    PROVE  Held(x) \in Int
BY DEF Held, Attempts

\* It holds what it held.
LEMMA PoolKeeps ==
    ASSUME BackfillInv, PoolOK, NEW r \in Workers, NEW y \in Attempts,
           run' = [run EXCEPT ![r] = y], Held(y) = Held(run[r]), y.at # "grace",
           meter'.used = meter.used, meter'.graceUsed = meter.graceUsed
    PROVE  PoolOK'
<1>1. RunTyped /\ run[r] \in Attempts
      BY DEF BackfillInv, Typed, RunTyped
<1>2. /\ run'[r] = y /\ \A d \in Workers \ {r} : run'[d] = run[d]
      /\ Holders' = IF Held(y) > 0 THEN Holders \cup {r} ELSE Holders \ {r}
      BY <1>1, HoldersMove
<1>3. Holders' = Holders
      BY <1>2 DEF Holders
<1>4. \A d \in Workers : Held(run'[d]) = Held(run[d])
      BY <1>2
<1>5. PICK n : n = Cardinality(Holders)
      OBVIOUS
<1>6. HoldersOK(n)'
      BY <1>3, <1>4, <1>5 DEF PoolOK, HoldersOK, Holders, Ceiling
<1>7. GraceOK(n)'
      BY <1>2, <1>5 DEF PoolOK, GraceOK
<1>.  QED BY <1>3, <1>5, <1>6, <1>7 DEF PoolOK

\* It holds nothing any more, and has charged at most what it held.
LEMMA PoolLeaves ==
    ASSUME BackfillInv, PoolOK, NEW r \in Workers, NEW y \in Attempts,
           run' = [run EXCEPT ![r] = y], Held(y) = 0, y.at # "grace",
           meter'.graceUsed = meter.graceUsed, meter'.used \in Int,
           meter.used <= meter'.used, meter'.used <= meter.used + ChunkLength,
           meter'.used = meter.used \/ meter'.used <= meter.used + Held(run[r])
    PROVE  PoolOK'
<1>1. RunTyped /\ run[r] \in Attempts /\ meter.used \in Int /\ Ceiling \in Int
      BY Bounds DEF BackfillInv, Typed, RunTyped, Meters, Ceiling
<1>2. /\ run'[r] = y /\ \A d \in Workers \ {r} : run'[d] = run[d]
      /\ Holders' = Holders \ {r}
      <2>1. Holders' = IF Held(y) > 0 THEN Holders \cup {r} ELSE Holders \ {r}
            BY <1>1, HoldersMove
      <2>2. ~(Held(y) > 0)
            OBVIOUS
      <2>.  QED BY <1>1, <2>1, <2>2, HoldersMove
<1>3. PICK n \in Nat : n = Cardinality(Holders)
      BY HoldersCount
<1>4. Ceiling' = Ceiling /\ ChunkLength \in Nat
      BY WorkersCount DEF Ceiling
<1>5. /\ Room(n) \in Int /\ Room(n - 1) = Room(n) + ChunkLength
      /\ Room(n - 2) = Room(n - 1) + ChunkLength
      BY RoomDoes
<1>6. \A d \in Workers : run[d] \in Attempts /\ Held(run[d]) \in Int
      BY <1>1, HeldTyped DEF RunTyped
<1>7. CASE r \in Holders
      <2>1. Cardinality(Holders') = n - 1
            BY <1>2, <1>3, <1>7, HoldersCount
      <2>2. HoldersOK(n - 1)'
            <3>1. CASE meter.used <= Ceiling + Room(n)
                  <4>1. meter'.used <= Ceiling + Room(n - 1)
                        BY <1>1, <1>4, <1>5, <3>1
                  <4>.  QED BY <1>4, <4>1 DEF HoldersOK, Room, ChunkLength
            <3>2. CASE \E d \in Holders : meter.used + Held(run[d]) <= Ceiling + Room(n - 1)
                  <4>1. PICK d \in Holders : meter.used + Held(run[d]) <= Ceiling + Room(n - 1)
                        BY <3>2
                  <4>2. Held(run[d]) \in Int /\ Held(run[d]) > 0
                        BY <1>6 DEF Holders
                  <4>3. CASE d = r
                        <5>1. meter'.used <= Ceiling + Room(n - 1)
                              BY <1>1, <1>4, <1>5, <4>1, <4>2, <4>3
                        <5>.  QED BY <1>4, <5>1 DEF HoldersOK, Room, ChunkLength
                  <4>4. CASE d # r
                        <5>1. d \in Holders' /\ Held(run'[d]) = Held(run[d])
                              BY <1>2, <4>4 DEF Holders
                        <5>2. meter'.used + Held(run'[d]) <= Ceiling + Room((n - 1) - 1)
                              BY <1>1, <1>4, <1>5, <4>1, <4>2, <5>1
                        <5>.  QED BY <1>4, <5>1, <5>2 DEF HoldersOK, Room, ChunkLength
                  <4>.  QED BY <4>3, <4>4
            <3>.  QED BY <1>3, <3>1, <3>2 DEF PoolOK, HoldersOK
      <2>3. GraceOK(n - 1)'
            <3>.  SUFFICES ASSUME ~meter'.graceUsed, NEW d \in Workers, run'[d].at = "grace"
                           PROVE  /\ Cap <= meter'.used
                                  /\ meter'.used + run'[d].ceiling - run'[d].start
                                        <= 2 * Cap + Room(n - 1)
                  BY DEF GraceOK, Room, ChunkLength
            <3>1. d # r /\ run'[d] = run[d]
                  BY <1>2
            <3>2. /\ Cap <= meter.used
                  /\ meter.used + run[d].ceiling - run[d].start <= 2 * Cap + Room(n)
                  BY <1>3, <3>1 DEF PoolOK, GraceOK
            <3>3. run[d].ceiling \in Int /\ run[d].start \in Int /\ Cap \in Int
                  BY <1>6, Bounds DEF Attempts
            <3>.  QED BY <1>1, <1>4, <1>5, <3>1, <3>2, <3>3
      <2>.  QED BY <2>1, <2>2, <2>3 DEF PoolOK
<1>8. CASE r \notin Holders
      <2>1. Holders' = Holders
            BY <1>2, <1>8
      <2>2. Held(run[r]) <= 0 /\ Held(run[r]) \in Int
            BY <1>6, <1>8 DEF Holders
      <2>3. meter'.used = meter.used
            BY <1>1, <2>2
      <2>4. \A d \in Holders : run'[d] = run[d]
            BY <1>2, <1>8 DEF Holders
      <2>5. HoldersOK(n)'
            BY <1>3, <2>1, <2>3, <2>4, <1>4 DEF PoolOK, HoldersOK, Room, ChunkLength
      <2>6. GraceOK(n)'
            BY <1>2, <1>3, <2>3 DEF PoolOK, GraceOK, Room, ChunkLength
      <2>.  QED BY <1>3, <2>1, <2>5, <2>6 DEF PoolOK
<1>.  QED BY <1>7, <1>8

\* It resolves its ceiling and becomes the witness.
LEMMA PoolEnters ==
    ASSUME BackfillInv, PoolOK, NEW r \in Workers, NEW y \in Attempts,
           run' = [run EXCEPT ![r] = y], Held(run[r]) = 0, Held(y) > 0, y.at # "grace",
           meter'.used = meter.used,
           meter.used + Held(y) <= Ceiling' + Room(Cardinality(Holders)),
           meter'.graceUsed \/ (~meter.graceUsed /\ meter.used < Cap)
    PROVE  PoolOK'
<1>1. RunTyped /\ meter.used \in Int /\ Held(y) \in Int /\ Cap \in Int
      BY Bounds, HeldTyped DEF BackfillInv, Typed, RunTyped, Meters
<1>2. PICK n \in Nat : n = Cardinality(Holders)
      BY HoldersCount
<1>3. r \notin Holders
      BY DEF Holders
<1>4. /\ run'[r] = y /\ \A d \in Workers \ {r} : run'[d] = run[d]
      /\ Holders' = Holders \cup {r}
      <2>1. Holders' = IF Held(y) > 0 THEN Holders \cup {r} ELSE Holders \ {r}
            BY <1>1, HoldersMove
      <2>.  QED BY <1>1, <2>1, HoldersMove
<1>5. Cardinality(Holders') = n + 1
      BY <1>2, <1>3, <1>4, HoldersCount
<1>6. HoldersOK(n + 1)'
      <2>1. r \in Holders' /\ Held(run'[r]) = Held(y)
            BY <1>4 DEF Holders
      <2>2. meter'.used + Held(run'[r]) <= Ceiling' + Room((n + 1) - 1)
            BY <1>1, <1>2, <2>1
      <2>.  QED BY <2>1, <2>2 DEF HoldersOK, Room, ChunkLength
<1>7. GraceOK(n + 1)'
      <2>1. CASE meter'.graceUsed
            BY <2>1 DEF GraceOK
      <2>2. CASE ~meter.graceUsed /\ meter.used < Cap
            <3>1. \A d \in Workers : run[d].at # "grace"
                  BY <1>1, <2>2 DEF PoolOK, GraceOK
            <3>2. \A d \in Workers : run'[d].at # "grace"
                  BY <1>4, <3>1
            <3>.  QED BY <3>2 DEF GraceOK
      <2>.  QED BY <2>1, <2>2
<1>.  QED BY <1>5, <1>6, <1>7 DEF PoolOK

LEMMA AmountsMove ==
    ASSUME RunTyped, AmountsOK, NEW r \in Workers, NEW y \in Attempts,
           run' = [run EXCEPT ![r] = y], AmountOK(y)
    PROVE  AmountsOK'
<1>1. run'[r] = y /\ \A d \in Workers \ {r} : run'[d] = run[d]
      BY DEF RunTyped
<1>.  QED BY <1>1 DEF AmountsOK, AmountOK, ChunkLength

\* The loop goes on while the chunk is not filled and the ceiling not reached.
LEMMA LoopAmount ==
    ASSUME NEW z \in Attempts, z.start <= z.processed, z.processed - z.start <= z.examined,
           z.examined <= ChunkLength, z.processed = z.start \/ z.processed <= z.ceiling
    PROVE  AmountOK(Loop(z)) /\ Held(Loop(z)) = z.ceiling - z.start /\ Loop(z).at # "grace"
<1>1. CASE z.examined < Chunk /\ z.processed < z.ceiling /\ ~z.exhausted
      <2>1. PICK y \in Attempts : y = [z EXCEPT !.at = "page"]
            BY DEF Attempts, Steps
      <2>2. /\ y.at = "page" /\ y.start = z.start /\ y.processed = z.processed
            /\ y.ceiling = z.ceiling /\ y.examined = z.examined
            BY <2>1 DEF Attempts
      <2>3. AmountOK(y) /\ Held(y) = z.ceiling - z.start
            BY <1>1, <2>2 DEF AmountOK, Held, Spending
      <2>.  QED BY <1>1, <2>1, <2>2, <2>3 DEF Loop
<1>2. CASE ~(z.examined < Chunk /\ z.processed < z.ceiling /\ ~z.exhausted)
      <2>1. PICK y \in Attempts : y = [z EXCEPT !.at = "route"]
            BY DEF Attempts, Steps
      <2>2. /\ y.at = "route" /\ y.start = z.start /\ y.processed = z.processed
            /\ y.ceiling = z.ceiling /\ y.examined = z.examined
            BY <2>1 DEF Attempts
      <2>3. AmountOK(y) /\ Held(y) = z.ceiling - z.start
            BY <2>2 DEF AmountOK, Held, Spending
      <2>.  QED BY <1>2, <2>1, <2>2, <2>3 DEF Loop
<1>.  QED BY <1>1, <1>2

\* A page takes no more than a page, and no more than the attempt may still import.
LEMMA TakenCount ==
    ASSUME NEW x \in Attempts, x.processed < x.ceiling
    PROVE  /\ Cardinality(Taken(x)) \in Nat /\ Cardinality(Taken(x) \ SentOnly) \in Nat
           /\ Cardinality(Taken(x) \ SentOnly) <= Cardinality(Taken(x))
           /\ Cardinality(Taken(x)) <= PageSize
           /\ Cardinality(Taken(x)) <= x.ceiling - x.processed
<1>1. /\ x.page \in Nat /\ x.ceiling \in Int /\ x.processed \in Int /\ PageSize \in Nat
      BY Bounds DEF Attempts
<1>2. PICK a \in Nat : a = x.page
      BY <1>1
<1>3. PICK b \in Nat : b = x.ceiling - x.processed
      BY <1>1
<1>4. Taken(x) \subseteq a + 1 .. a + PageSize /\ Taken(x) \subseteq a + 1 .. a + b
      BY <1>1, <1>2, <1>3 DEF Taken, Page, Listed
<1>5. ASSUME NEW c \in Nat, Taken(x) \subseteq a + 1 .. a + c
      PROVE  IsFiniteSet(Taken(x)) /\ Cardinality(Taken(x)) <= c
      <2>1. a + 1 \in Int /\ a + c \in Int
            OBVIOUS
      <2>2. /\ IsFiniteSet(a + 1 .. a + c)
            /\ Cardinality(a + 1 .. a + c) = IF a + 1 > a + c THEN 0 ELSE a + c - (a + 1) + 1
            BY <2>1, FS_Interval
      <2>3. Cardinality(a + 1 .. a + c) = c
            BY <2>2
      <2>4. Cardinality(Taken(x)) <= Cardinality(a + 1 .. a + c) /\ IsFiniteSet(Taken(x))
            BY <1>5, <2>2, FS_Subset
      <2>.  QED BY <2>3, <2>4
<1>6. IsFiniteSet(Taken(x)) /\ Cardinality(Taken(x)) <= PageSize /\ Cardinality(Taken(x)) <= b
      BY <1>1, <1>4, <1>5
<1>7. /\ IsFiniteSet(Taken(x) \ SentOnly)
      /\ Cardinality(Taken(x) \ SentOnly) <= Cardinality(Taken(x))
      BY <1>6, FS_Subset
<1>.  QED BY <1>3, <1>6, <1>7, FS_CardinalityType

LEMMA ChargeDoes ==
    ASSUME meter \in Meters, NEW x \in Attempts, AmountOK(x), x.at = "commit", NEW token,
           NEW m, m = Charge(x, token)
    PROVE  /\ m.graceUsed = meter.graceUsed /\ m.used \in Int
           /\ meter.used <= m.used /\ m.used <= meter.used + ChunkLength
           /\ m.used = meter.used \/ m.used <= meter.used + Held(x)
<1>1. /\ x.start <= x.processed /\ x.processed - x.start <= ChunkLength
      /\ x.processed = x.start \/ x.processed - x.start <= Held(x)
      <2>1. /\ x.start \in Int /\ x.processed \in Int /\ x.ceiling \in Int /\ x.examined \in Int
            /\ ChunkLength \in Nat
            BY WorkersCount DEF Attempts
      <2>.  QED BY <2>1 DEF AmountOK, Held, Spending
<1>2. meter.used \in Int /\ x.start \in Int /\ x.processed \in Int /\ ChunkLength \in Nat
      BY WorkersCount DEF Meters, Attempts
<1>3. m.graceUsed = meter.graceUsed
      BY DEF Charge, Meters
<1>4. m.used = meter.used \/ m.used = meter.used + x.processed - x.start
      BY DEF Charge, Meters
<1>.  QED BY <1>1, <1>2, <1>3, <1>4, HeldTyped

-----------------------------------------------------------------------------
(* What each action does to the pool.                                      *)

Pooled == AmountsOK /\ PoolOK

LEMMA PoolStays ==
    ASSUME Pooled, UNCHANGED <<run, meter>>
    PROVE  Pooled'
<1>1. AmountsOK'
      BY DEF Pooled, AmountsOK, AmountOK, ChunkLength
<1>2. Holders' = Holders
      BY DEF Holders
<1>3. PICK n : n = Cardinality(Holders)
      OBVIOUS
<1>4. HoldersOK(n)' /\ GraceOK(n)'
      BY <1>2, <1>3 DEF Pooled, PoolOK, HoldersOK, GraceOK, Ceiling, Held, Spending, Room, ChunkLength
<1>.  QED BY <1>1, <1>2, <1>3, <1>4 DEF Pooled, PoolOK

\* The attempt stops, or is where nothing is held.
LEMMA PoolQuits ==
    ASSUME BackfillInv, Pooled, NEW r \in Workers, NEW y \in Attempts,
           run' = [run EXCEPT ![r] = y], y.at \notin Spending, y.at # "grace", AmountOK(y),
           meter' = meter
    PROVE  Pooled'
<1>1. /\ Held(y) = 0 /\ meter.used \in Int /\ ChunkLength \in Nat
      /\ Held(run[r]) \in Int
      BY WorkersCount, HeldTyped DEF Held, BackfillInv, Typed, Meters, RunTyped
<1>2. /\ meter'.graceUsed = meter.graceUsed /\ meter'.used \in Int
      /\ meter.used <= meter'.used /\ meter'.used <= meter.used + ChunkLength
      /\ meter'.used = meter.used
      BY <1>1
<1>3. PoolOK'
      BY <1>1, <1>2, PoolLeaves DEF Pooled
<1>.  QED BY <1>3, AmountsMove DEF Pooled, BackfillInv, Typed

LEMMA IdleAmount == AmountOK(Idle) /\ Idle.at \notin Spending /\ Idle.at # "grace"
BY DEF AmountOK, Idle, Spending

LEMMA BeginPool ==
    ASSUME BackfillInv, Pooled, NEW r \in Workers, NEW w \in Workspaces,
           NEW from \in {"slot", "extra"}, Begin(r, w, from)
    PROVE  Pooled'
<1>1. meter' = meter
      BY DEF Begin
<1>2. CASE run' = run
      BY <1>1, <1>2, PoolStays
<1>3. CASE run' # run
      <2>1. state[w].account \in Nat
            BY DEF BackfillInv, Typed, StateTyped, SyncRows
      <2>2. PICK y \in Attempts : y = [Idle EXCEPT !.at = "claim", !.ws = w, !.from = from,
                                                   !.account = state[w].account]
            BY <2>1, IdleTyped DEF Attempts, Steps
      <2>3. y.at = "claim" /\ y.examined = 0
            BY <2>2 DEF Idle
      <2>4. run' = [run EXCEPT ![r] = y]
            BY <1>3, <2>2 DEF Begin
      <2>5. AmountOK(y)
            BY <2>3 DEF AmountOK, Spending
      <2>.  QED BY <1>1, <2>3, <2>4, <2>5, PoolQuits DEF Spending
<1>.  QED BY <1>2, <1>3

LEMMA ClaimPool ==
    ASSUME BackfillInv, Pooled, NEW r \in Workers, Claim(r)
    PROVE  Pooled'
<1>1. meter' = meter
      BY DEF Claim
<1>2. PICK x \in Attempts : x = run[r] /\ x.at = "claim" /\ AmountOK(x)
      BY DEF BackfillInv, Typed, RunTyped, Claim, At, Pooled, AmountsOK
<1>3. CASE run' = [run EXCEPT ![r] = Idle]
      BY <1>1, <1>3, IdleTyped, IdleAmount, PoolQuits
<1>4. CASE Goto(r, "read")
      <2>1. PICK y \in Attempts : y = [x EXCEPT !.at = "read"]
            BY DEF Attempts, Steps
      <2>2. run' = [run EXCEPT ![r] = y]
            BY <1>2, <1>4, <2>1 DEF Goto
      <2>3. y.at = "read" /\ y.examined = x.examined
            BY <2>1 DEF Attempts
      <2>4. AmountOK(y)
            BY <1>2, <2>3 DEF AmountOK, Spending
      <2>.  QED BY <1>1, <2>2, <2>3, <2>4, PoolQuits DEF Spending
<1>.  QED BY <1>3, <1>4 DEF Claim, Leave

LEMMA ReadPool ==
    ASSUME BackfillInv, Pooled, NEW r \in Workers, ReadClaimed(r)
    PROVE  Pooled'
<1>1. meter' = meter
      BY DEF ReadClaimed
<1>2. PICK x \in Attempts : x = run[r]
      BY DEF BackfillInv, Typed, RunTyped
<1>3. x.at = "read" /\ AmountOK(x) /\ x.ws \in Workspaces
      BY <1>2 DEF BackfillInv, Typed, RunTyped, ReadClaimed, At, Pooled, AmountsOK
<1>4. PICK s \in SyncRows : s = state[x.ws]
      BY <1>3 DEF BackfillInv, Typed, StateTyped
<1>5. PICK found \in BOOLEAN : found <=> (s.status # "none" /\ s.account = x.account)
      OBVIOUS
<1>6. run \in [Workers -> Attempts]
      BY DEF BackfillInv, Typed, RunTyped
<1>7. PICK y \in Attempts :
          /\ run' = [run EXCEPT ![r] = y] /\ y.at = "budget" /\ y.examined = x.examined
          /\ y.start = (IF found THEN s.processed ELSE 0)
          /\ y.processed = (IF found THEN s.processed ELSE 0)
      BY <1>2, <1>4, <1>5, <1>6, ReadDoes
<1>8. AmountOK(y)
      BY <1>3, <1>7 DEF AmountOK, Spending
<1>.  QED BY <1>1, <1>7, <1>8, PoolQuits DEF Spending

\* A ceiling at the start: the attempt will import nothing.
LEMMA DeniedPool ==
    ASSUME BackfillInv, Pooled, NEW r \in Workers, NEW z \in Attempts,
           Held(run[r]) = 0, z.ceiling <= z.start, z.processed = z.start, z.examined = 0,
           run' = [run EXCEPT ![r] = Loop(z)], meter' = meter
    PROVE  Pooled'
<1>1. PICK y \in Attempts : y = Loop(z)
      BY LoopDoes
<1>2. /\ z.start \in Int /\ z.ceiling \in Int /\ z.processed \in Int /\ ChunkLength \in Nat
      /\ meter.used \in Int
      BY WorkersCount DEF Attempts, BackfillInv, Typed, Meters
<1>3. AmountOK(y) /\ Held(y) = z.ceiling - z.start /\ y.at # "grace"
      BY <1>1, <1>2, LoopAmount
<1>4. RunTyped /\ Held(y) <= 0 /\ Held(y) \in Int
      BY <1>2, <1>3 DEF BackfillInv, Typed
<1>5. Holders' = Holders
      <2>1. Holders' = IF Held(y) > 0 THEN Holders \cup {r} ELSE Holders \ {r}
            BY <1>1, <1>4, HoldersMove
      <2>.  QED BY <1>4, <2>1 DEF Holders
<1>6. run'[r] = y /\ \A d \in Workers \ {r} : run'[d] = run[d]
      BY <1>1, <1>4, HoldersMove
<1>7. PICK n : n = Cardinality(Holders)
      OBVIOUS
<1>8. \A d \in Holders : run'[d] = run[d]
      BY <1>6 DEF Holders
<1>9. HoldersOK(n)'
      BY <1>5, <1>7, <1>8 DEF Pooled, PoolOK, HoldersOK, Ceiling, Room, ChunkLength
<1>10. GraceOK(n)'
      BY <1>3, <1>6, <1>7 DEF Pooled, PoolOK, GraceOK, Room, ChunkLength
<1>11. AmountsOK'
      BY <1>1, <1>3, <1>4, AmountsMove DEF Pooled
<1>.  QED BY <1>5, <1>7, <1>9, <1>10, <1>11 DEF Pooled, PoolOK

LEMMA ResolvePool ==
    ASSUME BackfillInv, Pooled, NEW r \in Workers, ResolveBudget(r)
    PROVE  Pooled'
<1>1. PICK x \in Attempts : x = run[r]
      BY DEF BackfillInv, Typed, RunTyped
<1>2. x.at = "budget" /\ x.processed = x.start /\ x.examined = 0 /\ Held(x) = 0
      BY <1>1 DEF Pooled, AmountsOK, AmountOK, ResolveBudget, At, Held, Spending
<1>3. /\ meter.used \in Int /\ meter.graceUsed \in BOOLEAN /\ Cap \in Nat
      /\ x.start \in Int /\ ChunkLength \in Nat
      BY Bounds, WorkersCount DEF BackfillInv, Typed, Meters, Attempts
<1>4. PICK left \in Int : left = Left(r) /\ left = Ceiling - meter.used
      BY <1>3 DEF Left, Ceiling
<1>5. PICK n \in Nat : n = Cardinality(Holders)
      BY HoldersCount
<1>6. r \notin Holders /\ n < Cardinality(Workers) /\ Room(n) >= 0 /\ Room(n) \in Int
      <2>1. r \notin Holders
            BY <1>1, <1>2 DEF Holders
      <2>2. n < Cardinality(Workers)
            BY <1>5, <2>1, HoldersCount
      <2>.  QED BY <2>1, <2>2, RoomDoes
<1>7. CASE left > 0
      <2>1. PICK c \in Int : c = x.start + left
            BY <1>3
      <2>2. PICK z \in Attempts : z = [x EXCEPT !.ceiling = c, !.grace = meter.graceUsed]
            BY <1>3 DEF Attempts
      <2>3. run' = [run EXCEPT ![r] = Loop(z)]
            BY <1>1, <1>4, <1>7, <2>1, <2>2 DEF ResolveBudget
      <2>4. /\ z.start = x.start /\ z.processed = x.processed /\ z.examined = x.examined
            /\ z.ceiling = c
            BY <2>2 DEF Attempts
      <2>5. PICK y \in Attempts : y = Loop(z)
            BY LoopDoes
      <2>6. AmountOK(y) /\ Held(y) = left /\ y.at # "grace"
            BY <1>2, <1>3, <2>1, <2>4, <2>5, LoopAmount
      <2>7. meter'.used = meter.used /\ meter'.graceUsed = meter.graceUsed
            BY <1>1, <1>4, <1>7 DEF ResolveBudget, BackfillInv, Typed, Meters
      <2>8. meter.used + Held(y) <= Ceiling' + Room(Cardinality(Holders))
            BY <1>3, <1>4, <1>5, <1>6, <2>6, <2>7 DEF Ceiling
      <2>9. meter'.graceUsed \/ (~meter.graceUsed /\ meter.used < Cap)
            BY <1>3, <1>4, <1>7, <2>7 DEF Ceiling
      <2>10. PoolOK'
            BY <1>1, <1>2, <1>7, <2>3, <2>5, <2>6, <2>7, <2>8, <2>9, PoolEnters DEF Pooled
      <2>.  QED BY <2>3, <2>5, <2>6, <2>10, AmountsMove DEF Pooled, BackfillInv, Typed
<1>8. CASE ~(left > 0) /\ ~meter.graceUsed /\ x.ws \in meter.grants
      <2>1. PICK c \in Int : c = x.start + 2 * Cap - meter.used
            BY <1>3
      <2>2. PICK y \in Attempts : y = [x EXCEPT !.at = "grace", !.ceiling = c]
            BY DEF Attempts, Steps
      <2>3. run' = [run EXCEPT ![r] = y] /\ meter' = meter
            BY <1>1, <1>4, <1>8, <2>1, <2>2 DEF ResolveBudget
      <2>4. /\ y.start = x.start /\ y.processed = x.processed /\ y.examined = x.examined
            /\ y.ceiling = c /\ y.at = "grace"
            BY <2>2 DEF Attempts
      <2>5. AmountOK(y) /\ Held(y) = 0
            BY <1>2, <2>4 DEF AmountOK, Held, Spending
      <2>6. /\ run'[r] = y /\ \A d \in Workers \ {r} : run'[d] = run[d]
            BY <2>3, HoldersMove DEF BackfillInv, Typed
      <2>7. Holders' = Holders
            BY <1>1, <1>2, <2>5, <2>6 DEF Holders
      <2>8. \A d \in Holders : run'[d] = run[d]
            BY <1>6, <2>6 DEF Holders
      <2>9. HoldersOK(n)'
            BY <1>5, <2>3, <2>7, <2>8 DEF Pooled, PoolOK, HoldersOK, Ceiling, Room, ChunkLength
      <2>10. Cap <= meter.used /\ meter.used + y.ceiling - y.start <= 2 * Cap + Room(n)
            BY <1>3, <1>4, <1>6, <1>8, <2>1, <2>4 DEF Ceiling
      <2>11. GraceOK(n)'
            BY <1>5, <2>3, <2>6, <2>10 DEF Pooled, PoolOK, GraceOK, Room, ChunkLength
      <2>12. AmountsOK'
            BY <2>3, <2>5, AmountsMove DEF Pooled, BackfillInv, Typed
      <2>.  QED BY <1>5, <2>7, <2>9, <2>11, <2>12 DEF Pooled, PoolOK
<1>9. CASE ~(left > 0) /\ ~(~meter.graceUsed /\ x.ws \in meter.grants)
      <2>1. PICK z \in Attempts : z = [x EXCEPT !.ceiling = x.start, !.grace = meter.graceUsed,
                                                !.blocked = meter.graceUsed]
            BY <1>3 DEF Attempts
      <2>2. run' = [run EXCEPT ![r] = Loop(z)] /\ meter' = meter
            BY <1>1, <1>4, <1>9, <2>1 DEF ResolveBudget
      <2>3. /\ z.start = x.start /\ z.processed = x.processed /\ z.examined = x.examined
            /\ z.ceiling = x.start
            BY <2>1 DEF Attempts
      <2>4. /\ z.ceiling <= z.start /\ z.processed = z.start /\ z.examined = 0
            /\ Held(run[r]) = 0
            BY <1>1, <1>2, <1>3, <2>3
      <2>.  QED BY <2>2, <2>4, DeniedPool
<1>.  QED BY <1>7, <1>8, <1>9

LEMMA GracePool ==
    ASSUME BackfillInv, Pooled, NEW r \in Workers, ClaimGrace(r)
    PROVE  Pooled'
<1>1. PICK x \in Attempts : x = run[r]
      BY DEF BackfillInv, Typed, RunTyped
<1>2. x.at = "grace" /\ x.processed = x.start /\ x.examined = 0 /\ Held(x) = 0
      BY <1>1 DEF Pooled, AmountsOK, AmountOK, ClaimGrace, At, Held, Spending
<1>3. /\ meter.used \in Int /\ meter.graceUsed \in BOOLEAN /\ Cap \in Nat
      /\ x.start \in Int /\ x.ceiling \in Int /\ ChunkLength \in Nat
      BY Bounds, WorkersCount DEF BackfillInv, Typed, Meters, Attempts
<1>4. meter'.used = meter.used /\ meter'.graceUsed
      BY DEF ClaimGrace, BackfillInv, Typed, Meters
<1>5. CASE meter.graceUsed
      <2>1. PICK z \in Attempts : z = [x EXCEPT !.ceiling = x.start, !.blocked = TRUE]
            BY <1>3 DEF Attempts
      <2>2. run' = [run EXCEPT ![r] = Loop(z)] /\ meter' = meter
            BY <1>1, <1>5, <2>1 DEF ClaimGrace, BackfillInv, Typed, Meters
      <2>3. /\ z.start = x.start /\ z.processed = x.processed /\ z.examined = x.examined
            /\ z.ceiling = x.start
            BY <2>1 DEF Attempts
      <2>4. /\ z.ceiling <= z.start /\ z.processed = z.start /\ z.examined = 0
            /\ Held(run[r]) = 0
            BY <1>1, <1>2, <1>3, <2>3
      <2>.  QED BY <2>2, <2>4, DeniedPool
<1>6. CASE ~meter.graceUsed
      <2>1. PICK c \in Int : c = IF x.ceiling > x.start THEN x.ceiling ELSE x.start
            BY <1>3
      <2>2. PICK z \in Attempts : z = [x EXCEPT !.ceiling = c, !.grace = TRUE]
            BY DEF Attempts
      <2>3. run' = [run EXCEPT ![r] = Loop(z)]
            BY <1>1, <1>6, <2>1, <2>2 DEF ClaimGrace
      <2>4. /\ z.start = x.start /\ z.processed = x.processed /\ z.examined = x.examined
            /\ z.ceiling = c
            BY <2>2 DEF Attempts
      <2>5. PICK y \in Attempts : y = Loop(z)
            BY LoopDoes
      <2>6. AmountOK(y) /\ Held(y) = c - x.start /\ y.at # "grace"
            BY <1>2, <1>3, <2>1, <2>4, <2>5, LoopAmount
      <2>7. PICK n \in Nat : n = Cardinality(Holders)
            BY HoldersCount
      <2>8. Room(n) \in Int /\ Room(n - 1) \in Int
            BY RoomDoes
      <2>9. meter.used + x.ceiling - x.start <= 2 * Cap + Room(n)
            BY <1>1, <1>2, <1>6, <2>7 DEF Pooled, PoolOK, GraceOK
      <2>10. Ceiling = Cap /\ Ceiling' = 2 * Cap
            BY <1>4, <1>6 DEF Ceiling
      <2>11. AmountsOK'
            BY <2>3, <2>5, <2>6, AmountsMove DEF Pooled, BackfillInv, Typed
      <2>12. CASE x.ceiling > x.start
            <3>1. Held(y) > 0 /\ meter.used + Held(y) <= Ceiling' + Room(Cardinality(Holders))
                  BY <1>3, <2>1, <2>6, <2>7, <2>8, <2>9, <2>10, <2>12
            <3>2. PoolOK'
                  BY <1>1, <1>2, <1>4, <2>3, <2>5, <2>6, <3>1, PoolEnters DEF Pooled
            <3>.  QED BY <2>11, <3>2 DEF Pooled
      <2>13. CASE ~(x.ceiling > x.start)
            <3>1. Held(y) = 0
                  BY <1>3, <2>1, <2>6, <2>13
            <3>2. /\ run'[r] = y /\ \A d \in Workers \ {r} : run'[d] = run[d]
                  BY <2>3, <2>5, HoldersMove DEF BackfillInv, Typed
            <3>3. Holders' = Holders /\ r \notin Holders
                  BY <1>1, <1>2, <3>1, <3>2 DEF Holders
            <3>4. \A d \in Holders : run'[d] = run[d] /\ Held(run[d]) \in Int
                  BY <3>2, <3>3, HeldTyped DEF Holders, BackfillInv, Typed, RunTyped
            <3>5. HoldersOK(n)'
                  <4>1. CASE meter.used <= Ceiling + Room(n)
                        <5>1. meter'.used <= Ceiling' + Room(n)
                              BY <1>3, <1>4, <2>8, <2>10, <4>1
                        <5>.  QED BY <5>1 DEF HoldersOK, Room, ChunkLength
                  <4>2. CASE \E d \in Holders : meter.used + Held(run[d]) <= Ceiling + Room(n - 1)
                        <5>1. PICK d \in Holders : meter.used + Held(run[d]) <= Ceiling + Room(n - 1)
                              BY <4>2
                        <5>2. d \in Holders' /\ Held(run'[d]) = Held(run[d])
                              BY <3>3, <3>4
                        <5>3. meter'.used + Held(run'[d]) <= Ceiling' + Room(n - 1)
                              BY <1>3, <1>4, <2>8, <2>10, <3>4, <5>1, <5>2
                        <5>.  QED BY <5>2, <5>3 DEF HoldersOK, Room, ChunkLength
                  <4>.  QED BY <2>7, <4>1, <4>2 DEF Pooled, PoolOK, HoldersOK
            <3>6. GraceOK(n)'
                  BY <1>4 DEF GraceOK
            <3>.  QED BY <2>7, <2>11, <3>3, <3>5, <3>6 DEF Pooled, PoolOK
      <2>.  QED BY <2>12, <2>13
<1>.  QED BY <1>5, <1>6

LEMMA PagePool ==
    ASSUME BackfillInv, Pooled, NEW r \in Workers, ImportPage(r)
    PROVE  Pooled'
<1>1. PICK x \in Attempts : x = run[r]
      BY DEF BackfillInv, Typed, RunTyped
<1>2. x.at = "page" /\ AmountOK(x) /\ Held(x) = x.ceiling - x.start
      BY <1>1 DEF Pooled, AmountsOK, ImportPage, At, Held, Spending
<1>3. /\ x.processed \in Int /\ x.examined \in Int /\ x.start \in Int /\ x.ceiling \in Int
      /\ x.page \in Nat /\ PageSize \in Nat /\ Chunk \in Nat /\ ChunkLength = Chunk + PageSize - 1
      BY Bounds DEF Attempts, ChunkLength
<1>4. /\ x.start <= x.processed /\ x.processed - x.start <= x.examined /\ x.examined < Chunk
      /\ x.processed < x.ceiling
      BY <1>2 DEF AmountOK, Spending
<1>5. PICK t \in Nat : t = Cardinality(Taken(x)) /\ t <= PageSize /\ t <= x.ceiling - x.processed
      BY <1>4, TakenCount
<1>6. PICK i \in Nat : i = Cardinality(Taken(x) \ SentOnly) /\ i <= t
      BY <1>4, <1>5, TakenCount
<1>7. PICK z \in Attempts : z = [x EXCEPT !.processed = x.processed + i, !.examined = x.examined + t,
                     !.page = x.page + PageSize, !.exhausted = x.page + PageSize >= Mail]
      <2>1. PICK z : z = [x EXCEPT !.processed = x.processed + i, !.examined = x.examined + t,
                     !.page = x.page + PageSize, !.exhausted = x.page + PageSize >= Mail]
            OBVIOUS
      <2>2. /\ x.processed + i \in Int /\ x.examined + t \in Int /\ x.page + PageSize \in Nat
            /\ (x.page + PageSize >= Mail) \in BOOLEAN
            BY <1>3
      <2>3. z \in Attempts
            BY <2>1, <2>2 DEF Attempts
      <2>.  QED BY <2>1, <2>3
<1>8. /\ z.start = x.start /\ z.ceiling = x.ceiling
      /\ z.processed = x.processed + i /\ z.examined = x.examined + t
      BY <1>7 DEF Attempts
<1>9. run' = [run EXCEPT ![r] = Loop(z)]
      BY <1>1, <1>5, <1>6, <1>7, SMTT(30) DEF ImportPage
<1>10. PICK y \in Attempts : y = Loop(z)
      BY LoopDoes
<1>11. /\ z.start <= z.processed /\ z.processed - z.start <= z.examined
       /\ z.examined <= ChunkLength /\ z.processed <= z.ceiling
      BY <1>3, <1>4, <1>5, <1>6, <1>8
<1>12. AmountOK(y) /\ Held(y) = Held(x) /\ y.at # "grace"
      BY <1>2, <1>8, <1>10, <1>11, LoopAmount
<1>13. meter' = meter
      BY DEF ImportPage
<1>14. PoolOK'
      BY <1>1, <1>9, <1>10, <1>12, <1>13, PoolKeeps DEF Pooled
<1>.  QED BY <1>9, <1>10, <1>12, <1>14, AmountsMove DEF Pooled, BackfillInv, Typed

LEMMA LeavesPool ==
    ASSUME BackfillInv, Pooled, NEW r \in Workers,
           NoticeDisconnect(r) \/ ResetDisconnected(r) \/ AddContinuation(r) \/ Crash(r)
    PROVE  Pooled'
<1>1. meter' = meter
      BY DEF NoticeDisconnect, ResetDisconnected, AddContinuation, Crash
<1>2. CASE run' = [run EXCEPT ![r] = Idle]
      BY <1>1, <1>2, IdleTyped, IdleAmount, PoolQuits
<1>3. CASE Goto(r, "disconnected")
      <2>1. PICK x \in Attempts : x = run[r]
            BY DEF BackfillInv, Typed, RunTyped
      <2>2. PICK y \in Attempts : y = [x EXCEPT !.at = "disconnected"]
            BY DEF Attempts, Steps
      <2>3. run' = [run EXCEPT ![r] = y] /\ y.at = "disconnected"
            BY <1>3, <2>1, <2>2 DEF Goto, Attempts
      <2>.  QED BY <1>1, <2>3, PoolQuits DEF AmountOK, Spending
<1>.  QED BY <1>2, <1>3 DEF NoticeDisconnect, ResetDisconnected, AddContinuation, Crash, Leave

LEMMA RoutePool ==
    ASSUME BackfillInv, Pooled, NEW r \in Workers, RouteArmed(r)
    PROVE  Pooled'
<1>1. PICK x \in Attempts : x = run[r]
      BY DEF BackfillInv, Typed, RunTyped
<1>2. x.at = "route" /\ AmountOK(x)
      BY <1>1 DEF Pooled, AmountsOK, RouteArmed, At
<1>3. PICK y \in Attempts : y = [x EXCEPT !.at = "commit"]
      BY DEF Attempts, Steps
<1>4. /\ y.at = "commit" /\ y.start = x.start /\ y.processed = x.processed
      /\ y.ceiling = x.ceiling /\ y.examined = x.examined
      BY <1>3 DEF Attempts
<1>5. run' = [run EXCEPT ![r] = y] /\ meter' = meter
      BY <1>1, <1>3 DEF RouteArmed, Goto
<1>6. AmountOK(y) /\ Held(y) = Held(x)
      BY <1>2, <1>4 DEF AmountOK, Held, Spending
<1>7. PoolOK'
      BY <1>1, <1>4, <1>5, <1>6, PoolKeeps DEF Pooled
<1>.  QED BY <1>5, <1>6, <1>7, AmountsMove DEF Pooled, BackfillInv, Typed

LEMMA FailEnds ==
    ASSUME NEW r \in Workers, Fail(r)
    PROVE  /\ run' = [run EXCEPT ![r] = Idle]
           /\ \/ meter' = meter
              \/ run[r].at = "commit" /\ meter' = Charge(run[r], ChunkToken(run[r]))
<1>1. run' = [run EXCEPT ![r] = Idle]
      BY DEF Fail, Leave
<1>2. \/ meter' = meter
      \/ run[r].at = "commit" /\ meter' = Charge(run[r], ChunkToken(run[r]))
      BY DEF Fail, At
<1>.  QED BY <1>1, <1>2

\* Either nothing is charged, or what the attempt imported.
LEMMA CommitPool ==
    ASSUME BackfillInv, Pooled, NEW r \in Workers, Commit(r) \/ Fail(r)
    PROVE  Pooled'
<1>1. PICK x \in Attempts : x = run[r]
      BY DEF BackfillInv, Typed, RunTyped
<1>2. AmountOK(x) /\ Held(x) \in Int
      BY <1>1, HeldTyped DEF Pooled, AmountsOK
<1>3. /\ meter.used \in Int /\ ChunkLength \in Nat /\ meter \in Meters
      BY WorkersCount DEF BackfillInv, Typed, Meters
<1>4. PICK y \in Attempts : /\ run' = [run EXCEPT ![r] = y]
                            /\ y.at \notin Spending /\ y.at # "grace" /\ AmountOK(y)
      <2>1. CASE run' = [run EXCEPT ![r] = Idle]
            BY <2>1, IdleTyped, IdleAmount
      <2>2. CASE Goto(r, "add")
            <3>1. PICK y \in Attempts : y = [x EXCEPT !.at = "add"]
                  BY DEF Attempts, Steps
            <3>2. run' = [run EXCEPT ![r] = y] /\ y.at = "add"
                  BY <1>1, <2>2, <3>1 DEF Goto, Attempts
            <3>.  QED BY <3>2 DEF AmountOK, Spending
      <2>3. CASE Commit(r)
            BY <2>1, <2>2, <2>3 DEF Commit, Leave
      <2>4. CASE Fail(r)
            BY <2>1, <2>4, FailEnds
      <2>.  QED BY <2>3, <2>4
<1>5. \/ meter' = meter
      \/ x.at = "commit" /\ meter' = Charge(x, ChunkToken(x))
      <2>1. CASE Commit(r)
            BY <1>1, <2>1 DEF Commit, At
      <2>2. CASE Fail(r)
            BY <1>1, <2>2, FailEnds
      <2>.  QED BY <2>1, <2>2
<1>6. /\ meter'.graceUsed = meter.graceUsed /\ meter'.used \in Int
      /\ meter.used <= meter'.used /\ meter'.used <= meter.used + ChunkLength
      /\ meter'.used = meter.used \/ meter'.used <= meter.used + Held(x)
      <2>1. CASE meter' = meter
            BY <1>3, <2>1
      <2>2. CASE x.at = "commit" /\ meter' = Charge(x, ChunkToken(x))
            BY <1>2, <1>3, <2>2, ChargeDoes
      <2>.  QED BY <1>5, <2>1, <2>2
<1>7. PoolOK'
      BY <1>1, <1>4, <1>6, PoolLeaves DEF Pooled, Held
<1>.  QED BY <1>4, <1>7, AmountsMove DEF Pooled, BackfillInv, Typed

LEMMA InitPool == Init => Pooled
<1>.  SUFFICES ASSUME Init
               PROVE  Pooled
      OBVIOUS
<1>1. \A r \in Workers : run[r] = Idle
      BY DEF Init
<1>2. AmountsOK /\ Holders = {}
      BY <1>1, IdleAmount DEF AmountsOK, Holders, Held
<1>3. Cardinality(Holders) = 0
      BY <1>2, FS_EmptySet
<1>4. HoldersOK(0)
      <2>1. meter.used = 0 /\ ~meter.graceUsed /\ Cap \in Nat
            BY Bounds DEF Init
      <2>2. Room(0) \in Int /\ Room(0) >= 0
            BY RoomDoes, WorkersCount
      <2>.  QED BY <2>1, <2>2 DEF HoldersOK, Ceiling
<1>5. GraceOK(0)
      BY <1>1, IdleAmount DEF GraceOK
<1>.  QED BY <1>2, <1>3, <1>4, <1>5 DEF Pooled, PoolOK

LEMMA StepPool == BackfillInv /\ Pooled /\ [Next]_vars => Pooled'
<1>.  SUFFICES ASSUME BackfillInv, Pooled, [Next]_vars
               PROVE  Pooled'
      OBVIOUS
<1>1. ASSUME NEW r \in Workers, Work(r)
      PROVE  Pooled'
      BY <1>1, BeginPool, ClaimPool, ReadPool, ResolvePool, GracePool, PagePool, LeavesPool,
         RoutePool, CommitPool DEF Work
<1>2. ASSUME NEW r \in Workers, Fail(r) \/ Crash(r)
      PROVE  Pooled'
      BY <1>2, CommitPool, LeavesPool
<1>3. ASSUME NEW w \in Workspaces,
             \/ SyncTick(w) \/ SweepInbox(w) \/ EraseEmailAccountData(w)
             \/ ArmAutoRouteBacklog(w) \/ Age(w)
             \/ RouteUnrouted(w) \/ Disconnect(w) \/ Reconnect(w)
      PROVE  Pooled'
      <2>1. UNCHANGED <<run, meter>>
            BY <1>3 DEF SyncTick, SweepInbox, EraseEmailAccountData, ArmAutoRouteBacklog, Age,
               RouteUnrouted, Disconnect, Reconnect
      <2>.  QED BY <2>1, PoolStays
<1>4. CASE UNCHANGED vars
      <2>1. UNCHANGED <<run, meter>>
            BY <1>4 DEF vars
      <2>.  QED BY <2>1, PoolStays
<1>.  QED BY <1>1, <1>2, <1>3, <1>4 DEF Next

\* With a witness or without, the room of the attempts that hold budget is not negative.
LEMMA PooledBounded == BackfillInv /\ Pooled => PoolOvershootBounded
<1>.  SUFFICES ASSUME BackfillInv, Pooled
               PROVE  PoolOvershootBounded
      OBVIOUS
<1>1. PICK n \in Nat : n = Cardinality(Holders)
      BY HoldersCount
<1>2. meter.used \in Int /\ Ceiling \in Int /\ ChunkLength \in Nat
      BY Bounds, WorkersCount DEF BackfillInv, Typed, Meters, Ceiling
<1>3. /\ Room(0) \in Int /\ Room(n) \in Int /\ Room(n) <= Room(0)
      /\ Room(0) = (Cardinality(Workers) - 1) * ChunkLength
      <2>1. Cardinality(Workers) - 1 - 0 = Cardinality(Workers) - 1
            BY WorkersCount
      <2>2. Room(0) = (Cardinality(Workers) - 1) * ChunkLength
            BY <2>1 DEF Room
      <2>.  QED BY <2>2, RoomDoes
<1>4. CASE meter.used <= Ceiling + Room(n)
      BY <1>2, <1>3, <1>4 DEF PoolOvershootBounded
<1>5. CASE \E r \in Holders : meter.used + Held(run[r]) <= Ceiling + Room(n - 1)
      <2>1. PICK r \in Holders : meter.used + Held(run[r]) <= Ceiling + Room(n - 1)
            BY <1>5
      <2>2. Held(run[r]) \in Int /\ Held(run[r]) > 0
            BY HeldTyped DEF Holders, BackfillInv, Typed, RunTyped
      <2>3. n # 0
            BY <1>1, HoldersCount, FS_EmptySet
      <2>4. Room(n - 1) \in Int /\ Room(n - 1) <= Room(0)
            BY <2>3, RoomDoes
      <2>.  QED BY <1>2, <1>3, <2>1, <2>2, <2>4 DEF PoolOvershootBounded
<1>.  QED BY <1>1, <1>4, <1>5 DEF Pooled, PoolOK, HoldersOK

\* The budget a mailbox has for a month is overdrawn by at most one chunk for each worker
\* but one, however many workspaces import it, whoever fails, and whether or not the second
\* cap was lent: every attempt reads the meter in resolveBackfillBudget and charges it in
\* the transaction of its commit, without a lock in between.
THEOREM PoolAlwaysBounded == Spec => []PoolOvershootBounded
<1>1. Spec => []BackfillInv
      BY InitInv, StepInv, PTL DEF Spec
<1>2. Spec => []Pooled
      BY <1>1, InitPool, StepPool, PTL DEF Spec
<1>.  QED BY <1>1, <1>2, PooledBounded, PTL
==============================================================================
