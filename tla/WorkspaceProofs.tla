--------------------------- MODULE WorkspaceProofs ---------------------------
(* Proofs about what a workspace holds: the drafts and summaries that are    *)
(* written for it (Drafts, Summaries), the taxonomies that are proposed to   *)
(* it (TaxonomyGeneration), the tree of its folders (TaxonomyTree) and where *)
(* a thread is put in that tree (Placement), for every value of the          *)
(* constants.                                                                *)
EXTENDS Drafts, FiniteSetTheorems, SequenceTheorems, WellFoundedInduction, TLAPS

CONSTANTS MaxVersions, MaxClaims, Workspaces, Cap, MaxStalls, MaxMail, MaxJobs,
          Editors, Inbox, CatchAll, Folders, Fresh, MaxRaces, NoNode,
          Last, Sims, ThetaMin, TopK
VARIABLES version, summary, texts, eligible, proposal, post, task, failing, tokens, saved,
          role, edges, filed, ops, races,
          parent, sim, catchAll, automated, phase, here, result

Digests    == INSTANCE Summaries WITH row <- summary
Generation == INSTANCE TaxonomyGeneration WITH row <- proposal, job <- task
Tree       == INSTANCE TaxonomyTree
Placing    == INSTANCE Placement

-----------------------------------------------------------------------------
(* Sets of numbers.                                                          *)

LEMMA LeastNumber ==
    ASSUME NEW N, N \subseteq Nat, N # {}
    PROVE  \E n \in N : \A m \in N : n <= m
<1>1. \E n \in N : \A m \in N : ~(<<m, n>> \in OpToRel(<, Nat))
      BY NatLessThanWellFounded, WFMin
<1>2. PICK n \in N : \A m \in N : ~(<<m, n>> \in OpToRel(<, Nat))
      BY <1>1
<1>3. \A m \in N : m < n => <<m, n>> \in OpToRel(<, Nat)
      BY DEF OpToRel
<1>4. \A m \in N : ~(m < n)
      BY <1>2, <1>3
<1>5. n \in Nat /\ \A m \in N : m \in Nat
      BY <1>2
<1>6. \A m \in N : n <= m
      BY <1>4, <1>5
<1>.  QED BY <1>2, <1>6

LEMMA GreatestNumber ==
    ASSUME NEW n \in Nat, NEW N, N \subseteq 1 .. n, N # {}
    PROVE  \E d \in N : \A e \in N : e <= d
<1>.  DEFINE M == {n - e : e \in N}
<1>1. M \subseteq Nat /\ M # {}
      <2>1. \A e \in N : e \in Int /\ 1 <= e /\ e <= n
            OBVIOUS
      <2>2. \A e \in N : n - e \in Nat
            BY <2>1
      <2>.  QED BY <2>2
<1>2. PICK m \in M : \A k \in M : m <= k
      BY <1>1, LeastNumber
<1>3. PICK d \in N : m = n - d
      BY <1>2
<1>4. \A e \in N : e \in Int /\ d \in Int /\ n - d <= n - e
      BY <1>2, <1>3
<1>.  QED BY <1>3, <1>4

-----------------------------------------------------------------------------
(* Sets that one element enters or leaves.                                   *)

LEMMA OneMoves ==
    ASSUME NEW S, IsFiniteSet(S), NEW T, NEW x, S \ {x} = T \ {x}
    PROVE  /\ IsFiniteSet(T) /\ Cardinality(S) \in Nat /\ Cardinality(T) \in Nat
           /\ (x \in S <=> x \in T) => Cardinality(T) = Cardinality(S)
           /\ x \in S /\ x \notin T => Cardinality(T) = Cardinality(S) - 1
           /\ x \notin S /\ x \in T => Cardinality(T) = Cardinality(S) + 1
<1>1. Cardinality(S) \in Nat
      BY FS_CardinalityType
<1>2. CASE x \in S <=> x \in T
      <2>1. T = S
            BY <1>2
      <2>.  QED BY <1>1, <1>2, <2>1
<1>3. CASE x \in S /\ x \notin T
      <2>1. T = S \ {x}
            BY <1>3
      <2>2. IsFiniteSet(T) /\ Cardinality(T) = Cardinality(S) - 1
            BY <1>3, <2>1, FS_RemoveElement
      <2>.  QED BY <1>1, <1>3, <2>2, FS_CardinalityType
<1>4. CASE x \notin S /\ x \in T
      <2>1. T = S \cup {x}
            BY <1>4
      <2>2. IsFiniteSet(T) /\ Cardinality(T) = Cardinality(S) + 1
            BY <1>4, <2>1, FS_AddElement
      <2>.  QED BY <1>1, <1>4, <2>2, FS_CardinalityType
<1>.  QED BY <1>2, <1>3, <1>4

\* The requests between the given steps.
Between(steps) == {r \in Requests : req[r].at \in steps}

\* One request changes its step.
LEMMA RequestMoves ==
    ASSUME IsFiniteSet(Requests), NEW r \in Requests, NEW steps,
           \A q \in Requests \ {r} : req'[q] = req[q]
    PROVE  /\ Cardinality(Between(steps)) \in Nat /\ Cardinality(Between(steps)') \in Nat
           /\ (req[r].at \in steps <=> req'[r].at \in steps) =>
                 Cardinality(Between(steps)') = Cardinality(Between(steps))
           /\ req[r].at \in steps /\ req'[r].at \notin steps =>
                 Cardinality(Between(steps)') = Cardinality(Between(steps)) - 1
           /\ req[r].at \notin steps /\ req'[r].at \in steps =>
                 Cardinality(Between(steps)') = Cardinality(Between(steps)) + 1
<1>1. IsFiniteSet(Between(steps))
      BY FS_Subset DEF Between
<1>2. Between(steps) \ {r} = Between(steps)' \ {r}
      BY DEF Between
<1>3. /\ r \in Between(steps) <=> req[r].at \in steps
      /\ r \in Between(steps)' <=> req'[r].at \in steps
      BY DEF Between
<1>.  HIDE DEF Between
<1>.  QED BY <1>1, <1>2, <1>3, OneMoves

LEMMA BetweenAtMost ==
    ASSUME IsFiniteSet(Requests), NEW r \in Requests, NEW steps, req[r].at \notin steps
    PROVE  Cardinality(Between(steps)) + 1 <= Cardinality(Requests)
<1>1. Between(steps) \subseteq Requests \ {r}
      BY DEF Between
<1>2. /\ IsFiniteSet(Requests \ {r})
      /\ Cardinality(Requests \ {r}) = Cardinality(Requests) - 1
      BY FS_RemoveElement
<1>3. /\ IsFiniteSet(Between(steps))
      /\ Cardinality(Between(steps)) <= Cardinality(Requests \ {r})
      BY <1>1, <1>2, FS_Subset
<1>4. Cardinality(Between(steps)) \in Nat /\ Cardinality(Requests) \in Nat
      BY <1>3, FS_CardinalityType
<1>.  QED BY <1>2, <1>3, <1>4

-----------------------------------------------------------------------------
(* Draft replies.                                                            *)

ThreadIds == Threads \cup {NoReq.thread}
DraftRows == [thread : ThreadIds, status : {"GENERATING", "PROPOSED", "SENT", "FAILED"},
              stale : BOOLEAN]
DraftReqs == [at : {"idle", "claim", "generate", "charge", "supersede"}, thread : ThreadIds,
              force : BOOLEAN, stale : SUBSET Nat, row : Nat, old : Nat]
WithRow == {"generate", "charge", "supersede"}

\* A request knows rows that exist, and those it took for stale stay so.
RowsKnown ==
    \A r \in Requests :
        /\ req[r].at \in WithRow => req[r].row \in Rows
        /\ req[r].old \in 0 .. Len(draft)
        /\ \A d \in req[r].stale : d \in Rows /\ draft[d].stale

DraftsTyped ==
    /\ draft \in Seq(DraftRows) /\ req \in [Requests -> DraftReqs] /\ RowsKnown
    /\ toggle \in [row : Nat, to : {"PROPOSED", "SENT"}] /\ toggle.row \in 0 .. Len(draft)
    /\ used \in Nat /\ made \subseteq Rows /\ faults \in Nat
    /\ toggled \in BOOLEAN /\ overran \in BOOLEAN

\* One row changes.
RowChanges(d, row) ==
    /\ d \in Rows /\ draft' \in Seq(DraftRows) /\ Len(draft') = Len(draft)
    /\ draft'[d] = row
    /\ \A e \in Rows \ {d} : draft'[e] = draft[e]

LEMMA RowsAre ==
    ASSUME DraftsTyped
    PROVE  /\ Len(draft) \in Nat /\ IsFiniteSet(Rows)
           /\ \A d \in Rows : draft[d] \in DraftRows
<1>1. Len(draft) \in Nat
      BY LenProperties DEF DraftsTyped
<1>2. \A d \in Rows : draft[d] \in DraftRows
      BY ElementOfSeq DEF DraftsTyped, Rows
<1>.  QED BY <1>1, <1>2, FS_Interval DEF Rows

LEMMA RowBecomes ==
    ASSUME DraftsTyped, NEW d \in Rows, NEW row \in DraftRows,
           draft' = [draft EXCEPT ![d] = row]
    PROVE  RowChanges(d, row)
BY ExceptSeq DEF DraftsTyped, RowChanges, Rows

LEMMA StatusBecomes ==
    ASSUME DraftsTyped, NEW d \in Rows,
           NEW status \in {"GENERATING", "PROPOSED", "SENT", "FAILED"}, Becomes(d, status)
    PROVE  RowChanges(d, [draft[d] EXCEPT !.status = status])
<1>1. draft[d] \in DraftRows
      BY RowsAre
<1>2. [draft[d] EXCEPT !.status = status] \in DraftRows
      BY <1>1 DEF DraftRows
<1>3. draft' = [draft EXCEPT ![d] = [draft[d] EXCEPT !.status = status]]
      BY DEF Becomes
<1>.  QED BY <1>2, <1>3, RowBecomes

LEMMA RowTurnsStale ==
    ASSUME DraftsTyped, NEW d \in Rows, draft' = [draft EXCEPT ![d].stale = TRUE]
    PROVE  RowChanges(d, [draft[d] EXCEPT !.stale = TRUE])
<1>1. draft[d] \in DraftRows
      BY RowsAre
<1>2. [draft[d] EXCEPT !.stale = TRUE] \in DraftRows
      BY <1>1 DEF DraftRows
<1>.  QED BY <1>2, RowBecomes

\* A row is added.
RowAdded(row) ==
    /\ draft' \in Seq(DraftRows) /\ Len(draft') = Len(draft) + 1
    /\ draft'[Len(draft) + 1] = row
    /\ \A e \in Rows : draft'[e] = draft[e]

LEMMA RowAppended ==
    ASSUME DraftsTyped, NEW row \in DraftRows, draft' = Append(draft, row)
    PROVE  RowAdded(row)
BY AppendProperties DEF DraftsTyped, RowAdded, Rows

\* The newest row that exists for a request is one of them, and none exists when it is none.
LEMMA NewestIs ==
    ASSUME DraftsTyped, NEW t, NEW stale
    PROVE  /\ Newest(t, stale) \in 0 .. Len(draft)
           /\ Existing(t, stale) = {} <=> Newest(t, stale) = 0
           /\ Newest(t, stale) # 0 => Newest(t, stale) \in Existing(t, stale)
           /\ \A e \in Existing(t, stale) : e <= Newest(t, stale)
<1>1. Existing(t, stale) \subseteq Rows
      BY DEF Existing
<1>2. CASE Existing(t, stale) = {}
      BY <1>2, RowsAre DEF Newest
<1>3. CASE Existing(t, stale) # {}
      <2>1. \E d \in Existing(t, stale) : \A e \in Existing(t, stale) : e <= d
            BY <1>1, <1>3, RowsAre, GreatestNumber DEF Rows
      <2>2. /\ Newest(t, stale) \in Existing(t, stale)
            /\ \A e \in Existing(t, stale) : e <= Newest(t, stale)
            BY <1>3, <2>1 DEF Newest
      <2>.  QED BY <1>1, <1>3, <2>2, RowsAre DEF Rows
<1>.  QED BY <1>2, <1>3

\* Rows are never taken away, they keep their thread, and what is stale stays it.
RowsStay ==
    /\ Len(draft) <= Len(draft') /\ draft' \in Seq(DraftRows)
    /\ \A d \in Rows : /\ draft'[d].thread = draft[d].thread
                       /\ draft[d].stale => draft'[d].stale

LEMMA ChangeStays ==
    ASSUME DraftsTyped, NEW d, NEW row \in DraftRows, RowChanges(d, row),
           row.thread = draft[d].thread, draft[d].stale => row.stale
    PROVE  RowsStay
BY RowsAre DEF RowChanges, RowsStay

LEMMA AddedStays ==
    ASSUME DraftsTyped, NEW row, RowAdded(row)
    PROVE  RowsStay
BY RowsAre DEF RowAdded, RowsStay

LEMMA SameStays ==
    ASSUME DraftsTyped, draft' = draft
    PROVE  RowsStay
BY RowsAre DEF DraftsTyped, RowsStay

LEMMA StatusStays ==
    ASSUME DraftsTyped, NEW d \in Rows,
           NEW status \in {"GENERATING", "PROPOSED", "SENT", "FAILED"}, Becomes(d, status)
    PROVE  RowsStay
<1>1. RowChanges(d, [draft[d] EXCEPT !.status = status])
      BY StatusBecomes
<1>2. draft[d] \in DraftRows
      BY RowsAre
<1>3. PICK row \in DraftRows : row = [draft[d] EXCEPT !.status = status]
      BY <1>2 DEF DraftRows
<1>4. row.thread = draft[d].thread /\ row.stale = draft[d].stale
      BY <1>2, <1>3 DEF DraftRows
<1>.  QED BY <1>1, <1>3, <1>4, ChangeStays

\* The steps of one request, and those of none.
LEMMA RequestTyped ==
    ASSUME DraftsTyped, RowsStay, NEW r \in Requests, NEW new \in DraftReqs,
           req' = [req EXCEPT ![r] = new],
           new.at \in WithRow => new.row \in 1 .. Len(draft'), new.old \in 0 .. Len(draft'),
           \A d \in new.stale : d \in 1 .. Len(draft') /\ draft'[d].stale
    PROVE  req' \in [Requests -> DraftReqs] /\ RowsKnown'
<1>1. req \in [Requests -> DraftReqs] /\ Len(draft) \in Nat /\ Len(draft') \in Nat
      BY RowsAre, LenProperties DEF DraftsTyped, RowsStay
<1>2. req'[r] = new /\ \A q \in Requests \ {r} : req'[q] = req[q]
      BY <1>1
<1>3. \A q \in Requests \ {r} :
          /\ req[q].at \in WithRow => req[q].row \in 1 .. Len(draft')
          /\ req[q].old \in 0 .. Len(draft')
          /\ \A d \in req[q].stale : d \in 1 .. Len(draft') /\ draft'[d].stale
      BY <1>1 DEF DraftsTyped, RowsKnown, RowsStay, Rows
<1>4. RowsKnown'
      BY <1>2, <1>3 DEF RowsKnown, Rows
<1>.  QED BY <1>1, <1>4

LEMMA RequestsTyped ==
    ASSUME DraftsTyped, RowsStay, req' = req
    PROVE  req' \in [Requests -> DraftReqs] /\ RowsKnown'
<1>1. req \in [Requests -> DraftReqs] /\ Len(draft) \in Nat /\ Len(draft') \in Nat
      BY RowsAre, LenProperties DEF DraftsTyped, RowsStay
<1>2. \A q \in Requests :
          /\ req[q].at \in WithRow => req[q].row \in 1 .. Len(draft')
          /\ req[q].old \in 0 .. Len(draft')
          /\ \A d \in req[q].stale : d \in 1 .. Len(draft') /\ draft'[d].stale
      BY <1>1 DEF DraftsTyped, RowsKnown, RowsStay, Rows
<1>3. RowsKnown'
      BY <1>2 DEF RowsKnown, Rows
<1>.  QED BY <1>1, <1>3

LEMMA NoReqIs ==
    /\ NoReq \in DraftReqs /\ NoReq.at = "idle" /\ NoReq.row = 0 /\ NoReq.old = 0
    /\ NoReq.stale = {}
BY DEF NoReq, DraftReqs, ThreadIds

\* What only looks at the rest of the state.
LEMMA RestTyped ==
    ASSUME DraftsTyped, RowsStay, req' \in [Requests -> DraftReqs], RowsKnown',
           UNCHANGED toggle \/ toggle' = NoToggle,
           used' \in Nat, faults' \in Nat, made' \subseteq 1 .. Len(draft'),
           toggled' \in BOOLEAN, overran' \in BOOLEAN
    PROVE  DraftsTyped'
<1>1. Len(draft) \in Nat /\ Len(draft') \in Nat
      BY RowsAre, LenProperties DEF DraftsTyped, RowsStay
<1>2. /\ toggle' \in [row : Nat, to : {"PROPOSED", "SENT"}]
      /\ toggle'.row \in 0 .. Len(draft')
      BY <1>1 DEF DraftsTyped, RowsStay, NoToggle
<1>.  QED BY <1>2 DEF DraftsTyped, RowsStay, Rows

LEMMA RequestIs ==
    ASSUME DraftsTyped, NEW r \in Requests
    PROVE  /\ req[r] \in DraftReqs /\ req[r].thread \in ThreadIds /\ req[r].row \in Nat
           /\ req[r].at \in WithRow => req[r].row \in Rows
           /\ req[r].old \in 0 .. Len(draft)
           /\ \A d \in req[r].stale : d \in Rows /\ draft[d].stale
BY DEF DraftsTyped, DraftReqs, RowsKnown

\* A request that ends.
LEMMA EndsTyped ==
    ASSUME DraftsTyped, RowsStay, NEW r \in Requests, Ends(r)
    PROVE  /\ req' \in [Requests -> DraftReqs] /\ RowsKnown'
           /\ req'[r] = NoReq /\ \A q \in Requests \ {r} : req'[q] = req[q]
<1>1. Len(draft') \in Nat
      BY LenProperties DEF RowsStay
<1>2. req' = [req EXCEPT ![r] = NoReq] /\ req \in [Requests -> DraftReqs]
      BY DEF Ends, DraftsTyped
<1>3. /\ NoReq \in DraftReqs /\ NoReq.at \notin WithRow /\ NoReq.old \in 0 .. Len(draft')
      /\ NoReq.stale = {}
      BY <1>1, NoReqIs DEF WithRow
<1>4. req' \in [Requests -> DraftReqs] /\ RowsKnown'
      <2>1. PICK new \in DraftReqs : new = NoReq
            BY <1>3
      <2>2. /\ new.at \in WithRow => new.row \in 1 .. Len(draft')
            /\ new.old \in 0 .. Len(draft')
            /\ \A d \in new.stale : d \in 1 .. Len(draft') /\ draft'[d].stale
            BY <1>3, <2>1
      <2>.  QED BY <1>2, <2>1, <2>2, RequestTyped
<1>.  QED BY <1>2, <1>4

\* A request that goes on with what it knows.
LEMMA GoesTyped ==
    ASSUME DraftsTyped, RowsStay, NEW r \in Requests, req[r].at \in WithRow,
           NEW at \in WithRow, req' = [req EXCEPT ![r].at = at]
    PROVE  /\ req' \in [Requests -> DraftReqs] /\ RowsKnown'
           /\ req'[r] = [req[r] EXCEPT !.at = at]
           /\ \A q \in Requests \ {r} : req'[q] = req[q]
<1>1. req[r] \in DraftReqs /\ req \in [Requests -> DraftReqs]
      BY DEF DraftsTyped
<1>2. PICK new \in DraftReqs : new = [req[r] EXCEPT !.at = at]
      BY <1>1 DEF DraftReqs, WithRow
<1>3. req' = [req EXCEPT ![r] = new]
      BY <1>2
<1>4. /\ new.at = at /\ new.row = req[r].row /\ new.old = req[r].old
      /\ new.stale = req[r].stale
      BY <1>1, <1>2 DEF DraftReqs
<1>5. Len(draft) \in Nat /\ Len(draft') \in Nat /\ Len(draft) <= Len(draft')
      BY RowsAre, LenProperties DEF RowsStay
<1>6. /\ new.row \in 1 .. Len(draft') /\ new.old \in 0 .. Len(draft')
      /\ \A d \in new.stale : d \in 1 .. Len(draft') /\ draft'[d].stale
      BY <1>4, <1>5, RequestIs DEF Rows, RowsStay
<1>7. req' \in [Requests -> DraftReqs] /\ RowsKnown'
      <2>1. new.at \in WithRow => new.row \in 1 .. Len(draft')
            BY <1>6
      <2>.  QED BY <1>3, <1>6, <2>1, RequestTyped
<1>.  QED BY <1>1, <1>2, <1>3, <1>7

LEMMA AskTyped ==
    ASSUME DraftsTyped, NEW r \in Requests, NEW t \in Threads, NEW force \in BOOLEAN,
           Ask(r, t, force)
    PROVE  /\ DraftsTyped' /\ req'[r].at = "claim"
           /\ \A q \in Requests \ {r} : req'[q] = req[q]
<1>1. PICK stale \in SUBSET Rows : stale = {d \in Rows : draft[d].stale}
      OBVIOUS
<1>2. PICK new : new = [NoReq EXCEPT !.at = "claim", !.thread = t, !.force = force,
                                     !.stale = stale]
      OBVIOUS
<1>3. req' = [req EXCEPT ![r] = new]
      BY <1>1, <1>2 DEF Ask
<1>4. new = [at |-> "claim", thread |-> t, force |-> force, stale |-> stale, row |-> 0, old |-> 0]
      BY <1>2 DEF NoReq
<1>5. Rows \subseteq Nat /\ Len(draft) \in Nat
      BY RowsAre DEF Rows
<1>6. new \in DraftReqs
      BY <1>1, <1>4, <1>5 DEF DraftReqs, ThreadIds
<1>7. RowsStay /\ draft' = draft
      BY SameStays DEF Ask
<1>8. /\ new.at \notin WithRow /\ new.old \in 0 .. Len(draft')
      /\ \A d \in new.stale : d \in 1 .. Len(draft') /\ draft'[d].stale
      BY <1>1, <1>4, <1>5, <1>7 DEF WithRow, Rows
<1>9. req' \in [Requests -> DraftReqs] /\ RowsKnown'
      BY <1>3, <1>6, <1>7, <1>8, RequestTyped
<1>10. DraftsTyped'
      BY <1>7, <1>9, RestTyped DEF Ask, DraftsTyped, Rows
<1>.  QED BY <1>3, <1>4, <1>10 DEF DraftsTyped

\* A claim that goes through.
Claims(r) ==
    LET d == Newest(req[r].thread, req[r].stale)
        row == [thread |-> req[r].thread, status |-> "GENERATING", stale |-> FALSE]
    IN /\ ~Answered(d, req[r].force) /\ used < Limit
       /\ RowAdded(row)
       /\ req'[r].at = "generate" /\ req'[r].row = Len(draft) + 1 /\ req'[r].old = d
       /\ req'[r].thread = req[r].thread

LEMMA ClaimTyped ==
    ASSUME DraftsTyped, Limit \in Nat, NEW r \in Requests, Claim(r)
    PROVE  /\ DraftsTyped'
           /\ \A q \in Requests \ {r} : req'[q] = req[q]
           /\ \/ draft' = draft /\ req'[r] = NoReq
              \/ Claims(r)
<1>1. PICK d \in 0 .. Len(draft) : d = Newest(req[r].thread, req[r].stale)
      BY NewestIs
<1>2. Len(draft) \in Nat /\ used \in Nat
      BY RowsAre DEF DraftsTyped
<1>3. CASE Answered(d, req[r].force) \/ used >= Limit
      <2>1. draft' = draft /\ Ends(r) /\ RowsStay
            BY <1>1, <1>3, SameStays DEF Claim
      <2>2. DraftsTyped'
            BY <2>1, EndsTyped, RestTyped DEF Claim, DraftsTyped, Rows
      <2>.  QED BY <2>1, <2>2, EndsTyped
<1>4. CASE ~(Answered(d, req[r].force) \/ used >= Limit)
      <2>1. PICK row \in DraftRows : row = [thread |-> req[r].thread, status |-> "GENERATING",
                                            stale |-> FALSE]
            BY RequestIs DEF DraftRows
      <2>2. RowAdded(row) /\ RowsStay
            <3>1. draft' = Append(draft, row)
                  BY <1>1, <1>4, <2>1 DEF Claim
            <3>2. RowAdded(row)
                  BY <3>1, RowAppended
            <3>.  QED BY <3>2, AddedStays
      <2>3. PICK new \in DraftReqs : new = [req[r] EXCEPT !.at = "generate",
                                                !.row = Len(draft) + 1, !.old = d]
            <3>1. PICK new : new = [req[r] EXCEPT !.at = "generate", !.row = Len(draft) + 1,
                                                  !.old = d]
                  OBVIOUS
            <3>2. Len(draft) + 1 \in Nat /\ d \in Nat /\ req[r] \in DraftReqs
                  BY <1>2, RequestIs
            <3>3. new \in DraftReqs
                  BY <3>1, <3>2 DEF DraftReqs
            <3>.  QED BY <3>1, <3>3
      <2>4. req' = [req EXCEPT ![r] = new]
            BY <1>1, <1>4, <2>3 DEF Claim
      <2>5. /\ new.at = "generate" /\ new.row = Len(draft) + 1 /\ new.old = d
            /\ new.thread = req[r].thread /\ new.stale = req[r].stale
            BY <2>3, RequestIs DEF DraftReqs
      <2>6. /\ new.row \in 1 .. Len(draft') /\ new.old \in 0 .. Len(draft')
            /\ \A e \in new.stale : e \in 1 .. Len(draft') /\ draft'[e].stale
            BY <1>2, <2>2, <2>5, RequestIs DEF RowAdded, RowsStay, Rows
      <2>7. req' \in [Requests -> DraftReqs] /\ RowsKnown'
            BY <2>2, <2>4, <2>6, RequestTyped
      <2>8. DraftsTyped'
            <3>1. made' \subseteq 1 .. Len(draft')
                  BY <1>2, <2>2 DEF Claim, DraftsTyped, Rows, RowAdded
            <3>.  QED BY <2>2, <2>7, <3>1, RestTyped DEF Claim, DraftsTyped
      <2>9. Claims(r)
            BY <1>1, <1>2, <1>4, <2>1, <2>2, <2>4, <2>5 DEF Claims, DraftsTyped
      <2>.  QED BY <2>4, <2>8, <2>9 DEF DraftsTyped
<1>.  QED BY <1>3, <1>4

LEMMA ProposeTyped ==
    ASSUME DraftsTyped, NEW r \in Requests, Propose(r)
    PROVE  /\ DraftsTyped'
           /\ RowChanges(req[r].row, [draft[req[r].row] EXCEPT !.status = "PROPOSED"])
           /\ req'[r] = [req[r] EXCEPT !.at = "charge"]
           /\ \A q \in Requests \ {r} : req'[q] = req[q]
<1>1. req[r].at \in WithRow /\ "charge" \in WithRow /\ req[r].row \in Rows
      BY RequestIs DEF Propose, WithRow
<1>2. /\ RowChanges(req[r].row, [draft[req[r].row] EXCEPT !.status = "PROPOSED"])
      /\ RowsStay
      BY <1>1, StatusBecomes, StatusStays DEF Propose
<1>3. /\ req' \in [Requests -> DraftReqs] /\ RowsKnown'
      /\ req'[r] = [req[r] EXCEPT !.at = "charge"]
      /\ \A q \in Requests \ {r} : req'[q] = req[q]
      BY <1>1, <1>2, GoesTyped DEF Propose
<1>4. made' \subseteq 1 .. Len(draft')
      BY <1>1, <1>2 DEF Propose, DraftsTyped, Rows, RowChanges
<1>5. DraftsTyped'
      BY <1>2, <1>3, <1>4, RestTyped DEF Propose, DraftsTyped
<1>.  QED BY <1>2, <1>3, <1>5

LEMMA FailsTyped ==
    ASSUME DraftsTyped, NEW r \in Requests, GenerationFails(r)
    PROVE  /\ DraftsTyped'
           /\ RowChanges(req[r].row, [draft[req[r].row] EXCEPT !.status = "FAILED"])
           /\ req'[r] = NoReq /\ \A q \in Requests \ {r} : req'[q] = req[q]
           /\ faults' = faults + 1
<1>1. req[r].row \in Rows
      BY RequestIs DEF GenerationFails, WithRow
<1>2. /\ RowChanges(req[r].row, [draft[req[r].row] EXCEPT !.status = "FAILED"])
      /\ RowsStay
      BY <1>1, StatusBecomes, StatusStays DEF GenerationFails
<1>3. /\ req' \in [Requests -> DraftReqs] /\ RowsKnown'
      /\ req'[r] = NoReq /\ \A q \in Requests \ {r} : req'[q] = req[q]
      BY <1>2, EndsTyped DEF GenerationFails
<1>4. made' \subseteq 1 .. Len(draft') /\ faults' = faults + 1
      BY <1>2 DEF GenerationFails, DraftsTyped, Rows, RowChanges, Fault
<1>5. DraftsTyped'
      BY <1>2, <1>3, <1>4, RestTyped DEF GenerationFails, DraftsTyped
<1>.  QED BY <1>2, <1>3, <1>4, <1>5

LEMMA RecordTyped ==
    ASSUME DraftsTyped, NEW r \in Requests, RecordUsage(r)
    PROVE  /\ DraftsTyped' /\ draft' = draft
           /\ req'[r] = IF req[r].old = 0 THEN NoReq ELSE [req[r] EXCEPT !.at = "supersede"]
           /\ \A q \in Requests \ {r} : req'[q] = req[q]
<1>1. draft' = draft /\ RowsStay
      BY SameStays DEF RecordUsage
<1>2. /\ req' \in [Requests -> DraftReqs] /\ RowsKnown'
      /\ req'[r] = IF req[r].old = 0 THEN NoReq ELSE [req[r] EXCEPT !.at = "supersede"]
      /\ \A q \in Requests \ {r} : req'[q] = req[q]
      <2>1. CASE req[r].old = 0
            BY <1>1, <2>1, EndsTyped DEF RecordUsage
      <2>2. CASE req[r].old # 0
            <3>1. req[r].at \in WithRow /\ "supersede" \in WithRow
                  BY DEF RecordUsage, WithRow
            <3>2. req' = [req EXCEPT ![r].at = "supersede"]
                  BY <2>2 DEF RecordUsage
            <3>.  QED BY <1>1, <2>2, <3>1, <3>2, GoesTyped
      <2>.  QED BY <2>1, <2>2
<1>3. used' \in Nat /\ made' \subseteq 1 .. Len(draft')
      BY <1>1 DEF RecordUsage, DraftsTyped, Rows
<1>4. DraftsTyped'
      BY <1>1, <1>2, <1>3, RestTyped DEF RecordUsage, DraftsTyped
<1>.  QED BY <1>1, <1>2, <1>4

\* The row that is superseded was proposed, or nothing is.
Superseded(r) ==
    /\ req[r].old \in Rows /\ draft[req[r].old].status = "PROPOSED"
    /\ RowChanges(req[r].old, [draft[req[r].old] EXCEPT !.status = "FAILED"])

LEMMA SupersedeTyped ==
    ASSUME DraftsTyped, NEW r \in Requests, Supersede(r)
    PROVE  /\ DraftsTyped'
           /\ \/ draft' = draft /\ ~ (req[r].old \in Rows /\ draft[req[r].old].status = "PROPOSED")
              \/ Superseded(r)
           /\ req'[r] = NoReq /\ \A q \in Requests \ {r} : req'[q] = req[q]
<1>1. /\ \/ draft' = draft /\ ~ (req[r].old \in Rows /\ draft[req[r].old].status = "PROPOSED")
         \/ Superseded(r)
      /\ RowsStay
      <2>1. CASE StatusOf(req[r].old) = "PROPOSED"
            <3>1. req[r].old \in Rows /\ draft[req[r].old].status = "PROPOSED"
                  BY <2>1, RequestIs, RowsAre DEF StatusOf, Rows
            <3>2. Becomes(req[r].old, "FAILED")
                  BY <2>1 DEF Supersede
            <3>.  QED BY <3>1, <3>2, StatusBecomes, StatusStays DEF Superseded
      <2>2. CASE StatusOf(req[r].old) # "PROPOSED"
            BY <2>2, SameStays, RowsAre DEF Supersede, StatusOf, Rows
      <2>.  QED BY <2>1, <2>2
<1>2. /\ req' \in [Requests -> DraftReqs] /\ RowsKnown'
      /\ req'[r] = NoReq /\ \A q \in Requests \ {r} : req'[q] = req[q]
      BY <1>1, EndsTyped DEF Supersede
<1>3. made' \subseteq 1 .. Len(draft')
      <2>1. Len(draft) \in Nat /\ Len(draft') \in Nat /\ Len(draft) <= Len(draft')
            BY <1>1, RowsAre, LenProperties DEF RowsStay
      <2>.  QED BY <2>1 DEF Supersede, DraftsTyped, Rows
<1>4. DraftsTyped'
      BY <1>1, <1>2, <1>3, RestTyped DEF Supersede, DraftsTyped
<1>.  QED BY <1>1, <1>2, <1>4

LEMMA DiesTyped ==
    ASSUME DraftsTyped, NEW r \in Requests, Dies(r)
    PROVE  /\ DraftsTyped' /\ draft' = draft /\ faults' = faults + 1
           /\ req'[r] = NoReq /\ \A q \in Requests \ {r} : req'[q] = req[q]
<1>1. draft' = draft /\ RowsStay /\ faults' = faults + 1
      BY SameStays DEF Dies, Fault
<1>2. /\ req' \in [Requests -> DraftReqs] /\ RowsKnown'
      /\ req'[r] = NoReq /\ \A q \in Requests \ {r} : req'[q] = req[q]
      BY <1>1, EndsTyped DEF Dies
<1>3. DraftsTyped'
      BY <1>1, <1>2, RestTyped DEF Dies, DraftsTyped, Rows
<1>.  QED BY <1>1, <1>2, <1>3

\* What is no request's step: time and the user. Without a mark of the user, only the
\* freshness of a row changes.
LEMMA OthersTyped ==
    ASSUME DraftsTyped,
           \/ \E d \in Rows : GoesStale(d) \/ \E to \in {"PROPOSED", "SENT"} : ReadDraft(d, to)
           \/ MarkDraft
    PROVE  /\ DraftsTyped' /\ RowsStay /\ Len(draft') = Len(draft)
           /\ UNCHANGED <<req, used, made, faults>>
           /\ toggled => toggled'
           /\ overran => overran'
           /\ \A d \in Rows : draft'[d].status = "GENERATING" =>
                                  draft[d].status = "GENERATING"
           /\ \/ toggled'
              \/ draft' = draft
              \/ \E d \in Rows : /\ draft[d].status = "GENERATING"
                                 /\ RowChanges(d, [draft[d] EXCEPT !.stale = TRUE])
                                 /\ overran' \/ \A r \in Requests : req[r].row # d
<1>1. ASSUME NEW d \in Rows, GoesStale(d)
      PROVE  /\ DraftsTyped' /\ RowsStay
             /\ draft[d].status = "GENERATING" /\ RowChanges(d, [draft[d] EXCEPT !.stale = TRUE])
             /\ UNCHANGED <<req, used, made, faults, toggled>>
             /\ overran => overran'
             /\ overran' \/ \A r \in Requests : req[r].row # d
             /\ Len(draft') = Len(draft)
             /\ \A e \in Rows : draft'[e].status = draft[e].status
      <2>1. PICK row \in DraftRows : row = [draft[d] EXCEPT !.stale = TRUE]
            BY RowsAre DEF DraftRows
      <2>2. row.thread = draft[d].thread /\ row.stale /\ row.status = draft[d].status
            BY <2>1, RowsAre DEF DraftRows
      <2>3. RowChanges(d, row)
            BY <1>1, <2>1, RowTurnsStale DEF GoesStale
      <2>4. RowsStay
            BY <2>2, <2>3, ChangeStays
      <2>5. /\ Len(draft') = Len(draft)
            /\ \A e \in Rows : draft'[e].status = draft[e].status
            BY <2>2, <2>3 DEF RowChanges
      <2>6. draft[d].status = "GENERATING"
            BY <1>1, RowsAre DEF GoesStale, StatusOf, Rows
      <2>7. DraftsTyped'
            <3>1. req' \in [Requests -> DraftReqs] /\ RowsKnown'
                  BY <1>1, <2>4, RequestsTyped DEF GoesStale
            <3>2. overran' \in BOOLEAN
                  BY <1>1 DEF GoesStale, DraftsTyped
            <3>.  QED BY <1>1, <2>4, <2>5, <3>1, <3>2, RestTyped DEF GoesStale, DraftsTyped, Rows
      <2>.  QED BY <1>1, <2>1, <2>3, <2>4, <2>5, <2>6, <2>7 DEF GoesStale
<1>2. ASSUME NEW d \in Rows, NEW to \in {"PROPOSED", "SENT"}, ReadDraft(d, to)
      PROVE  DraftsTyped' /\ RowsStay
      <2>1. draft' = draft /\ RowsStay
            BY <1>2, SameStays DEF ReadDraft
      <2>2. req' \in [Requests -> DraftReqs] /\ RowsKnown'
            BY <1>2, <2>1, RequestsTyped DEF ReadDraft
      <2>3. toggle' \in [row : Nat, to : {"PROPOSED", "SENT"}] /\ toggle'.row \in 0 .. Len(draft')
            BY <1>2, <2>1, RowsAre DEF ReadDraft, Rows
      <2>.  QED BY <1>2, <2>1, <2>2, <2>3 DEF ReadDraft, DraftsTyped, Rows
<1>3. ASSUME MarkDraft
      PROVE  /\ DraftsTyped' /\ RowsStay /\ Len(draft') = Len(draft)
             /\ \A d \in Rows : draft'[d].status = "GENERATING" => draft[d].status = "GENERATING"
      <2>1. toggle.row \in Rows /\ toggle.to \in {"PROPOSED", "SENT"}
            BY <1>3, RowsAre DEF MarkDraft, DraftsTyped, Rows
      <2>2. /\ RowChanges(toggle.row, [draft[toggle.row] EXCEPT !.status = toggle.to])
            /\ RowsStay
            BY <1>3, <2>1, StatusBecomes, StatusStays DEF MarkDraft
      <2>3. draft[toggle.row] \in DraftRows
            BY <2>1, RowsAre
      <2>4. [draft[toggle.row] EXCEPT !.status = toggle.to].status = toggle.to
            BY <2>3 DEF DraftRows
      <2>5. /\ Len(draft') = Len(draft)
            /\ \A d \in Rows : draft'[d].status = "GENERATING" => draft[d].status = "GENERATING"
            BY <2>1, <2>2, <2>4 DEF RowChanges
      <2>6. req' \in [Requests -> DraftReqs] /\ RowsKnown'
            BY <1>3, <2>2, RequestsTyped DEF MarkDraft
      <2>7. DraftsTyped'
            BY <1>3, <2>2, <2>5, <2>6, RestTyped DEF MarkDraft, DraftsTyped, Rows
      <2>.  QED BY <2>2, <2>5, <2>7
<1>4. CASE \E d \in Rows : GoesStale(d)
      BY <1>1, <1>4
<1>5. CASE \E d \in Rows : \E to \in {"PROPOSED", "SENT"} : ReadDraft(d, to)
      <2>1. UNCHANGED <<draft, req, used, made, toggled, overran, faults>>
            BY <1>5 DEF ReadDraft
      <2>2. DraftsTyped' /\ RowsStay
            BY <1>2, <1>5
      <2>.  QED BY <2>1, <2>2
<1>6. CASE MarkDraft
      <2>1. UNCHANGED <<req, used, made, overran, faults>> /\ toggled'
            BY <1>6 DEF MarkDraft
      <2>.  QED BY <1>3, <1>6, <2>1
<1>.  QED BY <1>4, <1>5, <1>6

\* A row that is generated, and not taken for dead, is the newest of its thread.
NewestGenerates ==
    \A g, e \in Rows :
        draft[g].status = "GENERATING" /\ ~draft[g].stale /\ g < e =>
            draft[e].thread # draft[g].thread

LEMMA NoneBegins ==
    ASSUME DraftsTyped, NewestGenerates, RowsStay, Len(draft') = Len(draft),
           \A d \in Rows : draft'[d].status = "GENERATING" => draft[d].status = "GENERATING"
    PROVE  NewestGenerates'
BY DEF NewestGenerates, RowsStay, Rows

LEMMA ChangeBegins ==
    ASSUME DraftsTyped, NewestGenerates, NEW d \in Rows,
           NEW status \in {"PROPOSED", "SENT", "FAILED"},
           RowChanges(d, [draft[d] EXCEPT !.status = status])
    PROVE  /\ NewestGenerates'
           /\ draft'[d].status = status /\ draft'[d].stale = draft[d].stale
           /\ draft'[d].thread = draft[d].thread
<1>1. draft[d] \in DraftRows
      BY RowsAre
<1>2. PICK row \in DraftRows : row = [draft[d] EXCEPT !.status = status]
      BY <1>1 DEF DraftRows
<1>3. row.thread = draft[d].thread /\ row.stale = draft[d].stale /\ row.status = status
      BY <1>1, <1>2 DEF DraftRows
<1>4. RowsStay
      BY <1>2, <1>3, ChangeStays
<1>5. draft'[d] = row
      BY <1>2 DEF RowChanges
<1>6. /\ Len(draft') = Len(draft)
      /\ \A e \in Rows : draft'[e].status = "GENERATING" => draft[e].status = "GENERATING"
      BY <1>3, <1>5 DEF RowChanges
<1>.  QED BY <1>3, <1>4, <1>5, <1>6, NoneBegins

\* A claim that goes through finds nobody generating for its thread: a row that is
\* generated would be the newest, and the re-check under the lock would have answered it.
LEMMA ClaimFindsNone ==
    ASSUME DraftsTyped, NewestGenerates, NEW r \in Requests, Claims(r)
    PROVE  \A g \in Rows : draft[g].status = "GENERATING" /\ ~draft[g].stale =>
                               draft[g].thread # req[r].thread
<1>.  SUFFICES ASSUME NEW g \in Rows, draft[g].status = "GENERATING", ~draft[g].stale,
                      draft[g].thread = req[r].thread
               PROVE  FALSE
      OBVIOUS
<1>1. PICK d \in 0 .. Len(draft) : d = Newest(req[r].thread, req[r].stale)
      BY NewestIs
<1>2. g \in Existing(req[r].thread, req[r].stale)
      BY RequestIs DEF Existing
<1>3. /\ d \in Existing(req[r].thread, req[r].stale) /\ g <= d
      BY <1>1, <1>2, NewestIs
<1>4. d \in Rows /\ draft[d].thread = req[r].thread
      BY <1>3 DEF Existing
<1>5. ~(g < d)
      BY <1>4 DEF NewestGenerates
<1>6. d = g
      BY <1>3, <1>4, <1>5, RowsAre DEF Rows
<1>7. StatusOf(d) = "GENERATING"
      BY <1>4, <1>6, RowsAre DEF StatusOf, Rows
<1>.  QED BY <1>1, <1>7 DEF Claims, Answered

LEMMA ClaimBegins ==
    ASSUME DraftsTyped, NewestGenerates, NEW r \in Requests, Claims(r)
    PROVE  NewestGenerates'
<1>.  SUFFICES ASSUME NEW g \in Rows', NEW e \in Rows',
                      draft'[g].status = "GENERATING", ~draft'[g].stale, g < e
               PROVE  draft'[e].thread # draft'[g].thread
      BY DEF NewestGenerates
<1>1. Len(draft) \in Nat /\ Len(draft') = Len(draft) + 1
      BY RowsAre DEF Claims, RowAdded
<1>2. g \in Rows /\ draft'[g] = draft[g]
      BY <1>1 DEF Claims, RowAdded, Rows
<1>3. CASE e = Len(draft) + 1
      <2>1. draft'[e].thread = req[r].thread
            BY <1>3 DEF Claims, RowAdded
      <2>.  QED BY <1>2, <2>1, ClaimFindsNone
<1>4. CASE e \in Rows
      BY <1>2, <1>4 DEF NewestGenerates, Claims, RowAdded
<1>.  QED BY <1>1, <1>3, <1>4 DEF Rows

LEMMA RequestBegins ==
    ASSUME DraftsTyped, NewestGenerates, Limit \in Nat, NEW r \in Requests,
           \/ \E t \in Threads, force \in BOOLEAN : Ask(r, t, force)
           \/ Claim(r) \/ Propose(r) \/ GenerationFails(r) \/ RecordUsage(r) \/ Supersede(r)
           \/ Dies(r)
    PROVE  DraftsTyped' /\ NewestGenerates'
<1>1. CASE \E t \in Threads, force \in BOOLEAN : Ask(r, t, force)
      <2>1. DraftsTyped'
            BY <1>1, AskTyped
      <2>2. draft' = draft
            BY <1>1 DEF Ask
      <2>.  QED BY <2>1, <2>2 DEF NewestGenerates, Rows
<1>2. CASE Claim(r)
      <2>1. CASE draft' = draft
            BY <1>2, <2>1, ClaimTyped DEF NewestGenerates, Rows
      <2>.  QED BY <1>2, <2>1, ClaimTyped, ClaimBegins
<1>3. CASE Propose(r)
      <2>1. req[r].row \in Rows
            BY <1>3, RequestIs DEF Propose, WithRow
      <2>.  QED BY <1>3, <2>1, ProposeTyped, ChangeBegins
<1>4. CASE GenerationFails(r)
      <2>1. req[r].row \in Rows
            BY <1>4, RequestIs DEF GenerationFails, WithRow
      <2>.  QED BY <1>4, <2>1, FailsTyped, ChangeBegins
<1>5. CASE RecordUsage(r)
      BY <1>5, RecordTyped DEF NewestGenerates, Rows
<1>6. CASE Supersede(r)
      <2>1. CASE draft' = draft
            BY <1>6, <2>1, SupersedeTyped DEF NewestGenerates, Rows
      <2>2. CASE Superseded(r)
            <3>1. /\ req[r].old \in Rows
                  /\ RowChanges(req[r].old, [draft[req[r].old] EXCEPT !.status = "FAILED"])
                  BY <2>2 DEF Superseded
            <3>.  QED BY <1>6, <3>1, SupersedeTyped, ChangeBegins
      <2>.  QED BY <1>6, <2>1, <2>2, SupersedeTyped
<1>7. CASE Dies(r)
      BY <1>7, DiesTyped DEF NewestGenerates, Rows
<1>.  QED BY <1>1, <1>2, <1>3, <1>4, <1>5, <1>6, <1>7

LEMMA DraftsStep ==
    ASSUME DraftsTyped, NewestGenerates, Limit \in Nat, [Next]_vars
    PROVE  DraftsTyped' /\ NewestGenerates'
<1>1. CASE \E d \in Rows : GoesStale(d) \/ \E to \in {"PROPOSED", "SENT"} : ReadDraft(d, to)
      BY <1>1, OthersTyped, NoneBegins
<1>2. CASE MarkDraft
      BY <1>2, OthersTyped, NoneBegins
<1>3. CASE UNCHANGED vars
      BY <1>3 DEF vars, DraftsTyped, RowsKnown, NewestGenerates, Rows
<1>.  QED BY <1>1, <1>2, <1>3, RequestBegins DEF Next

LEMMA DraftsBegin == Init => DraftsTyped /\ NewestGenerates
<1>1. ASSUME Init
      PROVE  DraftsTyped /\ NewestGenerates
      <2>1. draft = <<>> /\ Len(draft) = 0 /\ draft \in Seq(DraftRows)
            BY <1>1, EmptySeq DEF Init
      <2>2. req = [r \in Requests |-> NoReq]
            BY <1>1 DEF Init
      <2>3. req \in [Requests -> DraftReqs] /\ RowsKnown
            BY <2>1, <2>2, NoReqIs DEF RowsKnown, WithRow
      <2>4. toggle = [row |-> 0, to |-> "SENT"]
            BY <1>1 DEF Init, NoToggle
      <2>5. Rows = {}
            BY <2>1 DEF Rows
      <2>6. /\ toggle \in [row : Nat, to : {"PROPOSED", "SENT"}]
            /\ toggle.row \in 0 .. Len(draft)
            BY <2>1, <2>4
      <2>7. DraftsTyped
            BY <1>1, <2>1, <2>3, <2>6 DEF Init, DraftsTyped
      <2>.  QED BY <2>5, <2>7 DEF NewestGenerates
<1>.  QED BY <1>1

\* Requests for one thread do not generate beside each other, unless one of them is taken
\* for dead (drafts.ts, the re-check under the lock), however many requests, threads and
\* rows there are.
THEOREM DraftsAlone ==
    ASSUME Limit \in Nat
    PROVE  Spec => [](DraftsTypeOK /\ OneGenerationPerThread)
<1>1. DraftsTyped /\ NewestGenerates => DraftsTypeOK
      <2>1. ASSUME DraftsTyped
            PROVE  DraftsTypeOK
            <3>1. \A d \in Rows : draft[d].status \in {"GENERATING", "PROPOSED", "SENT", "FAILED"}
                  BY <2>1, RowsAre DEF DraftRows
            <3>.  QED BY <2>1, <3>1 DEF DraftsTyped, DraftsTypeOK, RowsKnown, WithRow
      <2>.  QED BY <2>1
<1>2. DraftsTyped /\ NewestGenerates => OneGenerationPerThread
      <2>1. ASSUME DraftsTyped, NewestGenerates, NEW d \in Rows, NEW e \in Rows,
                   draft[d].status = "GENERATING", ~draft[d].stale,
                   draft[e].status = "GENERATING", ~draft[e].stale,
                   draft[d].thread = draft[e].thread
            PROVE  d = e
            <3>1. ~(d < e) /\ ~(e < d)
                  BY <2>1 DEF NewestGenerates
            <3>2. d \in Int /\ e \in Int
                  BY <2>1, RowsAre DEF Rows
            <3>.  QED BY <3>1, <3>2
      <2>.  QED BY <2>1 DEF OneGenerationPerThread
<1>.  QED BY <1>1, <1>2, DraftsBegin, DraftsStep, PTL DEF Spec

-----------------------------------------------------------------------------
(* The DRAFT meter.                                                          *)

\* Requests generate into rows of their own, which nobody proposed yet.
FreshRows ==
    \A r \in Requests : req[r].at = "generate" =>
        /\ req[r].row \notin made
        /\ \A q \in Requests \ {r} : req[q].at = "generate" => req[q].row # req[r].row

DraftsCounted ==
    LET charging == Cardinality(Between({"charge"}))
    IN /\ used + charging <= Cardinality(made)
       /\ Cardinality(made) <= used + faults + charging

DraftRoom == used + Cardinality(Between({"generate", "charge"})) <= Limit + Cardinality(Requests) - 1

DraftMeter == DraftsTyped /\ FreshRows /\ DraftsCounted /\ DraftRoom

LEMMA MadeFinite ==
    ASSUME DraftsTyped
    PROVE  IsFiniteSet(made) /\ Cardinality(made) \in Nat
<1>1. IsFiniteSet(made)
      BY RowsAre, FS_Subset DEF DraftsTyped
<1>.  QED BY <1>1, FS_CardinalityType

\* What a request's step does to the two counts of requests, before and after its step.
LEMMA MeterSteps ==
    ASSUME IsFiniteSet(Requests), Limit \in Nat, DraftMeter, DraftsTyped', NEW r \in Requests,
           \/ \E t \in Threads, force \in BOOLEAN : Ask(r, t, force)
           \/ Claim(r) \/ Propose(r) \/ GenerationFails(r) \/ RecordUsage(r) \/ Supersede(r)
           \/ Dies(r)
    PROVE  DraftsCounted' /\ DraftRoom'
<1>.  DEFINE charging == Cardinality(Between({"charge"}))
             pending  == Cardinality(Between({"generate", "charge"}))
<1>1. /\ used \in Nat /\ faults \in Nat /\ Cardinality(made) \in Nat
      /\ used + charging <= Cardinality(made)
      /\ Cardinality(made) <= used + faults + charging
      /\ used + pending <= Limit + Cardinality(Requests) - 1
      /\ Cardinality(Requests) \in Nat
      BY MadeFinite, FS_CardinalityType DEF DraftMeter, DraftsTyped, DraftsCounted, DraftRoom
<1>2. SUFFICES
         /\ used' + charging' <= Cardinality(made')
         /\ Cardinality(made') <= used' + faults' + charging'
         /\ used' + pending' <= Limit + Cardinality(Requests) - 1
      BY DEF DraftsCounted, DraftRoom
<1>3. ASSUME \A q \in Requests \ {r} : req'[q] = req[q]
      PROVE  /\ charging \in Nat /\ charging' \in Nat /\ pending \in Nat /\ pending' \in Nat
             /\ (req[r].at = "charge" <=> req'[r].at = "charge") => charging' = charging
             /\ req[r].at = "charge" /\ req'[r].at # "charge" => charging' = charging - 1
             /\ req[r].at # "charge" /\ req'[r].at = "charge" => charging' = charging + 1
             /\ (req[r].at \in {"generate", "charge"} <=> req'[r].at \in {"generate", "charge"}) =>
                   pending' = pending
             /\ req[r].at \in {"generate", "charge"} /\ req'[r].at \notin {"generate", "charge"} =>
                   pending' = pending - 1
             /\ req[r].at \notin {"generate", "charge"} /\ req'[r].at \in {"generate", "charge"} =>
                   pending' = pending + 1
      BY <1>3, RequestMoves
<1>.  HIDE DEF charging, pending
<1>4. CASE \E t \in Threads, force \in BOOLEAN : Ask(r, t, force)
      <2>1. UNCHANGED <<used, made, faults>> /\ req[r].at = "idle"
            BY <1>4 DEF Ask
      <2>2. req'[r].at = "claim" /\ \A q \in Requests \ {r} : req'[q] = req[q]
            BY <1>4, AskTyped DEF DraftMeter
      <2>.  QED BY <1>1, <1>3, <2>1, <2>2
<1>5. CASE Claim(r)
      <2>1. UNCHANGED <<used, made, faults>> /\ req[r].at = "claim"
            BY <1>5 DEF Claim
      <2>2. /\ \A q \in Requests \ {r} : req'[q] = req[q]
            /\ req'[r] = NoReq \/ Claims(r)
            BY <1>5, ClaimTyped DEF DraftMeter
      <2>3. CASE req'[r] = NoReq
            <3>1. req'[r].at = "idle"
                  BY <2>3, NoReqIs
            <3>.  QED BY <1>1, <1>3, <2>1, <2>2, <3>1
      <2>4. CASE Claims(r)
            <3>1. req'[r].at = "generate" /\ used < Limit
                  BY <2>4 DEF Claims
            <3>2. pending + 1 <= Cardinality(Requests)
                  BY <2>1, BetweenAtMost DEF pending
            <3>.  QED BY <1>1, <1>3, <2>1, <2>2, <3>1, <3>2
      <2>.  QED BY <2>2, <2>3, <2>4
<1>6. CASE Propose(r)
      <2>1. /\ req[r].at = "generate" /\ UNCHANGED <<used, faults>>
            /\ made' = made \cup {req[r].row}
            BY <1>6 DEF Propose
      <2>2. /\ req'[r] = [req[r] EXCEPT !.at = "charge"]
            /\ \A q \in Requests \ {r} : req'[q] = req[q]
            BY <1>6, ProposeTyped DEF DraftMeter
      <2>3. req'[r].at = "charge"
            BY <2>2, RequestIs DEF DraftMeter, DraftReqs
      <2>4. req[r].row \notin made
            BY <2>1 DEF DraftMeter, FreshRows
      <2>5. Cardinality(made') = Cardinality(made) + 1
            BY <2>1, <2>4, MadeFinite, FS_AddElement DEF DraftMeter
      <2>.  QED BY <1>1, <1>3, <2>1, <2>2, <2>3, <2>5
<1>7. CASE GenerationFails(r) \/ Dies(r) \/ Supersede(r)
      <2>1. /\ UNCHANGED <<used, made>> /\ faults' \in {faults, faults + 1}
            /\ req[r].at = "charge" => faults' = faults + 1
            BY <1>7 DEF GenerationFails, Dies, Supersede, Fault
      <2>2. req'[r] = NoReq /\ \A q \in Requests \ {r} : req'[q] = req[q]
            BY <1>7, FailsTyped, DiesTyped, SupersedeTyped DEF DraftMeter
      <2>3. req'[r].at = "idle"
            BY <2>2, NoReqIs
      <2>.  QED BY <1>1, <1>3, <2>1, <2>2, <2>3
<1>8. CASE RecordUsage(r)
      <2>1. req[r].at = "charge" /\ UNCHANGED <<made, faults>> /\ used' = used + 1
            BY <1>8 DEF RecordUsage
      <2>2. /\ req'[r] = IF req[r].old = 0 THEN NoReq ELSE [req[r] EXCEPT !.at = "supersede"]
            /\ \A q \in Requests \ {r} : req'[q] = req[q]
            BY <1>8, RecordTyped DEF DraftMeter
      <2>3. req'[r].at \in {"idle", "supersede"}
            BY <2>2, NoReqIs, RequestIs DEF DraftMeter, DraftReqs
      <2>.  QED BY <1>1, <1>3, <2>1, <2>2, <2>3
<1>.  QED BY <1>4, <1>5, <1>6, <1>7, <1>8

LEMMA FreshStep ==
    ASSUME DraftsTyped, FreshRows, Limit \in Nat, NEW r \in Requests,
           \/ \E t \in Threads, force \in BOOLEAN : Ask(r, t, force)
           \/ Claim(r) \/ Propose(r) \/ GenerationFails(r) \/ RecordUsage(r) \/ Supersede(r)
           \/ Dies(r)
    PROVE  FreshRows'
<1>1. CASE Claim(r)
      <2>1. \A q \in Requests \ {r} : req'[q] = req[q]
            BY <1>1, ClaimTyped
      <2>2. made' = made
            BY <1>1 DEF Claim
      <2>3. CASE req'[r] = NoReq
            <3>1. req'[r].at # "generate"
                  BY <2>3, NoReqIs
            <3>.  QED BY <2>1, <2>2, <3>1 DEF FreshRows
      <2>4. CASE Claims(r)
            <3>1. req'[r].row = Len(draft) + 1 /\ Len(draft) \in Nat
                  BY <2>4, RowsAre DEF Claims
            <3>2. \A q \in Requests : req[q].at = "generate" => req[q].row # Len(draft) + 1
                  BY <3>1, RequestIs DEF WithRow, Rows
            <3>3. Len(draft) + 1 \notin made
                  BY <3>1 DEF DraftsTyped, Rows
            <3>.  QED BY <2>1, <2>2, <3>1, <3>2, <3>3 DEF FreshRows
      <2>.  QED BY <1>1, <2>3, <2>4, ClaimTyped
<1>2. CASE Propose(r)
      <2>1. req[r].at = "generate" /\ made' = made \cup {req[r].row}
            BY <1>2 DEF Propose
      <2>2. /\ \A q \in Requests \ {r} : req'[q] = req[q]
            /\ req'[r] = [req[r] EXCEPT !.at = "charge"]
            BY <1>2, ProposeTyped
      <2>3. req'[r].at = "charge"
            BY <2>2, RequestIs DEF DraftReqs
      <2>4. \A q \in Requests \ {r} : req[q].at = "generate" =>
                req[q].row \notin made /\ req[q].row # req[r].row
            BY <2>1 DEF FreshRows
      <2>5. ASSUME NEW q \in Requests, req'[q].at = "generate"
            PROVE  q # r /\ req'[q].row \notin made'
            <3>1. q # r
                  BY <2>3, <2>5
            <3>2. req'[q] = req[q]
                  BY <2>2, <3>1
            <3>3. req[q].row \notin made /\ req[q].row # req[r].row
                  BY <2>4, <2>5, <3>1, <3>2
            <3>.  QED BY <2>1, <3>1, <3>2, <3>3
      <2>6. ASSUME NEW q \in Requests, NEW p \in Requests \ {q},
                   req'[q].at = "generate", req'[p].at = "generate"
            PROVE  req'[p].row # req'[q].row
            <3>1. req'[q] = req[q] /\ req'[p] = req[p]
                  BY <2>2, <2>3, <2>6
            <3>.  QED BY <2>6, <3>1 DEF FreshRows
      <2>.  QED BY <2>5, <2>6 DEF FreshRows
<1>3. CASE ~(Claim(r) \/ Propose(r))
      <2>1. made' = made
            BY <1>3 DEF Ask, GenerationFails, RecordUsage, Supersede, Dies
      <2>2. /\ \A q \in Requests \ {r} : req'[q] = req[q]
            /\ req'[r].at # "generate"
            <3>1. CASE \E t \in Threads, force \in BOOLEAN : Ask(r, t, force)
                  BY <3>1, AskTyped
            <3>2. CASE RecordUsage(r)
                  BY <3>2, RecordTyped, NoReqIs, RequestIs DEF DraftReqs
            <3>3. CASE GenerationFails(r) \/ Supersede(r) \/ Dies(r)
                  BY <3>3, FailsTyped, SupersedeTyped, DiesTyped, NoReqIs
            <3>.  QED BY <1>3, <3>1, <3>2, <3>3
      <2>.  QED BY <2>1, <2>2 DEF FreshRows
<1>.  QED BY <1>1, <1>2, <1>3

LEMMA DraftMeterStep ==
    ASSUME IsFiniteSet(Requests), Limit \in Nat, DraftMeter, DraftsTyped', [Next]_vars
    PROVE  DraftMeter'
<1>1. ASSUME UNCHANGED <<req, used, made, faults>>
      PROVE  DraftMeter'
      BY <1>1 DEF DraftMeter, FreshRows, DraftsCounted, DraftRoom, Between
<1>2. CASE \/ \E d \in Rows : GoesStale(d) \/ \E to \in {"PROPOSED", "SENT"} : ReadDraft(d, to)
           \/ MarkDraft \/ UNCHANGED vars
      <2>1. UNCHANGED <<req, used, made, faults>>
            BY <1>2 DEF GoesStale, ReadDraft, MarkDraft, vars
      <2>.  QED BY <1>1, <2>1
<1>3. ASSUME NEW r \in Requests,
             \/ \E t \in Threads, force \in BOOLEAN : Ask(r, t, force)
             \/ Claim(r) \/ Propose(r) \/ GenerationFails(r) \/ RecordUsage(r) \/ Supersede(r)
             \/ Dies(r)
      PROVE  DraftMeter'
      <2>1. FreshRows'
            BY <1>3, FreshStep DEF DraftMeter
      <2>2. DraftsCounted' /\ DraftRoom'
            BY <1>3, MeterSteps
      <2>.  QED BY <2>1, <2>2 DEF DraftMeter
<1>.  QED BY <1>2, <1>3 DEF Next

LEMMA NoneBetween ==
    ASSUME NEW steps, \A r \in Requests : req[r].at \notin steps
    PROVE  Cardinality(Between(steps)) = 0
<1>1. Between(steps) = {}
      BY DEF Between
<1>.  QED BY <1>1, FS_EmptySet

LEMMA DraftMeterBegins ==
    ASSUME IsFiniteSet(Requests), Requests # {}, Limit \in Nat, Init
    PROVE  DraftMeter
<1>1. \A r \in Requests : req[r].at = "idle"
      BY NoReqIs DEF Init
<1>2. /\ Cardinality(Between({"charge"})) = 0
      /\ Cardinality(Between({"generate", "charge"})) = 0
      BY <1>1, NoneBetween
<1>3. Cardinality(Requests) \in Nat /\ Cardinality(Requests) # 0
      BY FS_EmptySet, FS_CardinalityType
<1>4. used = 0 /\ faults = 0 /\ Cardinality(made) = 0
      BY FS_EmptySet DEF Init
<1>5. FreshRows
      BY <1>1 DEF FreshRows
<1>6. DraftsCounted /\ DraftRoom
      BY <1>2, <1>3, <1>4 DEF DraftsCounted, DraftRoom
<1>.  QED BY <1>5, <1>6, DraftsBegin DEF DraftMeter

\* The inbox is charged for the drafts that were generated: for none twice, and for all but
\* those whose request failed (drafts.ts, "a failed LLM call never burns allowance"); and
\* its monthly limit is passed by no more than the other requests under way.
THEOREM DraftsCharged ==
    ASSUME IsFiniteSet(Requests), Requests # {}, Limit \in Nat
    PROVE  Spec => [](ChargedForDrafts /\ DraftOvershootBounded)
<1>1. Init => DraftsTyped /\ NewestGenerates /\ DraftMeter
      BY DraftsBegin, DraftMeterBegins
<1>2. DraftsTyped /\ NewestGenerates /\ DraftMeter /\ [Next]_vars
         => (DraftsTyped /\ NewestGenerates /\ DraftMeter)'
      BY DraftsStep, DraftMeterStep
<1>3. DraftsTyped /\ NewestGenerates /\ DraftMeter => ChargedForDrafts /\ DraftOvershootBounded
      <2>1. ASSUME DraftMeter
            PROVE  ChargedForDrafts /\ DraftOvershootBounded
            <3>1. /\ used \in Nat /\ Cardinality(made) \in Nat
                  /\ Cardinality(Requests) \in Nat
                  BY <2>1, MadeFinite, FS_CardinalityType DEF DraftMeter, DraftsTyped
            <3>2. /\ IsFiniteSet(Between({"charge"}))
                  /\ IsFiniteSet(Between({"generate", "charge"}))
                  BY FS_Subset DEF Between
            <3>3. /\ Cardinality(Between({"charge"})) \in Nat
                  /\ Cardinality(Between({"generate", "charge"})) \in Nat
                  BY <3>2, FS_CardinalityType
            <3>4. Between({"charge"}) = {r \in Requests : req[r].at = "charge"}
                  BY DEF Between
            <3>5. ChargedForDrafts
                  <4>1. /\ used + Cardinality(Between({"charge"})) <= Cardinality(made)
                        /\ Cardinality(made) <= used + faults + Cardinality(Between({"charge"}))
                        BY <2>1 DEF DraftMeter, DraftsCounted
                  <4>2. used <= Cardinality(made)
                        BY <3>1, <3>3, <4>1
                  <4>.  QED BY <3>4, <4>1, <4>2 DEF ChargedForDrafts
            <3>6. DraftOvershootBounded
                  BY <2>1, <3>1, <3>3 DEF DraftMeter, DraftRoom, DraftOvershootBounded
            <3>.  QED BY <3>5, <3>6
      <2>.  QED BY <2>1
<1>.  QED BY <1>1, <1>2, <1>3, PTL DEF Spec

-----------------------------------------------------------------------------
(* One proposal is left.                                                     *)

Clean == ~toggled /\ ~overran /\ faults = 0

\* A request has replaced the row d, and will withdraw it.
Awaited(d) == \E r \in Requests : req[r].at \in {"charge", "supersede"} /\ req[r].old = d

\* In a clean history a request that generates owns a row of its thread, and every proposal
\* of the thread but the one it replaces is about to be withdrawn.
OwnsRow(r) ==
    /\ draft[req[r].row].status = "GENERATING" /\ ~draft[req[r].row].stale
    /\ draft[req[r].row].thread = req[r].thread
    /\ \A d \in Rows : /\ draft[d].status = "PROPOSED"
                       /\ draft[d].thread = req[r].thread
                       => d = req[r].old \/ Awaited(d)

\* So is every proposal but the newest of a thread.
OldAwaited ==
    \A d, e \in Rows :
        /\ draft[d].status = "PROPOSED" /\ draft[e].status = "PROPOSED"
        /\ draft[d].thread = draft[e].thread /\ d < e
        => Awaited(d)

Tidy == Clean => OldAwaited /\ \A r \in Requests : req[r].at = "generate" => OwnsRow(r)

TidyInv == DraftsTyped /\ NewestGenerates /\ FreshRows /\ Tidy

LEMMA CleanStays ==
    ASSUME DraftsTyped, [Next]_vars, Clean'
    PROVE  Clean /\ faults' = faults
<1>1. /\ faults \in Nat /\ toggled \in BOOLEAN /\ overran \in BOOLEAN
      /\ faults' = 0 /\ ~toggled' /\ ~overran'
      BY DEF DraftsTyped, Clean
<1>2. \/ faults' = faults \/ faults' = faults + 1
      BY DEF Next, Ask, Claim, Propose, GenerationFails, RecordUsage, Supersede, Dies, Fault,
             GoesStale, ReadDraft, MarkDraft, vars
<1>3. toggled' = toggled \/ toggled'
      BY DEF Next, Ask, Claim, Propose, GenerationFails, RecordUsage, Supersede, Dies,
             GoesStale, ReadDraft, MarkDraft, vars
<1>4. overran' = overran \/ \E d \in Rows : overran' = (overran \/ \E r \in Requests : req[r].row = d)
      BY DEF Next, Ask, Claim, Propose, GenerationFails, RecordUsage, Supersede, Dies,
             GoesStale, ReadDraft, MarkDraft, vars
<1>5. ~toggled
      BY <1>1, <1>3
<1>6. ~overran
      BY <1>1, <1>4
<1>7. faults = 0 /\ faults' = faults
      BY <1>1, <1>2
<1>.  QED BY <1>5, <1>6, <1>7 DEF Clean

\* Who waits to withdraw a row still does when the requests that do not take a step, or
\* take no last one, are the same.
LEMMA AwaitedStays ==
    ASSUME NEW r \in Requests, \A q \in Requests \ {r} : req'[q] = req[q],
           req[r].at \in {"charge", "supersede"} =>
               req'[r].at \in {"charge", "supersede"} /\ req'[r].old = req[r].old,
           NEW d, Awaited(d)
    PROVE  Awaited(d)'
BY DEF Awaited

LEMMA AskTidy ==
    ASSUME TidyInv, Clean, NEW r \in Requests, NEW t \in Threads, NEW force \in BOOLEAN,
           Ask(r, t, force)
    PROVE  Tidy'
<1>1. /\ draft' = draft /\ req[r].at = "idle" /\ req'[r].at = "claim"
      /\ \A q \in Requests \ {r} : req'[q] = req[q]
      BY AskTyped DEF Ask, TidyInv
<1>2. \A d \in Rows : Awaited(d) => Awaited(d)'
      BY <1>1, AwaitedStays
<1>3. OldAwaited'
      BY <1>1, <1>2 DEF OldAwaited, TidyInv, Tidy, Rows
<1>4. \A q \in Requests : req'[q].at = "generate" => OwnsRow(q)'
      BY <1>1, <1>2 DEF OwnsRow, TidyInv, Tidy, Rows
<1>.  QED BY <1>3, <1>4 DEF Tidy

LEMMA EndsTidy ==
    ASSUME TidyInv, Clean, NEW r \in Requests, req[r].at = "claim",
           draft' = draft, req'[r] = NoReq, \A q \in Requests \ {r} : req'[q] = req[q]
    PROVE  Tidy'
<1>1. req'[r].at = "idle"
      BY NoReqIs
<1>2. \A d \in Rows : Awaited(d) => Awaited(d)'
      BY AwaitedStays
<1>3. OldAwaited'
      BY <1>2 DEF OldAwaited, TidyInv, Tidy, Rows
<1>4. \A q \in Requests : req'[q].at = "generate" => OwnsRow(q)'
      BY <1>1, <1>2 DEF OwnsRow, TidyInv, Tidy, Rows
<1>.  QED BY <1>3, <1>4 DEF Tidy

LEMMA ClaimTidy ==
    ASSUME TidyInv, Clean, Limit \in Nat, NEW r \in Requests, Claim(r)
    PROVE  Tidy'
<1>1. CASE draft' = draft /\ req'[r] = NoReq
      <2>1. req[r].at = "claim" /\ \A q \in Requests \ {r} : req'[q] = req[q]
            BY ClaimTyped DEF TidyInv, Claim
      <2>.  QED BY <1>1, <2>1, EndsTidy
<1>2. CASE Claims(r)
      <2>1. req[r].at = "claim" /\ \A q \in Requests \ {r} : req'[q] = req[q]
            BY ClaimTyped DEF TidyInv, Claim
      <2>2. \A d \in Rows : Awaited(d) => Awaited(d)'
            BY <2>1, AwaitedStays
      <2>3. PICK n : n = Len(draft) + 1
            OBVIOUS
      <2>4. /\ Len(draft) \in Nat /\ Len(draft') = n /\ \A d \in Rows : draft'[d] = draft[d]
            /\ draft'[n] = [thread |-> req[r].thread, status |-> "GENERATING", stale |-> FALSE]
            BY <1>2, <2>3, RowsAre DEF Claims, RowAdded, TidyInv
      <2>5. \A d \in Rows' : draft'[d].status = "PROPOSED" => d \in Rows /\ draft[d] = draft'[d]
            BY <2>3, <2>4 DEF Rows
      <2>6. OldAwaited'
            BY <2>2, <2>5 DEF OldAwaited, TidyInv, Tidy
      <2>7. \A d \in Rows : draft[d].status = "PROPOSED" /\ draft[d].thread = req[r].thread =>
                                d = Newest(req[r].thread, req[r].stale) \/ Awaited(d)
            <3>.  SUFFICES ASSUME NEW d \in Rows, draft[d].status = "PROPOSED",
                                  draft[d].thread = req[r].thread
                           PROVE  d = Newest(req[r].thread, req[r].stale) \/ Awaited(d)
                  OBVIOUS
            <3>1. PICK e \in 0 .. Len(draft) : e = Newest(req[r].thread, req[r].stale)
                  BY NewestIs DEF TidyInv
            <3>2. d \in Existing(req[r].thread, req[r].stale)
                  BY DEF Existing
            <3>3. e \in Existing(req[r].thread, req[r].stale) /\ d <= e
                  BY <3>1, <3>2, NewestIs DEF TidyInv
            <3>4. StatusOf(e) # "GENERATING"
                  BY <1>2, <3>1 DEF Claims, Answered
            <3>5. e \in Rows /\ draft[e].status = "PROPOSED" /\ draft[e].thread = req[r].thread
                  BY <2>4, <3>3, <3>4 DEF Existing, StatusOf, Rows
            <3>6. d < e => Awaited(d)
                  BY <3>5 DEF TidyInv, Tidy, OldAwaited
            <3>7. d \in Int /\ e \in Int
                  BY <2>4, <3>5 DEF Rows
            <3>.  QED BY <3>1, <3>3, <3>6, <3>7
      <2>8. OwnsRow(r)'
            <3>1. /\ req'[r].row = n /\ req'[r].thread = req[r].thread
                  /\ req'[r].old = Newest(req[r].thread, req[r].stale)
                  BY <1>2, <2>3 DEF Claims
            <3>2. \A d \in Rows' : draft'[d].status = "PROPOSED" /\ draft'[d].thread = req[r].thread
                        => d = req'[r].old \/ Awaited(d)'
                  BY <2>2, <2>5, <2>7, <3>1
            <3>.  QED BY <2>4, <3>1, <3>2 DEF OwnsRow
      <2>9. \A q \in Requests \ {r} : req'[q].at = "generate" => OwnsRow(q)'
            <3>1. \A q \in Requests : req[q].at = "generate" => req[q].row \in Rows
                  BY RequestIs DEF TidyInv, WithRow
            <3>2. \A q \in Requests : req[q].at = "generate" => OwnsRow(q)
                  BY DEF TidyInv, Tidy
            <3>.  QED BY <2>1, <2>2, <2>4, <2>5, <3>1, <3>2 DEF OwnsRow
      <2>.  QED BY <2>6, <2>8, <2>9 DEF Tidy
<1>.  QED BY <1>1, <1>2, ClaimTyped DEF TidyInv

LEMMA ProposeTidy ==
    ASSUME TidyInv, Clean, NEW r \in Requests, Propose(r)
    PROVE  Tidy'
<1>1. PICK n \in Rows : n = req[r].row
      BY RequestIs DEF Propose, TidyInv, WithRow
<1>2. /\ req[r].at = "generate" /\ req'[r] = [req[r] EXCEPT !.at = "charge"]
      /\ \A q \in Requests \ {r} : req'[q] = req[q]
      BY ProposeTyped DEF Propose, TidyInv
<1>3. req'[r].at = "charge" /\ req'[r].old = req[r].old
      BY <1>2, RequestIs DEF TidyInv, DraftReqs
<1>4. /\ draft'[n].status = "PROPOSED" /\ draft'[n].thread = draft[n].thread
      /\ Len(draft') = Len(draft) /\ Rows' = Rows
      /\ \A d \in Rows \ {n} : draft'[d] = draft[d]
      <2>1. RowChanges(n, [draft[n] EXCEPT !.status = "PROPOSED"])
            BY <1>1, ProposeTyped DEF TidyInv
      <2>.  QED BY <2>1, ChangeBegins DEF TidyInv, RowChanges, Rows
<1>5. OwnsRow(r) /\ draft[n].thread = req[r].thread
      BY <1>1, <1>2 DEF TidyInv, Tidy, OwnsRow
<1>6. \A d \in Rows : Awaited(d) => Awaited(d)'
      BY <1>2, AwaitedStays
<1>7. \A d \in Rows : d = req[r].old => Awaited(d)'
      BY <1>3 DEF Awaited
<1>8. OldAwaited'
      <2>.  SUFFICES ASSUME NEW d \in Rows, NEW e \in Rows,
                            draft'[d].status = "PROPOSED", draft'[e].status = "PROPOSED",
                            draft'[d].thread = draft'[e].thread, d < e
                     PROVE  Awaited(d)'
            BY <1>4 DEF OldAwaited
      <2>1. CASE d = n
            <3>1. draft[n].status = "GENERATING" /\ ~draft[n].stale
                  BY <1>1, <1>5 DEF OwnsRow
            <3>2. draft[e].thread # draft[n].thread
                  BY <2>1, <3>1 DEF TidyInv, NewestGenerates
            <3>3. e # n
                  BY <2>1, RowsAre DEF TidyInv, Rows
            <3>4. draft'[e] = draft[e]
                  BY <1>4, <3>3
            <3>5. draft'[n].thread = draft'[e].thread
                  BY <2>1
            <3>6. draft[n].thread = draft[e].thread
                  BY <1>4, <3>4, <3>5
            <3>.  QED BY <3>2, <3>6
      <2>2. CASE d # n /\ e = n
            <3>1. draft[d].status = "PROPOSED" /\ draft[d].thread = req[r].thread
                  BY <1>4, <1>5, <2>2
            <3>2. d = req[r].old \/ Awaited(d)
                  BY <1>5, <3>1 DEF OwnsRow
            <3>.  QED BY <1>6, <1>7, <3>2
      <2>3. CASE d # n /\ e # n
            <3>1. Awaited(d)
                  BY <1>4, <2>3 DEF TidyInv, Tidy, OldAwaited
            <3>.  QED BY <1>6, <3>1
      <2>.  QED BY <2>1, <2>2, <2>3
<1>9. ASSUME NEW q \in Requests, req'[q].at = "generate"
      PROVE  OwnsRow(q)'
      <2>1. q # r /\ req'[q] = req[q] /\ req[q].at = "generate"
            BY <1>2, <1>3, <1>9
      <2>2. req[q].row \in Rows /\ OwnsRow(q)
            BY <2>1, RequestIs DEF TidyInv, Tidy, WithRow
      <2>3. req[q].row # n
            BY <1>1, <1>2, <2>1 DEF TidyInv, FreshRows
      <2>4. req[q].thread # req[r].thread
            <3>1. req[q].row \in Int /\ n \in Int
                  BY <2>2, RowsAre DEF TidyInv, Rows
            <3>2. req[q].row < n \/ n < req[q].row
                  BY <2>3, <3>1
            <3>.  QED BY <1>1, <1>5, <2>2, <3>2 DEF TidyInv, NewestGenerates, OwnsRow
      <2>5. \A d \in Rows : /\ draft'[d].status = "PROPOSED"
                            /\ draft'[d].thread = req[q].thread
                            => d = req[q].old \/ Awaited(d)'
            BY <1>4, <1>5, <1>6, <2>2, <2>4 DEF OwnsRow
      <2>.  QED BY <1>4, <2>1, <2>2, <2>3, <2>5 DEF OwnsRow
<1>.  QED BY <1>8, <1>9 DEF Tidy

\* A request that is done with its old row: no proposal waits for it any longer.
LEMMA WithdrawnTidy ==
    ASSUME TidyInv, Clean, NEW r \in Requests, req'[r].at # "generate",
           \A q \in Requests \ {r} : req'[q] = req[q],
           Rows' = Rows, req[r].at # "generate",
           \A d \in Rows : /\ draft[d].status # "PROPOSED" => draft'[d] = draft[d]
                           /\ draft'[d].status = "PROPOSED" => draft'[d] = draft[d],
           \A d \in Rows : draft'[d].status = "PROPOSED" /\ Awaited(d) => Awaited(d)'
    PROVE  Tidy'
<1>1. OldAwaited'
      BY DEF OldAwaited, TidyInv, Tidy
<1>2. ASSUME NEW q \in Requests, req'[q].at = "generate"
      PROVE  OwnsRow(q)'
      <2>1. q # r /\ req'[q] = req[q] /\ req[q].at = "generate"
            BY <1>2
      <2>2. req[q].row \in Rows /\ OwnsRow(q)
            BY <2>1, RequestIs DEF TidyInv, Tidy, WithRow
      <2>3. draft'[req[q].row] = draft[req[q].row]
            BY <2>2 DEF OwnsRow
      <2>.  QED BY <2>1, <2>2, <2>3 DEF OwnsRow
<1>.  QED BY <1>1, <1>2 DEF Tidy

LEMMA RecordTidy ==
    ASSUME TidyInv, Clean, NEW r \in Requests, RecordUsage(r)
    PROVE  Tidy'
<1>1. /\ draft' = draft /\ req[r].at = "charge"
      /\ req'[r] = IF req[r].old = 0 THEN NoReq ELSE [req[r] EXCEPT !.at = "supersede"]
      /\ \A q \in Requests \ {r} : req'[q] = req[q]
      BY RecordTyped DEF RecordUsage, TidyInv
<1>2. /\ req'[r].at \in {"idle", "supersede"}
      /\ req[r].old # 0 => req'[r].at = "supersede" /\ req'[r].old = req[r].old
      BY <1>1, NoReqIs, RequestIs DEF TidyInv, DraftReqs
<1>3. \A d \in Rows : Awaited(d) => Awaited(d)'
      <2>1. ASSUME NEW d \in Rows, NEW q \in Requests,
                   req[q].at \in {"charge", "supersede"}, req[q].old = d
            PROVE  req'[q].at \in {"charge", "supersede"} /\ req'[q].old = d
            <3>1. d # 0
                  BY RowsAre DEF TidyInv, Rows
            <3>.  QED BY <1>1, <1>2, <2>1, <3>1
      <2>.  QED BY <2>1 DEF Awaited
<1>4. Rows' = Rows
      BY <1>1 DEF Rows
<1>.  QED BY <1>1, <1>2, <1>3, <1>4, WithdrawnTidy

LEMMA SupersedeTidy ==
    ASSUME TidyInv, Clean, NEW r \in Requests, Supersede(r)
    PROVE  Tidy'
<1>1. /\ req[r].at = "supersede" /\ req'[r] = NoReq
      /\ \A q \in Requests \ {r} : req'[q] = req[q]
      BY SupersedeTyped DEF Supersede, TidyInv
<1>2. req'[r].at = "idle"
      BY <1>1, NoReqIs
<1>3. /\ Rows' = Rows
      /\ \A d \in Rows : /\ draft[d].status # "PROPOSED" => draft'[d] = draft[d]
                         /\ draft'[d].status = "PROPOSED" => draft'[d] = draft[d]
      /\ \A d \in Rows : draft'[d].status = "PROPOSED" => d # req[r].old
      <2>1. CASE /\ draft' = draft
                 /\ ~ (req[r].old \in Rows /\ draft[req[r].old].status = "PROPOSED")
            BY <2>1 DEF Rows
      <2>2. CASE Superseded(r)
            <3>1. draft'[req[r].old].status = "FAILED"
                  BY <2>2, ChangeBegins DEF TidyInv, Superseded
            <3>.  QED BY <2>2, <3>1 DEF Superseded, RowChanges, Rows
      <2>.  QED BY <2>1, <2>2, SupersedeTyped DEF TidyInv
<1>4. \A d \in Rows : draft'[d].status = "PROPOSED" /\ Awaited(d) => Awaited(d)'
      BY <1>1, <1>3 DEF Awaited
<1>.  QED BY <1>1, <1>2, <1>3, <1>4, WithdrawnTidy

LEMMA OthersTidy ==
    ASSUME TidyInv, Clean, ~toggled', ~overran',
           \/ \E d \in Rows : GoesStale(d) \/ \E to \in {"PROPOSED", "SENT"} : ReadDraft(d, to)
           \/ MarkDraft
    PROVE  Tidy'
<1>1. req' = req /\ Len(draft') = Len(draft) /\ Rows' = Rows
      BY OthersTyped DEF TidyInv, Rows
<1>2. \A d \in Rows : Awaited(d) <=> Awaited(d)'
      BY <1>1 DEF Awaited
<1>3. CASE draft' = draft
      BY <1>1, <1>2, <1>3 DEF TidyInv, Tidy, OldAwaited, OwnsRow
<1>4. CASE \E d \in Rows : /\ RowChanges(d, [draft[d] EXCEPT !.stale = TRUE])
                           /\ \A r \in Requests : req[r].row # d
      <2>1. PICK n \in Rows : /\ RowChanges(n, [draft[n] EXCEPT !.stale = TRUE])
                              /\ \A r \in Requests : req[r].row # n
            BY <1>4
      <2>2. draft'[n].status = draft[n].status /\ draft'[n].thread = draft[n].thread
            BY <2>1, RowsAre DEF RowChanges, TidyInv, DraftRows
      <2>3. \A d \in Rows : /\ draft'[d].status = draft[d].status
                            /\ draft'[d].thread = draft[d].thread
            BY <2>1, <2>2 DEF RowChanges
      <2>4. \A r \in Requests : req[r].at = "generate" =>
                                    req[r].row \in Rows /\ draft'[req[r].row] = draft[req[r].row]
            BY <2>1, RequestIs DEF RowChanges, TidyInv, WithRow
      <2>5. OldAwaited'
            BY <1>1, <1>2, <2>3 DEF TidyInv, Tidy, OldAwaited
      <2>6. \A r \in Requests : req'[r].at = "generate" => OwnsRow(r)'
            BY <1>1, <1>2, <2>3, <2>4 DEF TidyInv, Tidy, OwnsRow
      <2>.  QED BY <2>5, <2>6 DEF Tidy
<1>.  QED BY <1>3, <1>4, OthersTyped DEF TidyInv

LEMMA TidyStep ==
    ASSUME Limit \in Nat, TidyInv, [Next]_vars
    PROVE  TidyInv'
<1>1. DraftsTyped' /\ NewestGenerates'
      BY DraftsStep DEF TidyInv
<1>2. FreshRows'
      <2>1. CASE UNCHANGED <<req, made>>
            BY <2>1 DEF TidyInv, FreshRows
      <2>2. CASE \/ \E d \in Rows : GoesStale(d) \/ \E to \in {"PROPOSED", "SENT"} : ReadDraft(d, to)
                 \/ MarkDraft \/ UNCHANGED vars
            <3>1. UNCHANGED <<req, made>>
                  BY <2>2 DEF GoesStale, ReadDraft, MarkDraft, vars
            <3>.  QED BY <2>1, <3>1
      <2>.  QED BY <2>2, FreshStep DEF Next, TidyInv
<1>3. ASSUME Clean'
      PROVE  Tidy'
      <2>1. Clean /\ faults' = faults /\ ~toggled' /\ ~overran' /\ faults \in Nat
            BY <1>3, CleanStays DEF TidyInv, Clean, DraftsTyped
      <2>2. ASSUME NEW r \in Requests,
                   \/ \E t \in Threads, force \in BOOLEAN : Ask(r, t, force)
                   \/ Claim(r) \/ Propose(r) \/ GenerationFails(r) \/ RecordUsage(r)
                   \/ Supersede(r) \/ Dies(r)
            PROVE  Tidy'
            <3>1. ~GenerationFails(r) /\ ~Dies(r)
                  BY <2>1 DEF GenerationFails, Dies, Fault
            <3>.  QED BY <2>1, <2>2, <3>1, AskTidy, ClaimTidy, ProposeTidy, RecordTidy, SupersedeTidy
      <2>3. CASE UNCHANGED vars
            BY <2>1, <2>3 DEF vars, TidyInv, Tidy, OldAwaited, OwnsRow, Awaited, Rows
      <2>.  QED BY <2>1, <2>2, <2>3, OthersTidy DEF Next
<1>4. Tidy'
      BY <1>3 DEF Tidy
<1>.  QED BY <1>1, <1>2, <1>4 DEF TidyInv

\* However often a draft is generated again, by however many requests at once, one proposal
\* is left in the end, unless a user marked one, a step failed or a request outlived its
\* row (drafts.ts, supersededId).
THEOREM DraftsLeaveOne ==
    ASSUME Limit \in Nat
    PROVE  Spec => []OneProposalAtRest
<1>1. Init => TidyInv
      <2>1. ASSUME Init
            PROVE  TidyInv
            <3>1. /\ \A r \in Requests : req[r].at = "idle"
                  /\ Rows = {}
                  BY <2>1, NoReqIs, EmptySeq DEF Init, Rows
            <3>.  QED BY <2>1, <3>1, DraftsBegin DEF TidyInv, FreshRows, Tidy, OldAwaited
      <2>.  QED BY <2>1
<1>2. TidyInv /\ [Next]_vars => TidyInv'
      BY TidyStep
<1>3. TidyInv => OneProposalAtRest
      <2>1. ASSUME TidyInv, Clean, \A r \in Requests : req[r].at = "idle",
                   NEW d \in Rows, NEW e \in Rows,
                   draft[d].status = "PROPOSED", draft[e].status = "PROPOSED",
                   draft[d].thread = draft[e].thread
            PROVE  d = e
            <3>1. ~Awaited(d) /\ ~Awaited(e)
                  BY <2>1 DEF Awaited
            <3>2. ~(d < e) /\ ~(e < d)
                  BY <2>1, <3>1 DEF TidyInv, Tidy, OldAwaited
            <3>3. d \in Int /\ e \in Int
                  BY <2>1, RowsAre DEF TidyInv, Rows
            <3>.  QED BY <3>2, <3>3
      <2>.  QED BY <2>1 DEF OneProposalAtRest, Clean
<1>.  QED BY <1>1, <1>2, <1>3, PTL DEF Spec

-----------------------------------------------------------------------------
(* Summaries.                                                                *)

SummaryRows == [status : {"none", "GENERATING", "READY", "FAILED"}, signature : Nat,
                text : Nat, claims : Nat, stale : BOOLEAN]
SummaryReqs == [at : {"idle", "claim", "generate", "charge"},
                thread : Threads \cup {Digests!NoReq.thread}, force : BOOLEAN,
                signature : Nat, dead : Nat, claim : Nat]

\* A row is about messages the thread has had, and somebody has claimed what is generated.
RowSound(t) ==
    /\ summary[t].text <= version[t] /\ summary[t].signature <= version[t]
    /\ summary[t].stale => summary[t].status = "GENERATING"
    /\ summary[t].status = "GENERATING" => summary[t].claims # 0

\* A request knows a thread; the claim it takes for dead was stale, and is while it lasts.
RequestSound(r) ==
    req[r].at # "idle" =>
        LET t == req[r].thread IN
        /\ t \in Threads /\ req[r].signature <= version[t] /\ req[r].dead <= summary[t].claims
        /\ summary[t].status = "GENERATING" /\ req[r].dead = summary[t].claims => summary[t].stale

SummariesTyped ==
    /\ version \in [Threads -> Nat] /\ summary \in [Threads -> SummaryRows]
    /\ req \in [Requests -> SummaryReqs]
    /\ used \in Nat /\ texts \in Nat /\ faults \in Nat /\ overran \subseteq Threads
    /\ \A t \in Threads : RowSound(t)
    /\ \A r \in Requests : RequestSound(r)

\* Unless it outlived its claim, the request that generates for a thread holds the claim,
\* which is for its messages, and is the only one.
HoldsClaim(r) ==
    LET t == req[r].thread IN
    req[r].at = "generate" /\ t \notin overran =>
        /\ summary[t].status = "GENERATING" /\ ~summary[t].stale
        /\ summary[t].claims = req[r].claim /\ summary[t].signature = req[r].signature
        /\ \A q \in Requests \ {r} : req[q].at = "generate" => req[q].thread # t

Fits(t) == t \notin overran /\ summary[t].status = "READY" => summary[t].text = summary[t].signature

SummaryInv ==
    /\ SummariesTyped /\ \A r \in Requests : HoldsClaim(r)
    /\ \A t \in Threads : Fits(t)

LEMMA SummaryNoReq == Digests!NoReq \in SummaryReqs /\ Digests!NoReq.at = "idle"
BY DEF Digests!NoReq, SummaryReqs

LEMMA SummaryBegins == Digests!Init => SummaryInv
<1>.  SUFFICES ASSUME Digests!Init PROVE SummaryInv
      OBVIOUS
<1>1. \A r \in Requests : req[r] = Digests!NoReq /\ req[r].at = "idle"
      BY SummaryNoReq DEF Digests!Init
<1>2. \A t \in Threads : version[t] = 1 /\ summary[t] = Digests!NoRow
      BY DEF Digests!Init
<1>3. Digests!NoRow \in SummaryRows
      BY DEF Digests!NoRow, SummaryRows
<1>4. /\ version \in [Threads -> Nat] /\ summary \in [Threads -> SummaryRows]
      /\ req \in [Requests -> SummaryReqs]
      BY <1>3, SummaryNoReq DEF Digests!Init
<1>5. \A t \in Threads : RowSound(t) /\ Fits(t)
      BY <1>2 DEF RowSound, Fits, Digests!NoRow
<1>6. \A r \in Requests : RequestSound(r) /\ HoldsClaim(r)
      BY <1>1 DEF RequestSound, HoldsClaim
<1>.  QED BY <1>4, <1>5, <1>6 DEF SummaryInv, SummariesTyped, Digests!Init

\* One request changes, or none; rows and versions stay.
LEMMA RowsSame ==
    ASSUME SummaryInv, UNCHANGED <<version, summary, overran>>, NEW r \in Requests,
           NEW new \in SummaryReqs, req' = [req EXCEPT ![r] = new],
           new.at # "idle" => RequestSound(r)', new.at # "generate",
           used' \in Nat, texts' \in Nat, faults' \in Nat
    PROVE  SummaryInv'
<1>1. /\ req' \in [Requests -> SummaryReqs] /\ req'[r] = new
      /\ \A q \in Requests \ {r} : req'[q] = req[q]
      BY DEF SummaryInv, SummariesTyped
<1>2. \A t \in Threads : RowSound(t)' /\ Fits(t)'
      BY DEF SummaryInv, SummariesTyped, RowSound, Fits
<1>3. \A q \in Requests : RequestSound(q)'
      BY <1>1 DEF SummaryInv, SummariesTyped, RequestSound
<1>4. \A q \in Requests : HoldsClaim(q)'
      BY <1>1 DEF SummaryInv, HoldsClaim
<1>.  QED BY <1>1, <1>2, <1>3, <1>4 DEF SummaryInv, SummariesTyped

LEMMA SummaryVersion ==
    ASSUME SummaryInv, NEW t \in Threads, Digests!VersionChanges(t)
    PROVE  SummaryInv'
<1>1. /\ version \in [Threads -> Nat] /\ version' = [version EXCEPT ![t] = version[t] + 1]
      /\ UNCHANGED <<summary, req, used, texts, overran, faults>>
      BY DEF Digests!VersionChanges, SummaryInv, SummariesTyped
<1>2. /\ version' \in [Threads -> Nat]
      /\ \A s \in Threads : version[s] \in Nat /\ version[s] <= version'[s]
      BY <1>1
<1>3. \A s \in Threads : RowSound(s)' /\ Fits(s)'
      <2>1. \A s \in Threads : summary[s].text \in Nat /\ summary[s].signature \in Nat
            BY DEF SummaryInv, SummariesTyped, SummaryRows
      <2>.  QED BY <1>1, <1>2, <2>1 DEF SummaryInv, SummariesTyped, RowSound, Fits
<1>4. \A q \in Requests : RequestSound(q)' /\ HoldsClaim(q)'
      <2>1. \A q \in Requests : req[q].signature \in Nat
            BY DEF SummaryInv, SummariesTyped, SummaryReqs
      <2>.  QED BY <1>1, <1>2, <2>1 DEF SummaryInv, SummariesTyped, RequestSound, HoldsClaim
<1>.  QED BY <1>1, <1>2, <1>3, <1>4 DEF SummaryInv, SummariesTyped

LEMMA SummaryAsk ==
    ASSUME SummaryInv, NEW r \in Requests, NEW t \in Threads, NEW force \in BOOLEAN,
           Digests!Ask(r, t, force)
    PROVE  SummaryInv' /\ req'[r].at = "claim" /\ req[r].at = "idle"
           /\ \A q \in Requests \ {r} : req'[q] = req[q]
<1>1. /\ summary[t] \in SummaryRows /\ version[t] \in Nat /\ RowSound(t)
      BY DEF SummaryInv, SummariesTyped
<1>2. PICK dead : dead = IF summary[t].stale THEN summary[t].claims ELSE 0
      OBVIOUS
<1>3. /\ dead \in Nat /\ dead <= summary[t].claims
      /\ summary[t].status = "GENERATING" /\ dead = summary[t].claims => summary[t].stale
      BY <1>1, <1>2 DEF SummaryRows, RowSound
<1>4. PICK new : new = [Digests!NoReq EXCEPT !.at = "claim", !.thread = t, !.force = force,
                                            !.signature = version[t], !.dead = dead]
      OBVIOUS
<1>5. new = [at |-> "claim", thread |-> t, force |-> force, signature |-> version[t],
             dead |-> dead, claim |-> 0]
      BY <1>4 DEF Digests!NoReq
<1>6. new \in SummaryReqs
      BY <1>1, <1>3, <1>5 DEF SummaryReqs
<1>7. /\ req' = [req EXCEPT ![r] = new]
      /\ UNCHANGED <<version, summary, overran, used, texts, faults>>
      BY <1>2, <1>4 DEF Digests!Ask
<1>8. req'[r] = new /\ \A q \in Requests \ {r} : req'[q] = req[q]
      BY <1>7 DEF SummaryInv, SummariesTyped
<1>9. RequestSound(r)'
      BY <1>1, <1>3, <1>5, <1>7, <1>8 DEF RequestSound
<1>10. SummaryInv'
      BY <1>5, <1>6, <1>7, <1>9, RowsSame DEF SummaryInv, SummariesTyped
<1>.  QED BY <1>5, <1>8, <1>10 DEF Digests!Ask

\* A request that ends and leaves the rows alone.
LEMMA SummaryEnds ==
    ASSUME SummaryInv, UNCHANGED <<version, summary, overran>>, NEW r \in Requests,
           Digests!Ends(r), used' \in Nat, texts' \in Nat, faults' \in Nat
    PROVE  /\ SummaryInv' /\ req'[r].at = "idle"
           /\ \A q \in Requests \ {r} : req'[q] = req[q]
<1>1. PICK new \in SummaryReqs : new = Digests!NoReq /\ new.at = "idle"
      BY SummaryNoReq
<1>2. req' = [req EXCEPT ![r] = new]
      BY <1>1 DEF Digests!Ends
<1>3. req'[r] = new /\ \A q \in Requests \ {r} : req'[q] = req[q]
      BY <1>2 DEF SummaryInv, SummariesTyped
<1>.  QED BY <1>1, <1>2, <1>3, RowsSame

LEMMA SummaryRecord ==
    ASSUME SummaryInv, NEW r \in Requests, Digests!RecordUsage(r)
    PROVE  /\ SummaryInv' /\ req'[r].at = "idle"
           /\ \A q \in Requests \ {r} : req'[q] = req[q]
BY SummaryEnds DEF Digests!RecordUsage, SummaryInv, SummariesTyped

LEMMA SummaryDies ==
    ASSUME SummaryInv, NEW r \in Requests, Digests!Dies(r)
    PROVE  /\ SummaryInv' /\ req'[r].at = "idle" /\ faults' = faults + 1
           /\ \A q \in Requests \ {r} : req'[q] = req[q]
BY SummaryEnds DEF Digests!Dies, Digests!Fault, SummaryInv, SummariesTyped

\* The row of a thread changes, and a request of the thread.
LEMMA RowUpdate ==
    ASSUME SummaryInv, NEW t \in Threads, NEW new \in SummaryRows, NEW r \in Requests,
           NEW next \in SummaryReqs,
           summary' = [summary EXCEPT ![t] = new], req' = [req EXCEPT ![r] = next],
           UNCHANGED version
    PROVE  /\ summary' \in [Threads -> SummaryRows] /\ req' \in [Requests -> SummaryReqs]
           /\ summary'[t] = new /\ \A s \in Threads \ {t} : summary'[s] = summary[s]
           /\ req'[r] = next /\ \A q \in Requests \ {r} : req'[q] = req[q]
           /\ \A s \in Threads \ {t} : RowSound(s)'
BY DEF SummaryInv, SummariesTyped, RowSound

\* Nobody generates for a thread whose row can be claimed, unless it outlived its claim.
LEMMA NobodyGenerates ==
    ASSUME SummaryInv, NEW r \in Requests, req[r].at = "claim",
           ~Digests!IsGenerating(req[r].thread, req[r].dead)
    PROVE  \A q \in Requests : req[q].at = "generate" /\ req[q].thread = req[r].thread =>
                                   req[r].thread \in overran
<1>.  SUFFICES ASSUME NEW q \in Requests, req[q].at = "generate",
                      req[q].thread = req[r].thread, req[r].thread \notin overran
               PROVE  FALSE
      OBVIOUS
<1>1. /\ summary[req[r].thread].status = "GENERATING" /\ ~summary[req[r].thread].stale
      BY DEF SummaryInv, HoldsClaim
<1>2. summary[req[r].thread].claims # req[r].dead
      BY <1>1 DEF SummaryInv, SummariesTyped, RequestSound
<1>.  QED BY <1>1, <1>2 DEF Digests!IsGenerating

LEMMA SummaryClaim ==
    ASSUME Limit \in Nat, SummaryInv, NEW r \in Requests, Digests!Claim(r)
    PROVE  /\ SummaryInv'
           /\ req'[r].at # "idle" => req'[r].at = "generate" /\ used < Limit
           /\ \A q \in Requests \ {r} : req'[q] = req[q]
<1>1. PICK t \in Threads : t = req[r].thread
      BY DEF Digests!Claim, SummaryInv, SummariesTyped, RequestSound
<1>2. /\ req[r].at = "claim" /\ req[r] \in SummaryReqs /\ summary[t] \in SummaryRows
      /\ version[t] \in Nat /\ used \in Nat /\ RowSound(t) /\ RequestSound(r)
      BY DEF Digests!Claim, SummaryInv, SummariesTyped
<1>3. CASE \/ ~req[r].force /\ Digests!IsHit(t, req[r].signature)
           \/ Digests!IsGenerating(t, req[r].dead)
           \/ used >= Limit
      <2>1. Digests!Ends(r) /\ UNCHANGED <<version, summary, overran, used, texts, faults>>
            BY <1>1, <1>3 DEF Digests!Claim
      <2>.  QED BY <2>1, SummaryEnds DEF SummaryInv, SummariesTyped
<1>4. CASE ~(\/ ~req[r].force /\ Digests!IsHit(t, req[r].signature)
             \/ Digests!IsGenerating(t, req[r].dead)
             \/ used >= Limit)
      <2>1. PICK new : new = [summary[t] EXCEPT !.status = "GENERATING", !.stale = FALSE,
                                !.signature = req[r].signature, !.claims = summary[t].claims + 1]
            OBVIOUS
      <2>0. PICK claims \in Nat \ {0} : claims = summary[t].claims + 1
            BY <1>2 DEF SummaryRows
      <2>2. /\ new \in SummaryRows /\ new.status = "GENERATING" /\ ~new.stale
            /\ new.signature = req[r].signature /\ new.claims = claims
            /\ new.text = summary[t].text
            <3>1. new = [summary[t] EXCEPT !.status = "GENERATING", !.stale = FALSE,
                                           !.signature = req[r].signature, !.claims = claims]
                  BY <2>0, <2>1
            <3>2. req[r].signature \in Nat
                  BY <1>2 DEF SummaryReqs
            <3>.  QED BY <1>2, <3>1, <3>2 DEF SummaryRows
      <2>3. PICK next : next = [req[r] EXCEPT !.at = "generate",
                                              !.claim = summary[t].claims + 1]
            OBVIOUS
      <2>4. /\ next \in SummaryReqs /\ next.at = "generate" /\ next.thread = t
            /\ next.claim = claims /\ next.signature = req[r].signature
            /\ next.dead = req[r].dead
            <3>1. next = [req[r] EXCEPT !.at = "generate", !.claim = claims]
                  BY <2>0, <2>3
            <3>.  QED BY <1>1, <1>2, <3>1 DEF SummaryReqs
      <2>5. /\ summary' = [summary EXCEPT ![t] = new] /\ req' = [req EXCEPT ![r] = next]
            /\ UNCHANGED <<version, used, texts, overran, faults>>
            BY <1>1, <1>4, <2>1, <2>3 DEF Digests!Claim
      <2>6. /\ summary' \in [Threads -> SummaryRows] /\ req' \in [Requests -> SummaryReqs]
            /\ summary'[t] = new /\ \A s \in Threads \ {t} : summary'[s] = summary[s]
            /\ req'[r] = next /\ \A q \in Requests \ {r} : req'[q] = req[q]
            /\ \A s \in Threads \ {t} : RowSound(s)'
            BY <2>2, <2>4, <2>5, RowUpdate
      <2>7. RowSound(t)' /\ Fits(t)'
            BY <1>1, <1>2, <2>2, <2>5, <2>6 DEF RowSound, RequestSound, Fits
      <2>8. \A s \in Threads \ {t} : Fits(s)'
            BY <2>5, <2>6 DEF SummaryInv, Fits
      <2>9. summary[t].claims \in Nat /\ req[r].dead <= summary[t].claims /\ req[r].dead \in Nat
            BY <1>1, <1>2 DEF SummaryRows, RequestSound, SummaryReqs
      <2>10. RequestSound(r)'
            BY <1>1, <1>2, <2>0, <2>2, <2>4, <2>5, <2>6, <2>9 DEF RequestSound
      <2>11. \A q \in Requests \ {r} : RequestSound(q)'
            <3>1. \A q \in Requests \ {r} : RequestSound(q) /\ req[q].dead \in Nat
                  BY DEF SummaryInv, SummariesTyped, SummaryReqs
            <3>.  QED BY <2>0, <2>2, <2>5, <2>6, <2>9, <3>1 DEF RequestSound
      <2>12. ~Digests!IsGenerating(req[r].thread, req[r].dead)
            BY <1>1, <1>4
      <2>13. \A q \in Requests : req[q].at = "generate" /\ req[q].thread = t => t \in overran
            BY <1>1, <1>2, <2>12, NobodyGenerates
      <2>14. HoldsClaim(r)'
            BY <2>2, <2>4, <2>5, <2>6, <2>13 DEF HoldsClaim
      <2>15. ASSUME NEW q \in Requests \ {r}
             PROVE  HoldsClaim(q)'
            <3>1. req[q].at = "generate" /\ req[q].thread \notin overran => req[q].thread # t
                  BY <2>13
            <3>2. req[q].at = "generate" => req[q].thread \in Threads
                  BY DEF SummaryInv, SummariesTyped, RequestSound
            <3>3. HoldsClaim(q)
                  BY DEF SummaryInv
            <3>.  QED BY <2>4, <2>5, <2>6, <3>1, <3>2, <3>3 DEF HoldsClaim
      <2>16. SummaryInv'
            BY <2>5, <2>6, <2>7, <2>8, <2>10, <2>11, <2>14, <2>15 DEF SummaryInv, SummariesTyped
      <2>17. used < Limit
            BY <1>2, <1>4
      <2>.  QED BY <2>4, <2>6, <2>16, <2>17
<1>.  QED BY <1>3, <1>4

\* The row of the request that generates takes its text or its failure.
LEMMA RowAnswered ==
    ASSUME SummaryInv, NEW r \in Requests, req[r].at = "generate", NEW t \in Threads,
           t = req[r].thread, NEW new \in SummaryRows, NEW next \in SummaryReqs,
           summary' = [summary EXCEPT ![t] = new], req' = [req EXCEPT ![r] = next],
           UNCHANGED <<version, overran>>,
           new.status # "GENERATING", ~new.stale, new.claims = summary[t].claims,
           new.signature = summary[t].signature, new.text <= version[t],
           next.at # "generate",
           next.at # "idle" => /\ next.thread = t /\ next.signature = req[r].signature
                               /\ next.dead = req[r].dead,
           t \notin overran /\ new.status = "READY" => new.text = new.signature,
           used' \in Nat, texts' \in Nat, faults' \in Nat
    PROVE  SummaryInv'
<1>1. /\ summary' \in [Threads -> SummaryRows] /\ req' \in [Requests -> SummaryReqs]
      /\ summary'[t] = new /\ \A s \in Threads \ {t} : summary'[s] = summary[s]
      /\ req'[r] = next /\ \A q \in Requests \ {r} : req'[q] = req[q]
      /\ \A s \in Threads \ {t} : RowSound(s)'
      BY RowUpdate, ZenonT(60)
<1>2. RowSound(t)' /\ Fits(t)'
      BY <1>1 DEF SummaryInv, SummariesTyped, RowSound, Fits
<1>3. \A s \in Threads \ {t} : Fits(s)'
      BY <1>1 DEF SummaryInv, Fits
<1>4. \A q \in Requests : RequestSound(q)'
      BY <1>1 DEF SummaryInv, SummariesTyped, RequestSound
<1>5. ASSUME NEW q \in Requests \ {r}
      PROVE  HoldsClaim(q)'
      <2>1. HoldsClaim(r) /\ HoldsClaim(q)
            BY DEF SummaryInv
      <2>2. req[q].at = "generate" => req[q].thread \in Threads
            BY DEF SummaryInv, SummariesTyped, RequestSound
      <2>3. req[q].at = "generate" /\ t \notin overran => req[q].thread # t
            BY <2>1 DEF HoldsClaim
      <2>.  QED BY <1>1, <2>1, <2>2, <2>3 DEF HoldsClaim
<1>6. HoldsClaim(r)'
      BY <1>1 DEF HoldsClaim
<1>.  QED BY <1>1, <1>2, <1>3, <1>4, <1>5, <1>6 DEF SummaryInv, SummariesTyped

LEMMA SummarySave ==
    ASSUME SummaryInv, NEW r \in Requests, Digests!SaveSummary(r)
    PROVE  /\ SummaryInv' /\ req'[r].at = "charge"
           /\ \A q \in Requests \ {r} : req'[q] = req[q]
<1>1. PICK t \in Threads : t = req[r].thread
      BY DEF Digests!SaveSummary, SummaryInv, SummariesTyped, RequestSound
<1>2. /\ req[r].at = "generate" /\ req[r] \in SummaryReqs /\ summary[t] \in SummaryRows
      /\ RequestSound(r) /\ HoldsClaim(r)
      /\ used \in Nat /\ texts \in Nat /\ faults \in Nat
      BY DEF Digests!SaveSummary, SummaryInv, SummariesTyped
<1>3. PICK new : new = [summary[t] EXCEPT !.status = "READY", !.text = req[r].signature,
                                          !.stale = FALSE]
      OBVIOUS
<1>4. /\ new \in SummaryRows /\ new.status = "READY" /\ ~new.stale
      /\ new.text = req[r].signature /\ new.claims = summary[t].claims
      /\ new.signature = summary[t].signature
      <2>1. req[r].signature \in Nat
            BY <1>2 DEF SummaryReqs
      <2>.  QED BY <1>2, <1>3, <2>1 DEF SummaryRows
<1>5. PICK next : next = [req[r] EXCEPT !.at = "charge"]
      OBVIOUS
<1>6. /\ next \in SummaryReqs /\ next.at = "charge" /\ next.thread = t
      /\ next.signature = req[r].signature /\ next.dead = req[r].dead
      BY <1>1, <1>2, <1>5 DEF SummaryReqs
<1>7. /\ summary' = [summary EXCEPT ![t] = new] /\ req' = [req EXCEPT ![r] = next]
      /\ UNCHANGED <<version, overran>>
      /\ used' \in Nat /\ texts' \in Nat /\ faults' \in Nat
      <2>1. summary' = [summary EXCEPT ![t] = new]
            BY <1>1, <1>3 DEF Digests!SaveSummary
      <2>2. req' = [req EXCEPT ![r] = next]
            BY <1>5 DEF Digests!SaveSummary
      <2>3. UNCHANGED <<version, overran, used, faults>> /\ texts' = texts + 1
            BY DEF Digests!SaveSummary
      <2>.  QED BY <1>2, <2>1, <2>2, <2>3
<1>8. /\ new.text <= version[t]
      /\ t \notin overran => new.text = new.signature
      BY <1>1, <1>2, <1>4 DEF RequestSound, HoldsClaim
<1>9. SummaryInv'
      BY <1>1, <1>2, <1>4, <1>6, <1>7, <1>8, RowAnswered
<1>.  QED BY <1>6, <1>7, <1>9 DEF SummaryInv, SummariesTyped

LEMMA SummaryFailed ==
    ASSUME SummaryInv, NEW r \in Requests, Digests!MarkFailed(r)
    PROVE  /\ SummaryInv' /\ req'[r].at = "idle" /\ faults' = faults + 1
           /\ \A q \in Requests \ {r} : req'[q] = req[q]
<1>1. PICK t \in Threads : t = req[r].thread
      BY DEF Digests!MarkFailed, SummaryInv, SummariesTyped, RequestSound
<1>2. /\ req[r].at = "generate" /\ summary[t] \in SummaryRows /\ RowSound(t)
      /\ used \in Nat /\ texts \in Nat /\ faults \in Nat
      BY DEF Digests!MarkFailed, SummaryInv, SummariesTyped
<1>3. PICK new : new = [summary[t] EXCEPT !.status = "FAILED", !.stale = FALSE]
      OBVIOUS
<1>4. /\ new \in SummaryRows /\ new.status = "FAILED" /\ ~new.stale
      /\ new.text = summary[t].text /\ new.claims = summary[t].claims
      /\ new.signature = summary[t].signature
      BY <1>2, <1>3 DEF SummaryRows
<1>5. PICK next \in SummaryReqs : next = Digests!NoReq /\ next.at = "idle"
      BY SummaryNoReq
<1>6. /\ summary' = [summary EXCEPT ![t] = new] /\ req' = [req EXCEPT ![r] = next]
      /\ UNCHANGED <<version, overran>> /\ faults' = faults + 1
      /\ used' \in Nat /\ texts' \in Nat /\ faults' \in Nat
      <2>1. summary' = [summary EXCEPT ![t] = new]
            BY <1>1, <1>3 DEF Digests!MarkFailed
      <2>2. req' = [req EXCEPT ![r] = next]
            BY <1>5 DEF Digests!MarkFailed, Digests!Ends
      <2>3. UNCHANGED <<version, overran, used, texts>> /\ faults' = faults + 1
            BY DEF Digests!MarkFailed, Digests!Fault
      <2>.  QED BY <1>2, <2>1, <2>2, <2>3
<1>7. new.text <= version[t]
      BY <1>2, <1>4 DEF RowSound
<1>8. SummaryInv'
      BY <1>1, <1>2, <1>4, <1>5, <1>6, <1>7, RowAnswered
<1>.  QED BY <1>5, <1>6, <1>8 DEF SummaryInv, SummariesTyped

LEMMA SummaryStale ==
    ASSUME SummaryInv, NEW t \in Threads, Digests!GoesStale(t)
    PROVE  SummaryInv'
<1>1. /\ summary \in [Threads -> SummaryRows] /\ summary[t] \in SummaryRows
      /\ RowSound(t) /\ summary[t].status = "GENERATING"
      BY DEF Digests!GoesStale, SummaryInv, SummariesTyped
<1>2. PICK new : new = [summary[t] EXCEPT !.stale = TRUE]
      OBVIOUS
<1>3. /\ new \in SummaryRows /\ new.status = "GENERATING" /\ new.stale
      /\ new.text = summary[t].text /\ new.claims = summary[t].claims
      /\ new.signature = summary[t].signature
      BY <1>1, <1>2 DEF SummaryRows
<1>4. /\ summary' = [summary EXCEPT ![t] = new]
      /\ UNCHANGED <<version, req, used, texts, faults>>
      BY <1>2 DEF Digests!GoesStale
<1>5. /\ summary' \in [Threads -> SummaryRows] /\ summary'[t] = new
      /\ \A s \in Threads \ {t} : summary'[s] = summary[s]
      BY <1>1, <1>3, <1>4
<1>6. /\ overran' \subseteq Threads /\ overran \subseteq overran'
      /\ t \notin overran' => \A r \in Requests : req[r].at = "generate" => req[r].thread # t
      <2>1. \A r \in Requests : req[r].at = "generate" /\ req[r].thread = t /\ t \notin overran =>
                req[r].claim = summary[t].claims
            BY DEF SummaryInv, HoldsClaim
      <2>.  QED BY <2>1 DEF Digests!GoesStale, SummaryInv, SummariesTyped
<1>7. \A s \in Threads : RowSound(s)' /\ Fits(s)'
      BY <1>1, <1>3, <1>4, <1>5, <1>6 DEF SummaryInv, SummariesTyped, RowSound, Fits
<1>8. \A q \in Requests : RequestSound(q)'
      BY <1>3, <1>4, <1>5 DEF SummaryInv, SummariesTyped, RequestSound
<1>9. ASSUME NEW q \in Requests
      PROVE  HoldsClaim(q)'
      <2>1. HoldsClaim(q)
            BY DEF SummaryInv
      <2>2. req[q].at = "generate" => req[q].thread \in Threads
            BY DEF SummaryInv, SummariesTyped, RequestSound
      <2>.  QED BY <1>4, <1>5, <1>6, <2>1, <2>2 DEF HoldsClaim
<1>.  QED BY <1>4, <1>5, <1>6, <1>7, <1>8, <1>9 DEF SummaryInv, SummariesTyped

LEMMA SummaryStep ==
    ASSUME Limit \in Nat, SummaryInv, [Digests!Next]_Digests!vars
    PROVE  SummaryInv'
<1>1. CASE UNCHANGED Digests!vars
      <2>1. UNCHANGED <<version, summary, req, used, texts, overran, faults>>
            BY <1>1 DEF Digests!vars
      <2>.  QED BY <2>1 DEF SummaryInv, SummariesTyped, RowSound, RequestSound, HoldsClaim, Fits
<1>2. CASE Digests!Next
      BY <1>2, SummaryVersion, SummaryStale, SummaryAsk, SummaryClaim, SummarySave,
         SummaryFailed, SummaryRecord, SummaryDies DEF Digests!Next
<1>.  QED BY <1>1, <1>2

\* The counts of Summaries are those of this module.
LEMMA DigestsCount ==
    \A S : Digests!Cardinality(S) = Cardinality(S)
BY DEF Digests!Cardinality, Cardinality, Digests!IsFiniteSet, IsFiniteSet

\* A summary that is served was made of the messages it is served for, and one request at a
\* time generates for a thread, whoever asks at once and whatever arrives meanwhile, unless
\* a request outlived its claim (thread-summary.ts, the claim under the lock).
THEOREM SummariesFit ==
    ASSUME Limit \in Nat
    PROVE  Digests!Spec =>
               [](Digests!SummariesTypeOK /\ Digests!ServedTextFits /\ Digests!OneGenerationPerThread)
<1>1. SummaryInv => Digests!SummariesTypeOK
      BY DEF SummaryInv, SummariesTyped, SummaryRows, SummaryReqs, RowSound,
             Digests!SummariesTypeOK
<1>2. SummaryInv => Digests!ServedTextFits
      BY DEF SummaryInv, Fits, Digests!ServedTextFits
<1>3. SummaryInv => Digests!OneGenerationPerThread
      <2>1. ASSUME SummaryInv, NEW t \in Threads \ overran
            PROVE  Cardinality({r \in Requests : req[r].at = "generate" /\ req[r].thread = t}) <= 1
            <3>.  DEFINE S == {r \in Requests : req[r].at = "generate" /\ req[r].thread = t}
            <3>1. \A r, q \in S : r = q
                  BY <2>1 DEF SummaryInv, HoldsClaim
            <3>2. CASE S = {}
                  <4>1. Cardinality(S) = 0
                        BY <3>2, FS_EmptySet
                  <4>.  QED BY <4>1
            <3>3. CASE S # {}
                  <4>1. PICK r \in S : S = {r}
                        BY <3>1, <3>3
                  <4>2. Cardinality(S) = 1
                        BY <4>1, FS_Singleton
                  <4>.  QED BY <4>2
            <3>.  QED BY <3>2, <3>3
      <2>.  QED BY <2>1, DigestsCount DEF Digests!OneGenerationPerThread
<1>.  QED BY <1>1, <1>2, <1>3, SummaryBegins, SummaryStep, PTL DEF Digests!Spec

SummariesCounted ==
    LET charging == Cardinality(Between({"charge"}))
    IN used + charging <= texts /\ texts <= used + faults + charging

SummaryRoom ==
    used + Cardinality(Between({"generate", "charge"})) <= Limit + Cardinality(Requests) - 1

LEMMA SummaryMeterRequest ==
    ASSUME IsFiniteSet(Requests), Limit \in Nat, SummaryInv, SummariesCounted, SummaryRoom,
           NEW r \in Requests,
           \/ \E t \in Threads, force \in BOOLEAN : Digests!Ask(r, t, force)
           \/ Digests!Claim(r) \/ Digests!SaveSummary(r) \/ Digests!MarkFailed(r)
           \/ Digests!RecordUsage(r) \/ Digests!Dies(r)
    PROVE  SummariesCounted' /\ SummaryRoom'
<1>.  DEFINE charging == Cardinality(Between({"charge"}))
             pending  == Cardinality(Between({"generate", "charge"}))
<1>1. /\ used \in Nat /\ faults \in Nat /\ texts \in Nat /\ Cardinality(Requests) \in Nat
      /\ used + charging <= texts /\ texts <= used + faults + charging
      /\ used + pending <= Limit + Cardinality(Requests) - 1
      BY FS_CardinalityType DEF SummaryInv, SummariesTyped, SummariesCounted, SummaryRoom
<1>2. SUFFICES
         /\ used' + charging' <= texts' /\ texts' <= used' + faults' + charging'
         /\ used' + pending' <= Limit + Cardinality(Requests) - 1
      BY DEF SummariesCounted, SummaryRoom
<1>3. \A q \in Requests \ {r} : req'[q] = req[q]
      BY SummaryAsk, SummaryClaim, SummarySave, SummaryFailed, SummaryRecord, SummaryDies
<1>4. /\ charging \in Nat /\ charging' \in Nat /\ pending \in Nat /\ pending' \in Nat
      /\ (req[r].at = "charge" <=> req'[r].at = "charge") => charging' = charging
      /\ req[r].at = "charge" /\ req'[r].at # "charge" => charging' = charging - 1
      /\ req[r].at # "charge" /\ req'[r].at = "charge" => charging' = charging + 1
      /\ (req[r].at \in {"generate", "charge"} <=> req'[r].at \in {"generate", "charge"}) =>
            pending' = pending
      /\ req[r].at \in {"generate", "charge"} /\ req'[r].at \notin {"generate", "charge"} =>
            pending' = pending - 1
      /\ req[r].at \notin {"generate", "charge"} /\ req'[r].at \in {"generate", "charge"} =>
            pending' = pending + 1
      BY <1>3, RequestMoves
<1>5. req[r].at = "claim" => pending + 1 <= Cardinality(Requests)
      BY BetweenAtMost
<1>.  HIDE DEF charging, pending
<1>6. CASE \E t \in Threads, force \in BOOLEAN : Digests!Ask(r, t, force)
      <2>1. req[r].at = "idle" /\ req'[r].at = "claim"
            BY <1>6, SummaryAsk
      <2>2. UNCHANGED <<used, texts, faults>>
            BY <1>6 DEF Digests!Ask
      <2>3. charging' = charging /\ pending' = pending
            BY <1>4, <2>1
      <2>.  QED BY <1>1, <1>4, <2>2, <2>3
<1>7. CASE Digests!Claim(r)
      <2>1. UNCHANGED <<used, texts, faults>> /\ req[r].at = "claim"
            BY <1>7 DEF Digests!Claim
      <2>2. req'[r].at # "idle" => req'[r].at = "generate" /\ used < Limit
            BY <1>7, SummaryClaim
      <2>3. /\ charging' = charging
            /\ pending' # pending => pending' = pending + 1 /\ used + 1 <= Limit
            <3>1. CASE req'[r].at = "idle"
                  BY <1>4, <2>1, <3>1
            <3>2. CASE req'[r].at = "generate" /\ used < Limit
                  <4>1. charging' = charging /\ pending' = pending + 1
                        BY <1>4, <2>1, <3>2
                  <4>2. used + 1 <= Limit
                        BY <1>1, <3>2
                  <4>.  QED BY <4>1, <4>2
            <3>.  QED BY <2>2, <3>1, <3>2
      <2>.  QED BY <1>1, <1>4, <1>5, <2>1, <2>3
<1>8. CASE Digests!SaveSummary(r)
      <2>1. UNCHANGED <<used, faults>> /\ texts' = texts + 1 /\ req[r].at = "generate"
            BY <1>8 DEF Digests!SaveSummary
      <2>2. req'[r].at = "charge"
            BY <1>8, SummarySave
      <2>.  QED BY <1>1, <1>4, <2>1, <2>2
<1>9. CASE Digests!MarkFailed(r) \/ Digests!Dies(r)
      <2>1. UNCHANGED <<used, texts>> /\ faults' = faults + 1 /\ req'[r].at = "idle"
            BY <1>9, SummaryFailed, SummaryDies DEF Digests!MarkFailed, Digests!Dies
      <2>2. req[r].at = "generate" \/ req[r].at = "charge"
            BY <1>9 DEF Digests!MarkFailed, Digests!Dies
      <2>3. CASE req[r].at = "generate"
            <3>1. charging' = charging /\ pending' = pending - 1
                  BY <1>4, <2>1, <2>3
            <3>.  QED BY <1>1, <1>4, <2>1, <3>1
      <2>4. CASE req[r].at = "charge"
            <3>1. charging' = charging - 1 /\ pending' = pending - 1
                  BY <1>4, <2>1, <2>4
            <3>.  QED BY <1>1, <1>4, <2>1, <3>1
      <2>.  QED BY <2>2, <2>3, <2>4
<1>10. CASE Digests!RecordUsage(r)
      <2>1. /\ used' = used + 1 /\ UNCHANGED <<texts, faults>> /\ req[r].at = "charge"
            /\ req'[r].at = "idle"
            BY <1>10, SummaryRecord DEF Digests!RecordUsage
      <2>.  QED BY <1>1, <1>4, <2>1
<1>.  QED BY <1>6, <1>7, <1>8, <1>9, <1>10

\* The inbox is charged for the summaries that were saved: for none twice, and for all but
\* those whose request died before its charge (thread-summary.ts, "only a committed
\* generation records"); and each request under way may pass the limit, no more than those.
THEOREM SummariesCharged ==
    ASSUME IsFiniteSet(Requests), Requests # {}, Limit \in Nat
    PROVE  Digests!Spec => [](Digests!ChargedForTexts /\ Digests!SummaryOvershootBounded)
<1>1. Digests!Init => SummaryInv /\ SummariesCounted /\ SummaryRoom
      <2>1. ASSUME Digests!Init
            PROVE  SummariesCounted /\ SummaryRoom
            <3>1. \A r \in Requests : req[r].at = "idle"
                  BY <2>1, SummaryNoReq DEF Digests!Init
            <3>2. /\ Cardinality(Between({"charge"})) = 0
                  /\ Cardinality(Between({"generate", "charge"})) = 0
                  BY <3>1, NoneBetween
            <3>3. Cardinality(Requests) \in Nat /\ Cardinality(Requests) # 0
                  BY FS_EmptySet, FS_CardinalityType
            <3>4. used = 0 /\ faults = 0 /\ texts = 0
                  BY <2>1 DEF Digests!Init
            <3>.  QED BY <3>2, <3>3, <3>4 DEF SummariesCounted, SummaryRoom
      <2>.  QED BY <2>1, SummaryBegins
<1>2. SummaryInv /\ SummariesCounted /\ SummaryRoom /\ [Digests!Next]_Digests!vars
         => (SummaryInv /\ SummariesCounted /\ SummaryRoom)'
      <2>1. ASSUME SummaryInv, SummariesCounted, SummaryRoom, [Digests!Next]_Digests!vars
            PROVE  SummariesCounted' /\ SummaryRoom'
            <3>1. ASSUME UNCHANGED <<req, used, texts, faults>>
                  PROVE  SummariesCounted' /\ SummaryRoom'
                  BY <2>1, <3>1 DEF SummariesCounted, SummaryRoom, Between
            <3>2. CASE \/ \E t \in Threads : Digests!VersionChanges(t) \/ Digests!GoesStale(t)
                       \/ UNCHANGED Digests!vars
                  <4>1. UNCHANGED <<req, used, texts, faults>>
                        BY <3>2 DEF Digests!VersionChanges, Digests!GoesStale, Digests!vars
                  <4>.  QED BY <3>1, <4>1
            <3>.  QED BY <2>1, <3>2, SummaryMeterRequest DEF Digests!Next
      <2>.  QED BY <2>1, SummaryStep
<1>3. SummaryInv /\ SummariesCounted /\ SummaryRoom
         => Digests!ChargedForTexts /\ Digests!SummaryOvershootBounded
      <2>1. ASSUME SummaryInv, SummariesCounted, SummaryRoom
            PROVE  Digests!ChargedForTexts /\ Digests!SummaryOvershootBounded
            <3>1. /\ used \in Nat /\ texts \in Nat /\ faults \in Nat
                  /\ Cardinality(Requests) \in Nat
                  BY <2>1, FS_CardinalityType DEF SummaryInv, SummariesTyped
            <3>2. /\ IsFiniteSet(Between({"charge"}))
                  /\ IsFiniteSet(Between({"generate", "charge"}))
                  BY FS_Subset DEF Between
            <3>3. /\ Cardinality(Between({"charge"})) \in Nat
                  /\ Cardinality(Between({"generate", "charge"})) \in Nat
                  BY <3>2, FS_CardinalityType
            <3>4. Between({"charge"}) = {r \in Requests : req[r].at = "charge"}
                  BY DEF Between
            <3>5. /\ used <= texts
                  /\ texts <= used + faults + Cardinality(Between({"charge"}))
                  BY <2>1, <3>1, <3>3 DEF SummariesCounted
            <3>6. Digests!ChargedForTexts
                  BY <3>4, <3>5, DigestsCount DEF Digests!ChargedForTexts
            <3>7. used <= Limit + Cardinality(Requests) - 1
                  BY <2>1, <3>1, <3>3 DEF SummaryRoom
            <3>8. Digests!SummaryOvershootBounded
                  BY <3>7, DigestsCount DEF Digests!SummaryOvershootBounded
            <3>.  QED BY <3>6, <3>8
      <2>.  QED BY <2>1
<1>.  QED BY <1>1, <1>2, <1>3, PTL DEF Digests!Spec

-----------------------------------------------------------------------------
(* The taxonomies that are proposed (TaxonomyGeneration).                    *)

GenerationSizes ==
    /\ IsFiniteSet(Workspaces) /\ Workspaces # {}
    /\ Cap \in Nat /\ MaxMail \in Nat /\ MaxJobs \in Nat

ProposalRows ==
    {s \in [status : {"IDLE", "RUNNING", "READY", "INSUFFICIENT", "FAILED"}, proposal : BOOLEAN,
            outcome : {"none", "SUCCESS", "FAILED", "INSUFFICIENT"}, base : 0 .. MaxMail,
            age : 0 .. 2] :
        s.outcome = "SUCCESS" => s.base > 0}

Posts == [at : {"idle", "mark", "add"}, ws : Workspaces, had : BOOLEAN]

\* A job that asks the model saw an eligible thread, and has an id.
Tasks ==
    {j \in [at : {"idle", "queued", "mark", "check", "generate", "commit", "done"},
            id : 0 .. MaxJobs, stalls : Nat, state : ProposalRows, count : 0 .. MaxMail] :
        /\ j.at # "idle" => j.id > 0
        /\ j.at \in {"generate", "commit"} => j.count > 0}

GenerationTyped ==
    /\ eligible \in [Workspaces -> 0 .. MaxMail]
    /\ proposal \in [Workspaces -> ProposalRows]
    /\ post \in [Requests -> Posts]
    /\ task \in [Workspaces -> Tasks]
    /\ used \in Nat /\ tokens \subseteq Workspaces \X (1 .. MaxJobs)

LEMMA ProposalWritten ==
    ASSUME GenerationTyped, NEW w \in Workspaces, NEW new \in ProposalRows,
           Generation!Write(w, new)
    PROVE  proposal' \in [Workspaces -> ProposalRows]
<1>1. PICK fresh : fresh = [new EXCEPT !.age = 0]
      OBVIOUS
<1>2. fresh \in ProposalRows
      BY <1>1 DEF ProposalRows
<1>3. proposal' = [proposal EXCEPT ![w] = fresh]
      BY <1>1 DEF Generation!Write, Generation!Fresh
<1>.  QED BY <1>2, <1>3 DEF GenerationTyped

LEMMA StatusWritten ==
    ASSUME GenerationTyped, NEW w \in Workspaces,
           NEW status \in {"IDLE", "RUNNING", "READY"}, Generation!WriteStatus(w, status)
    PROVE  proposal' \in [Workspaces -> ProposalRows]
<1>1. PICK new : new = [proposal[w] EXCEPT !.status = status]
      OBVIOUS
<1>2. proposal[w] \in ProposalRows
      BY DEF GenerationTyped
<1>3. new \in ProposalRows
      BY <1>1, <1>2 DEF ProposalRows
<1>4. Generation!Write(w, new)
      BY <1>1 DEF Generation!WriteStatus
<1>.  QED BY <1>3, <1>4, ProposalWritten

LEMMA NoProposal ==
    ASSUME GenerationSizes
    PROVE  /\ Generation!NoRow \in ProposalRows /\ Generation!NoJob \in Tasks
           /\ Generation!NoPost \in Posts
           /\ Generation!NoJob = [at |-> "idle", id |-> 0, stalls |-> 0,
                                  state |-> Generation!NoRow, count |-> 0]
<1>1. Generation!NoRow \in ProposalRows
      BY DEF GenerationSizes, ProposalRows, Generation!NoRow, Generation!Old
<1>2. Generation!NoJob \in Tasks
      BY <1>1 DEF GenerationSizes, Tasks, Generation!NoJob
<1>3. (CHOOSE w \in Workspaces : TRUE) \in Workspaces
      BY DEF GenerationSizes
<1>4. Generation!NoPost \in Posts
      BY <1>3 DEF Posts, Generation!NoPost
<1>.  QED BY <1>1, <1>2, <1>4 DEF Generation!NoJob

\* A step of a job, which takes another step or a new id.
LEMMA TaskBecomes ==
    ASSUME GenerationTyped, NEW w \in Workspaces, NEW new \in Tasks,
           task' = [task EXCEPT ![w] = new]
    PROVE  /\ task' \in [Workspaces -> Tasks] /\ task'[w] = new
           /\ \A v \in Workspaces \ {w} : task'[v] = task[v]
BY DEF GenerationTyped

LEMMA TaskGoes ==
    ASSUME GenerationTyped, NEW w \in Workspaces, task[w].at # "idle",
           NEW at \in {"mark", "check", "commit", "done"},
           at = "commit" => task[w].at = "generate", Generation!Goes(w, at)
    PROVE  /\ task' \in [Workspaces -> Tasks] /\ task'[w].at = at /\ task'[w].id = task[w].id
           /\ \A v \in Workspaces \ {w} : task'[v] = task[v]
<1>1. PICK new : new = [task[w] EXCEPT !.at = at]
      OBVIOUS
<1>2. task[w] \in Tasks
      BY DEF GenerationTyped
<1>3. new \in Tasks /\ new.at = at /\ new.id = task[w].id
      BY <1>1, <1>2 DEF Tasks
<1>4. task' = [task EXCEPT ![w] = new]
      BY <1>1 DEF Generation!Goes
<1>.  QED BY <1>3, <1>4, TaskBecomes

LEMMA TaskEnds ==
    ASSUME GenerationSizes, GenerationTyped, NEW w \in Workspaces, Generation!Ends(w)
    PROVE  /\ task' \in [Workspaces -> Tasks] /\ task'[w].at = "idle"
           /\ \A v \in Workspaces \ {w} : task'[v] = task[v]
<1>1. PICK new : new = [Generation!NoJob EXCEPT !.id = task[w].id]
      OBVIOUS
<1>2. task[w] \in Tasks /\ Generation!NoRow \in ProposalRows
      BY NoProposal DEF GenerationTyped
<1>3. new = [at |-> "idle", id |-> task[w].id, stalls |-> 0, state |-> Generation!NoRow,
             count |-> 0]
      BY <1>1, NoProposal
<1>4. new \in Tasks /\ new.at = "idle"
      BY <1>2, <1>3 DEF Tasks, GenerationSizes
<1>5. task' = [task EXCEPT ![w] = new]
      BY <1>1 DEF Generation!Ends
<1>.  QED BY <1>4, <1>5, TaskBecomes

\* Runs that ask the model, or have its answer.
Asking == {"generate", "commit"}

\* No run begins to ask the model.
NoneAsks ==
    \A w \in Workspaces :
        task'[w].at \in Asking => task[w].at \in Asking /\ task'[w].id = task[w].id

\* Who changes neither the jobs nor the meter.
LEMMA JobsStay ==
    ASSUME GenerationTyped, UNCHANGED <<task, used, tokens, saved>>,
           eligible' \in [Workspaces -> 0 .. MaxMail],
           proposal' \in [Workspaces -> ProposalRows], post' \in [Requests -> Posts]
    PROVE  GenerationTyped' /\ NoneAsks
BY DEF GenerationTyped, NoneAsks

LEMMA InboxTyped ==
    ASSUME GenerationSizes, GenerationTyped, NEW w \in Workspaces,
           \/ Generation!InboxChanges(w) \/ Generation!ConsumeProposal(w) \/ Generation!Reset(w)
           \/ Generation!WriteFailed(w)
    PROVE  GenerationTyped' /\ NoneAsks
<1>1. /\ eligible \in [Workspaces -> 0 .. MaxMail] /\ MaxMail \in Nat
      /\ proposal \in [Workspaces -> ProposalRows] /\ post \in [Requests -> Posts]
      /\ proposal[w] \in ProposalRows
      BY DEF GenerationTyped, GenerationSizes
<1>2. UNCHANGED <<post, task, used, tokens, saved>>
      BY DEF Generation!InboxChanges, Generation!ConsumeProposal, Generation!Reset,
             Generation!WriteFailed
<1>3. CASE Generation!InboxChanges(w)
      <2>1. UNCHANGED proposal
            BY <1>3 DEF Generation!InboxChanges
      <2>2. PICK n : n \in 0 .. MaxMail /\ eligible' = [eligible EXCEPT ![w] = n]
            <3>1. eligible[w] \in 0 .. MaxMail
                  BY <1>1
            <3>2. CASE eligible[w] < MaxMail /\ eligible' = [eligible EXCEPT ![w] = @ + 1]
                  <4>1. eligible[w] + 1 \in 0 .. MaxMail
                        BY <1>1, <3>1, <3>2
                  <4>.  QED BY <3>2, <4>1
            <3>3. CASE eligible[w] > 0 /\ eligible' = [eligible EXCEPT ![w] = @ - 1]
                  <4>1. eligible[w] - 1 \in 0 .. MaxMail
                        BY <1>1, <3>1, <3>3
                  <4>.  QED BY <3>3, <4>1
            <3>.  QED BY <1>3, <3>2, <3>3 DEF Generation!InboxChanges
      <2>3. eligible' \in [Workspaces -> 0 .. MaxMail]
            BY <1>1, <2>2
      <2>.  QED BY <1>1, <1>2, <2>1, <2>3, JobsStay
<1>4. CASE Generation!ConsumeProposal(w)
      <2>1. PICK new : new = [proposal[w] EXCEPT !.status = "IDLE", !.proposal = FALSE]
            OBVIOUS
      <2>2. new \in ProposalRows
            BY <1>1, <2>1 DEF ProposalRows
      <2>3. Generation!Write(w, new) /\ UNCHANGED eligible
            BY <1>4, <2>1 DEF Generation!ConsumeProposal
      <2>4. proposal' \in [Workspaces -> ProposalRows]
            BY <2>2, <2>3, ProposalWritten
      <2>.  QED BY <1>1, <1>2, <2>3, <2>4, JobsStay
<1>5. CASE Generation!Reset(w)
      <2>1. /\ proposal' = [proposal EXCEPT ![w] = Generation!NoRow]
            /\ eligible' = [eligible EXCEPT ![w] = 0]
            BY <1>5 DEF Generation!Reset
      <2>2. Generation!NoRow \in ProposalRows /\ 0 \in 0 .. MaxMail
            BY <1>1, NoProposal
      <2>3. /\ proposal' \in [Workspaces -> ProposalRows]
            /\ eligible' \in [Workspaces -> 0 .. MaxMail]
            BY <1>1, <2>1, <2>2
      <2>.  QED BY <1>1, <1>2, <2>3, JobsStay
<1>6. CASE Generation!WriteFailed(w)
      <2>1. PICK new : new = [proposal[w] EXCEPT !.status = "FAILED", !.outcome = "FAILED"]
            OBVIOUS
      <2>2. new \in ProposalRows
            BY <1>1, <2>1 DEF ProposalRows
      <2>3. Generation!Write(w, new) /\ UNCHANGED eligible
            BY <1>6, <2>1 DEF Generation!WriteFailed
      <2>4. proposal' \in [Workspaces -> ProposalRows]
            BY <2>2, <2>3, ProposalWritten
      <2>.  QED BY <1>1, <1>2, <2>3, <2>4, JobsStay
<1>.  QED BY <1>3, <1>4, <1>5, <1>6

LEMMA LaterTyped ==
    ASSUME GenerationTyped, Generation!Later
    PROVE  GenerationTyped' /\ NoneAsks
<1>1. \A age \in 0 .. 2 : Generation!Older(age) \in 0 .. 2
      BY DEF Generation!Older, Generation!Old
<1>2. \A s \in ProposalRows : [s EXCEPT !.age = Generation!Older(s.age)] \in ProposalRows
      BY <1>1 DEF ProposalRows
<1>3. proposal' \in [Workspaces -> ProposalRows]
      BY <1>2 DEF Generation!Later, GenerationTyped
<1>4. \A j \in Tasks :
        /\ [j EXCEPT !.state = [j.state EXCEPT !.age = Generation!Older(j.state.age)]] \in Tasks
        /\ [j EXCEPT !.state = [j.state EXCEPT !.age = Generation!Older(j.state.age)]].at = j.at
        /\ [j EXCEPT !.state = [j.state EXCEPT !.age = Generation!Older(j.state.age)]].id = j.id
      BY <1>2 DEF Tasks
<1>5. task' = [w \in Workspaces |->
          [task[w] EXCEPT !.state = [task[w].state EXCEPT !.age =
              Generation!Older(task[w].state.age)]]]
      BY DEF Generation!Later
<1>6. \A w \in Workspaces :
        task'[w] \in Tasks /\ task'[w].at = task[w].at /\ task'[w].id = task[w].id
      BY <1>4, <1>5 DEF GenerationTyped
<1>7. task' \in [Workspaces -> Tasks]
      BY <1>5, <1>6
<1>8. UNCHANGED <<eligible, post, used, tokens>>
      BY DEF Generation!Later
<1>.  QED BY <1>3, <1>6, <1>7, <1>8 DEF GenerationTyped, NoneAsks

LEMMA PostTyped ==
    ASSUME GenerationSizes, GenerationTyped, NEW p \in Requests,
           \/ \E w \in Workspaces : Generation!Admit(p, w)
           \/ Generation!MarkRunning(p) \/ Generation!AddFails(p)
    PROVE  GenerationTyped' /\ NoneAsks
<1>1. /\ eligible \in [Workspaces -> 0 .. MaxMail]
      /\ proposal \in [Workspaces -> ProposalRows] /\ post \in [Requests -> Posts]
      /\ post[p] \in Posts /\ \A w \in Workspaces : proposal[w] \in ProposalRows
      BY DEF GenerationTyped
<1>2. UNCHANGED <<eligible, task, used, tokens, saved>>
      BY DEF Generation!Admit, Generation!MarkRunning, Generation!AddFails
<1>3. CASE \E w \in Workspaces : Generation!Admit(p, w)
      <2>1. PICK w \in Workspaces : Generation!Admit(p, w)
            BY <1>3
      <2>2. [at |-> "mark", ws |-> w, had |-> proposal[w].proposal] \in Posts
            BY <1>1 DEF Posts, ProposalRows
      <2>3. post' \in [Requests -> Posts] /\ UNCHANGED proposal
            BY <1>1, <2>1, <2>2 DEF Generation!Admit
      <2>.  QED BY <1>1, <1>2, <2>3, JobsStay
<1>4. CASE Generation!MarkRunning(p)
      <2>1. PICK w \in Workspaces : w = post[p].ws
            BY <1>1 DEF Posts
      <2>2. Generation!WriteStatus(w, "RUNNING")
            BY <1>4, <2>1 DEF Generation!MarkRunning
      <2>3. proposal' \in [Workspaces -> ProposalRows]
            BY <2>2, StatusWritten
      <2>4. [post[p] EXCEPT !.at = "add"] \in Posts
            BY <1>1 DEF Posts
      <2>5. post' \in [Requests -> Posts]
            BY <1>1, <1>4, <2>4 DEF Generation!MarkRunning
      <2>.  QED BY <1>1, <1>2, <2>3, <2>5, JobsStay
<1>5. CASE Generation!AddFails(p)
      <2>1. PICK w \in Workspaces : w = post[p].ws
            BY <1>1 DEF Posts
      <2>2. PICK status \in {"IDLE", "RUNNING", "READY"} : status = Generation!Prior(post[p].had)
            BY DEF Generation!Prior
      <2>3. Generation!WriteStatus(w, status)
            BY <1>5, <2>1, <2>2 DEF Generation!AddFails
      <2>4. proposal' \in [Workspaces -> ProposalRows]
            BY <2>3, StatusWritten
      <2>5. post' \in [Requests -> Posts]
            BY <1>1, <1>5, NoProposal DEF Generation!AddFails
      <2>.  QED BY <1>1, <1>2, <2>4, <2>5, JobsStay
<1>.  QED BY <1>3, <1>4, <1>5

\* Who changes the job of a workspace.
LEMMA JobChanges ==
    ASSUME GenerationTyped, NEW w \in Workspaces, UNCHANGED <<eligible, used, tokens, saved>>,
           proposal' \in [Workspaces -> ProposalRows], post' \in [Requests -> Posts],
           task' \in [Workspaces -> Tasks], \A v \in Workspaces \ {w} : task'[v] = task[v],
           task'[w].at \in Asking => task[w].at \in Asking /\ task'[w].id = task[w].id
    PROVE  GenerationTyped' /\ NoneAsks
BY DEF GenerationTyped, NoneAsks

LEMMA AddTyped ==
    ASSUME GenerationSizes, GenerationTyped, NEW p \in Requests, Generation!AddJob(p)
    PROVE  GenerationTyped' /\ NoneAsks
<1>1. PICK w \in Workspaces : w = post[p].ws
      BY DEF GenerationTyped, Posts
<1>2. UNCHANGED <<eligible, proposal, used, tokens, saved>>
      BY DEF Generation!AddJob
<1>3. /\ proposal' \in [Workspaces -> ProposalRows]
      /\ post' \in [Requests -> Posts]
      BY <1>2, NoProposal DEF Generation!AddJob, GenerationTyped
<1>4. CASE UNCHANGED task
      <2>1. task' \in [Workspaces -> Tasks]
            BY <1>4 DEF GenerationTyped
      <2>.  QED BY <1>2, <1>3, <1>4, <2>1, JobChanges
<1>5. CASE task[w].at = "idle" /\ ~UNCHANGED task
      <2>1. PICK new : new = [Generation!NoJob EXCEPT !.at = "queued", !.id = task[w].id + 1]
            OBVIOUS
      <2>2. task[w].id < MaxJobs /\ task' = [task EXCEPT ![w] = new]
            BY <1>1, <1>5, <2>1 DEF Generation!AddJob
      <2>3. task[w].id \in 0 .. MaxJobs /\ MaxJobs \in Nat /\ MaxMail \in Nat
            BY DEF GenerationTyped, Tasks, GenerationSizes
      <2>4. task[w].id + 1 \in 0 .. MaxJobs /\ task[w].id + 1 > 0
            BY <2>2, <2>3
      <2>5. new = [at |-> "queued", id |-> task[w].id + 1, stalls |-> 0,
                   state |-> Generation!NoRow, count |-> 0]
            <3>1. PICK id : id = task[w].id + 1
                  OBVIOUS
            <3>2. new = [at |-> "queued", id |-> id, stalls |-> 0,
                         state |-> Generation!NoRow, count |-> 0]
                  BY <2>1, <3>1 DEF Generation!NoJob
            <3>.  QED BY <3>1, <3>2
      <2>6. new \in Tasks /\ new.at = "queued"
            BY <2>3, <2>4, <2>5, NoProposal DEF Tasks
      <2>7. /\ task' \in [Workspaces -> Tasks] /\ task'[w].at = "queued"
            /\ \A v \in Workspaces \ {w} : task'[v] = task[v]
            BY <2>2, <2>6, TaskBecomes
      <2>.  QED BY <1>2, <1>3, <2>7, JobChanges DEF Asking
<1>.  QED BY <1>1, <1>4, <1>5 DEF Generation!AddJob

LEMMA JobTyped ==
    ASSUME GenerationSizes, GenerationTyped, NEW w \in Workspaces,
           \/ Generation!ReadState(w) \/ Generation!JobMarksRunning(w) \/ Generation!Generate(w)
           \/ Generation!Return(w) \/ Generation!Throw(w) \/ Generation!Crash(w)
    PROVE  GenerationTyped' /\ NoneAsks
<1>1. /\ proposal \in [Workspaces -> ProposalRows] /\ post \in [Requests -> Posts]
      /\ proposal[w] \in ProposalRows /\ task[w] \in Tasks
      BY DEF GenerationTyped
<1>2. UNCHANGED <<eligible, post, used, tokens, saved>>
      BY DEF Generation!ReadState, Generation!JobMarksRunning, Generation!Generate,
             Generation!Return, Generation!Throw, Generation!Crash
<1>3. proposal' \in [Workspaces -> ProposalRows]
      <2>1. CASE Generation!JobMarksRunning(w)
            BY <2>1, StatusWritten DEF Generation!JobMarksRunning
      <2>.  QED BY <1>1, <2>1 DEF Generation!ReadState, Generation!Generate,
                Generation!Return, Generation!Throw, Generation!Crash
<1>4. CASE Generation!ReadState(w)
      <2>1. PICK new : new = [task[w] EXCEPT !.at = "mark", !.state = proposal[w]]
            OBVIOUS
      <2>2. task[w].at = "queued" /\ task' = [task EXCEPT ![w] = new]
            BY <1>4, <2>1 DEF Generation!ReadState
      <2>3. new \in Tasks /\ new.at = "mark"
            BY <1>1, <2>1, <2>2 DEF Tasks
      <2>4. /\ task' \in [Workspaces -> Tasks] /\ task'[w].at = "mark"
            /\ \A v \in Workspaces \ {w} : task'[v] = task[v]
            BY <2>2, <2>3, TaskBecomes
      <2>.  QED BY <1>1, <1>2, <1>3, <2>4, JobChanges DEF Asking
<1>5. CASE Generation!JobMarksRunning(w)
      <2>1. /\ task' \in [Workspaces -> Tasks] /\ task'[w].at = "check"
            /\ \A v \in Workspaces \ {w} : task'[v] = task[v]
            BY <1>5, TaskGoes DEF Generation!JobMarksRunning
      <2>.  QED BY <1>1, <1>2, <1>3, <2>1, JobChanges DEF Asking
<1>6. CASE Generation!Generate(w)
      <2>1. /\ task' \in [Workspaces -> Tasks] /\ task'[w].id = task[w].id
            /\ \A v \in Workspaces \ {w} : task'[v] = task[v]
            BY <1>6, TaskGoes DEF Generation!Generate
      <2>2. task[w].at = "generate"
            BY <1>6 DEF Generation!Generate
      <2>.  QED BY <1>1, <1>2, <1>3, <2>1, <2>2, JobChanges DEF Asking
<1>7. CASE Generation!Ends(w)
      <2>1. /\ task' \in [Workspaces -> Tasks] /\ task'[w].at = "idle"
            /\ \A v \in Workspaces \ {w} : task'[v] = task[v]
            BY <1>7, TaskEnds
      <2>.  QED BY <1>1, <1>2, <1>3, <2>1, JobChanges DEF Asking
<1>8. CASE Generation!Crash(w) /\ ~Generation!Ends(w)
      <2>1. PICK new : new = [Generation!NoJob EXCEPT !.at = "queued", !.id = task[w].id,
                                                      !.stalls = task[w].stalls + 1]
            OBVIOUS
      <2>2. task' = [task EXCEPT ![w] = new] /\ task[w].at # "idle"
            BY <1>8, <2>1 DEF Generation!Crash
      <2>3. new = [at |-> "queued", id |-> task[w].id, stalls |-> task[w].stalls + 1,
                   state |-> Generation!NoRow, count |-> 0]
            <3>1. PICK stalls : stalls = task[w].stalls + 1
                  OBVIOUS
            <3>2. new = [at |-> "queued", id |-> task[w].id, stalls |-> stalls,
                         state |-> Generation!NoRow, count |-> 0]
                  BY <2>1, <3>1 DEF Generation!NoJob
            <3>.  QED BY <3>1, <3>2
      <2>4. /\ task[w].id \in 0 .. MaxJobs /\ task[w].id > 0 /\ task[w].stalls + 1 \in Nat
            /\ 0 \in 0 .. MaxMail
            BY <1>1, <2>2 DEF Tasks, GenerationSizes
      <2>5. new \in Tasks /\ new.at = "queued"
            BY <2>3, <2>4, NoProposal DEF Tasks
      <2>6. /\ task' \in [Workspaces -> Tasks] /\ task'[w].at = "queued"
            /\ \A v \in Workspaces \ {w} : task'[v] = task[v]
            BY <2>2, <2>5, TaskBecomes
      <2>.  QED BY <1>1, <1>2, <1>3, <2>6, JobChanges DEF Asking
<1>9. Generation!Return(w) \/ Generation!Throw(w) => Generation!Ends(w)
      BY DEF Generation!Return, Generation!Throw
<1>.  QED BY <1>4, <1>5, <1>6, <1>7, <1>8, <1>9

\* The job asks the limiter: a run begins while the meter is below the cap.
LEMMA CheckTyped ==
    ASSUME GenerationSizes, GenerationTyped, NEW w \in Workspaces, Generation!Check(w)
    PROVE  /\ GenerationTyped' /\ UNCHANGED <<used, tokens, saved>>
           /\ NoneAsks \/ used < Cap
<1>1. /\ proposal \in [Workspaces -> ProposalRows] /\ post \in [Requests -> Posts]
      /\ proposal[w] \in ProposalRows /\ task[w] \in Tasks /\ eligible[w] \in 0 .. MaxMail
      /\ used \in Nat /\ Cap \in Nat /\ MaxMail \in Nat
      BY DEF GenerationTyped, GenerationSizes
<1>2. UNCHANGED <<eligible, post, used, tokens, saved>> /\ task[w].at = "check"
      BY DEF Generation!Check
<1>3. PICK answer : answer = Generation!Eligibility(task[w].state, eligible[w])
      OBVIOUS
<1>4. answer = "OK" => eligible[w] > 0 /\ used < Cap
      BY <1>1, <1>3 DEF Generation!Eligibility
<1>5. CASE answer = "OK"
      <2>1. PICK new : new = [task[w] EXCEPT !.at = "generate", !.count = eligible[w]]
            OBVIOUS
      <2>2. task' = [task EXCEPT ![w] = new] /\ UNCHANGED proposal
            BY <1>3, <1>5, <2>1 DEF Generation!Check
      <2>3. new \in Tasks
            BY <1>1, <1>2, <1>4, <1>5, <2>1 DEF Tasks
      <2>4. task' \in [Workspaces -> Tasks]
            BY <2>2, <2>3, TaskBecomes
      <2>.  QED BY <1>1, <1>2, <1>4, <1>5, <2>2, <2>4 DEF GenerationTyped
<1>6. CASE Generation!Ends(w) /\ answer # "OK"
      <2>1. /\ task' \in [Workspaces -> Tasks] /\ task'[w].at = "idle"
            /\ \A v \in Workspaces \ {w} : task'[v] = task[v]
            BY <1>6, TaskEnds
      <2>2. proposal' \in [Workspaces -> ProposalRows]
            <3>1. PICK new : new = [proposal[w] EXCEPT !.status = "INSUFFICIENT",
                                                       !.outcome = "INSUFFICIENT"]
                  OBVIOUS
            <3>2. new \in ProposalRows
                  BY <1>1, <3>1 DEF ProposalRows
            <3>3. PICK status \in {"IDLE", "RUNNING", "READY"} :
                      status = Generation!Prior(task[w].state.proposal)
                  BY DEF Generation!Prior
            <3>4. Generation!Write(w, new) \/ Generation!WriteStatus(w, status)
                  BY <1>3, <1>6, <3>1, <3>3 DEF Generation!Check
            <3>.  QED BY <3>2, <3>4, ProposalWritten, StatusWritten
      <2>3. GenerationTyped' /\ NoneAsks
            BY <1>1, <1>2, <2>1, <2>2, JobChanges DEF Asking
      <2>.  QED BY <1>2, <2>3
<1>.  QED BY <1>3, <1>5, <1>6 DEF Generation!Check

LEMMA CommitTyped ==
    ASSUME GenerationSizes, GenerationTyped, NEW w \in Workspaces, Generation!Commit(w)
    PROVE  /\ GenerationTyped' /\ task[w].at = "commit" /\ task'[w].at = "done"
           /\ \A v \in Workspaces \ {w} : task'[v] = task[v]
<1>1. /\ post \in [Requests -> Posts] /\ proposal[w] \in ProposalRows /\ task[w] \in Tasks
      /\ used \in Nat /\ tokens \subseteq Workspaces \X (1 .. MaxJobs)
      BY DEF GenerationTyped
<1>2. UNCHANGED <<eligible, post>> /\ task[w].at = "commit"
      BY DEF Generation!Commit
<1>3. /\ task' \in [Workspaces -> Tasks] /\ task'[w].at = "done"
      /\ \A v \in Workspaces \ {w} : task'[v] = task[v]
      <2>1. Generation!Goes(w, "done")
            BY DEF Generation!Commit
      <2>.  QED BY <1>2, <2>1, TaskGoes
<1>4. task[w].count \in 0 .. MaxMail /\ task[w].count > 0 /\ task[w].id \in 1 .. MaxJobs
      BY <1>1, <1>2 DEF Tasks
<1>5. PICK new : new = [proposal[w] EXCEPT !.status = "READY", !.proposal = TRUE,
                                           !.outcome = "SUCCESS", !.base = task[w].count]
      OBVIOUS
<1>6. new \in ProposalRows
      BY <1>1, <1>4, <1>5 DEF ProposalRows
<1>7. Generation!Write(w, new)
      BY <1>5 DEF Generation!Commit
<1>8. proposal' \in [Workspaces -> ProposalRows]
      BY <1>6, <1>7, ProposalWritten
<1>9. used' \in Nat /\ tokens' \subseteq Workspaces \X (1 .. MaxJobs)
      BY <1>1, <1>4 DEF Generation!Commit
<1>.  QED BY <1>2, <1>3, <1>8, <1>9 DEF GenerationTyped

GenerationCounted == tokens = saved /\ IsFiniteSet(tokens) /\ used = Cardinality(tokens)

\* Runs that will charge, should they commit.
Charging == {w \in Workspaces : task[w].at \in Asking /\ <<w, task[w].id>> \notin tokens}

\* A run is charged no more than once, and began while the meter was below the cap.
GenerationRoom == used + Cardinality(Charging) <= Cap + Cardinality(Workspaces) - 1

GenerationInv == GenerationTyped /\ GenerationCounted /\ GenerationRoom

\* The counts of TaxonomyGeneration are those of this module.
LEMMA GenerationCount ==
    \A S : Generation!Cardinality(S) = Cardinality(S)
BY DEF Generation!Cardinality, Cardinality, Generation!IsFiniteSet, IsFiniteSet

LEMMA ChargingFinite ==
    ASSUME GenerationSizes
    PROVE  /\ IsFiniteSet(Charging) /\ Cardinality(Charging) \in Nat
           /\ Cardinality(Workspaces) \in Nat /\ Cardinality(Workspaces) > 0
           /\ Cardinality(Charging) <= Cardinality(Workspaces)
<1>1. Charging \subseteq Workspaces
      BY DEF Charging
<1>2. IsFiniteSet(Charging) /\ Cardinality(Charging) <= Cardinality(Workspaces)
      BY <1>1, FS_Subset DEF GenerationSizes
<1>3. Cardinality(Charging) \in Nat /\ Cardinality(Workspaces) \in Nat
      BY <1>2, FS_CardinalityType DEF GenerationSizes
<1>4. Cardinality(Workspaces) # 0
      BY FS_EmptySet DEF GenerationSizes
<1>.  QED BY <1>2, <1>3, <1>4

LEMMA MeterStays ==
    ASSUME GenerationSizes, GenerationInv, UNCHANGED <<used, tokens, saved>>,
           NoneAsks \/ used < Cap
    PROVE  GenerationCounted' /\ GenerationRoom'
<1>1. GenerationCounted'
      BY DEF GenerationInv, GenerationCounted
<1>2. /\ Cardinality(Charging)' \in Nat /\ Cardinality(Charging) \in Nat
      /\ Cardinality(Charging)' <= Cardinality(Workspaces)
      /\ Cardinality(Workspaces) \in Nat
      <2>1. GenerationSizes'
            BY DEF GenerationSizes
      <2>2. /\ Cardinality(Charging') \in Nat
            /\ Cardinality(Charging') <= Cardinality(Workspaces)
            <3>1. Charging' \subseteq Workspaces
                  BY DEF Charging
            <3>2. /\ IsFiniteSet(Charging')
                  /\ Cardinality(Charging') <= Cardinality(Workspaces)
                  BY <3>1, FS_Subset DEF GenerationSizes
            <3>.  QED BY <3>2, FS_CardinalityType
      <2>.  QED BY <2>2, ChargingFinite
<1>3. used \in Nat /\ Cap \in Nat /\ used' = used
      BY DEF GenerationInv, GenerationTyped, GenerationSizes
<1>4. used + Cardinality(Charging) <= Cap + Cardinality(Workspaces) - 1
      BY DEF GenerationInv, GenerationRoom
<1>5. CASE NoneAsks
      <2>1. Charging' \subseteq Charging
            BY <1>5 DEF Charging, NoneAsks
      <2>2. Cardinality(Charging') <= Cardinality(Charging)
            BY <2>1, ChargingFinite, FS_Subset
      <2>.  QED BY <1>1, <1>2, <1>3, <1>4, <2>2 DEF GenerationRoom
<1>6. CASE used < Cap
      BY <1>1, <1>2, <1>3, <1>6 DEF GenerationRoom
<1>.  QED BY <1>5, <1>6

LEMMA CommitCharges ==
    ASSUME GenerationSizes, GenerationInv, NEW w \in Workspaces, Generation!Commit(w)
    PROVE  GenerationCounted' /\ GenerationRoom'
<1>1. PICK token : token = <<w, task[w].id>>
      OBVIOUS
<1>2. /\ used' = IF token \in tokens THEN used ELSE used + 1
      /\ tokens' = tokens \cup {token} /\ saved' = saved \cup {token}
      /\ task[w].at = "commit"
      BY <1>1 DEF Generation!Commit
<1>3. /\ tokens = saved /\ IsFiniteSet(tokens) /\ used = Cardinality(tokens)
      /\ used \in Nat /\ Cap \in Nat
      /\ used + Cardinality(Charging) <= Cap + Cardinality(Workspaces) - 1
      BY DEF GenerationInv, GenerationTyped, GenerationSizes, GenerationCounted, GenerationRoom
<1>4. GenerationCounted'
      <2>1. /\ IsFiniteSet(tokens \cup {token})
            /\ Cardinality(tokens \cup {token}) =
                  IF token \in tokens THEN Cardinality(tokens) ELSE Cardinality(tokens) + 1
            BY <1>3, FS_AddElement
      <2>2. tokens' = saved' /\ IsFiniteSet(tokens') /\ used' = Cardinality(tokens')
            BY <1>2, <1>3, <2>1
      <2>.  QED BY <2>2 DEF GenerationCounted
<1>5. /\ task'[w].at = "done"
      /\ \A v \in Workspaces \ {w} : task'[v] = task[v]
      BY CommitTyped DEF GenerationInv
<1>6. w \notin Charging'
      BY <1>5 DEF Charging, Asking
<1>7. w \in Charging <=> token \notin tokens
      BY <1>1, <1>2 DEF Charging, Asking
<1>8. \A v \in Workspaces \ {w} : <<v, task[v].id>> # token
      BY <1>1
<1>9. \A v \in Workspaces \ {w} : v \in Charging <=> v \in Charging'
      BY <1>2, <1>5, <1>8 DEF Charging
<1>10. Charging \ {w} = Charging' \ {w}
      BY <1>9 DEF Charging
<1>11. IsFiniteSet(Charging) /\ Cardinality(Charging) \in Nat /\ Cardinality(Workspaces) \in Nat
      BY ChargingFinite
<1>12. /\ Cardinality(Charging') \in Nat
       /\ w \notin Charging => Cardinality(Charging') = Cardinality(Charging)
       /\ w \in Charging => Cardinality(Charging') = Cardinality(Charging) - 1
      BY <1>6, <1>10, <1>11, OneMoves
<1>13. GenerationRoom'
      <2>1. CASE token \in tokens
            BY <1>2, <1>3, <1>7, <1>11, <1>12, <2>1 DEF GenerationRoom
      <2>2. CASE token \notin tokens
            BY <1>2, <1>3, <1>7, <1>11, <1>12, <2>2 DEF GenerationRoom
      <2>.  QED BY <2>1, <2>2
<1>.  QED BY <1>4, <1>13

LEMMA GenerationBegins ==
    ASSUME GenerationSizes, Generation!Init
    PROVE  GenerationInv
<1>1. GenerationTyped
      <2>1. eligible \in [Workspaces -> 0 .. MaxMail]
            BY DEF Generation!Init, GenerationSizes
      <2>.  QED BY <2>1, NoProposal DEF Generation!Init, GenerationTyped
<1>2. GenerationCounted
      BY FS_EmptySet DEF Generation!Init, GenerationCounted
<1>3. Charging = {}
      BY DEF Generation!Init, Charging, Asking, Generation!NoJob
<1>4. Cardinality(Charging) = 0 /\ used = 0
      BY <1>3, FS_EmptySet DEF Generation!Init
<1>5. GenerationRoom
      BY <1>4, ChargingFinite DEF GenerationRoom, GenerationSizes
<1>.  QED BY <1>1, <1>2, <1>5 DEF GenerationInv

LEMMA GenerationStep ==
    ASSUME GenerationSizes, GenerationInv, [Generation!Next]_Generation!vars
    PROVE  GenerationInv'
<1>1. CASE UNCHANGED Generation!vars
      <2>1. UNCHANGED <<eligible, proposal, post, task, used, tokens, saved>>
            BY <1>1 DEF Generation!vars
      <2>.  QED BY <2>1 DEF GenerationInv, GenerationTyped, GenerationCounted, GenerationRoom,
                    Charging
<1>2. CASE \E w \in Workspaces : Generation!Commit(w)
      BY <1>2, CommitTyped, CommitCharges DEF GenerationInv
<1>3. CASE \E w \in Workspaces : Generation!Check(w)
      BY <1>3, CheckTyped, MeterStays DEF GenerationInv
<1>4. ASSUME GenerationTyped', NoneAsks, UNCHANGED <<used, tokens, saved>>
      PROVE  GenerationInv'
      BY <1>4, MeterStays DEF GenerationInv
<1>5. CASE Generation!Later
      <2>1. UNCHANGED <<used, tokens, saved>>
            BY <1>5 DEF Generation!Later
      <2>.  QED BY <1>4, <1>5, <2>1, LaterTyped DEF GenerationInv
<1>6. ASSUME NEW w \in Workspaces,
             \/ Generation!InboxChanges(w) \/ Generation!ConsumeProposal(w)
             \/ Generation!Reset(w) \/ Generation!WriteFailed(w)
      PROVE  GenerationInv'
      <2>1. UNCHANGED <<used, tokens, saved>>
            BY <1>6 DEF Generation!InboxChanges, Generation!ConsumeProposal, Generation!Reset,
                        Generation!WriteFailed
      <2>.  QED BY <1>4, <1>6, <2>1, InboxTyped DEF GenerationInv
<1>7. ASSUME NEW w \in Workspaces,
             \/ Generation!ReadState(w) \/ Generation!JobMarksRunning(w)
             \/ Generation!Generate(w) \/ Generation!Return(w) \/ Generation!Throw(w)
             \/ Generation!Crash(w)
      PROVE  GenerationInv'
      <2>1. UNCHANGED <<used, tokens, saved>>
            BY <1>7 DEF Generation!ReadState, Generation!JobMarksRunning, Generation!Generate,
                        Generation!Return, Generation!Throw, Generation!Crash
      <2>.  QED BY <1>4, <1>7, <2>1, JobTyped DEF GenerationInv
<1>8. ASSUME NEW p \in Requests,
             \/ \E w \in Workspaces : Generation!Admit(p, w)
             \/ Generation!MarkRunning(p) \/ Generation!AddJob(p) \/ Generation!AddFails(p)
      PROVE  GenerationInv'
      <2>1. UNCHANGED <<used, tokens, saved>>
            BY <1>8 DEF Generation!Admit, Generation!MarkRunning, Generation!AddJob,
                        Generation!AddFails
      <2>.  QED BY <1>4, <1>8, <2>1, PostTyped, AddTyped DEF GenerationInv
<1>.  QED BY <1>1, <1>2, <1>3, <1>5, <1>6, <1>7, <1>8 DEF Generation!Next

\* An inbox is charged once for each run that saved a proposal, also when a worker dies
\* after the save and the job runs again; requests that slip past the limiter together
\* overshoot the cap by one run for each other workspace of the inbox, and no more
\* (generate-taxonomy.ts, the transaction).
THEOREM GenerationCharged ==
    ASSUME IsFiniteSet(Workspaces), Workspaces # {},
           Cap \in Nat, MaxMail \in Nat, MaxJobs \in Nat
    PROVE  Generation!Spec =>
               [](/\ Generation!GenerationTypeOK /\ Generation!ChargedForProposals
                  /\ Generation!GenerationOvershootBounded)
<1>1. GenerationSizes
      BY DEF GenerationSizes
<1>2. Generation!Init => GenerationInv
      BY <1>1, GenerationBegins
<1>3. GenerationInv /\ [Generation!Next]_Generation!vars => GenerationInv'
      BY <1>1, GenerationStep
<1>4. ASSUME GenerationInv
      PROVE  /\ Generation!GenerationTypeOK /\ Generation!ChargedForProposals
             /\ Generation!GenerationOvershootBounded
      <2>1. \A w \in Workspaces : proposal[w] \in ProposalRows /\ task[w] \in Tasks
            BY <1>4 DEF GenerationInv, GenerationTyped
      <2>2. Generation!GenerationTypeOK
            BY <1>4, <2>1 DEF GenerationInv, GenerationTyped, ProposalRows, Tasks,
                              Generation!GenerationTypeOK
      <2>3. Generation!ChargedForProposals
            BY <1>4, GenerationCount DEF GenerationInv, GenerationCounted,
                                         Generation!ChargedForProposals
      <2>4. used \in Nat /\ used + Cardinality(Charging) <= Cap + Cardinality(Workspaces) - 1
            BY <1>4 DEF GenerationInv, GenerationTyped, GenerationRoom
      <2>5. used <= Cap + Cardinality(Workspaces) - 1
            BY <1>1, <2>4, ChargingFinite
      <2>6. Generation!GenerationOvershootBounded
            BY <2>5, GenerationCount DEF Generation!GenerationOvershootBounded
      <2>.  QED BY <2>2, <2>3, <2>6
<1>.  QED BY <1>2, <1>3, <1>4, PTL DEF Generation!Spec

-----------------------------------------------------------------------------
(* What lies below a folder.                                                 *)

LEMMA TreeCount ==
    \A S : Tree!Cardinality(S) = Cardinality(S)
BY DEF Tree!Cardinality, Cardinality, Tree!IsFiniteSet, IsFiniteSet

GrowStep(E, N) == N \cup {x[2] : x \in {y \in E : y[1] \in N}}

Grown(E, n, size) ==
    CHOOSE grow : grow = [k \in 0 .. size |->
                             IF k = 0 THEN {n} ELSE GrowStep(E, grow[k - 1])]

LEMMA BelowIs ==
    ASSUME NEW E, NEW n
    PROVE  Tree!Below(E, n) = Grown(E, n, Cardinality(Tree!Nodes))[Cardinality(Tree!Nodes)]
BY TreeCount DEF Tree!Below, Grown, GrowStep

\* The function exists.
LEMMA GrownExists ==
    ASSUME NEW E, NEW n, NEW size \in Nat
    PROVE  Grown(E, n, size) =
               [k \in 0 .. size |-> IF k = 0 THEN {n}
                                    ELSE GrowStep(E, Grown(E, n, size)[k - 1])]
<1>.  DEFINE Starts(m) ==
                 \E g : g = [k \in 0 .. m |-> IF k = 0 THEN {n} ELSE GrowStep(E, g[k - 1])]
             Bad == {m \in Nat : ~Starts(m)}
<1>1. Bad = {}
      <2>1. SUFFICES ASSUME Bad # {} PROVE FALSE
            OBVIOUS
      <2>2. PICK m \in Bad : \A d \in Bad : m <= d
            BY <2>1, LeastNumber
      <2>3. CASE m = 0
            <3>1. PICK g : g = [k \in 0 .. 0 |-> {n}]
                  OBVIOUS
            <3>2. g = [k \in 0 .. 0 |-> IF k = 0 THEN {n} ELSE GrowStep(E, g[k - 1])]
                  BY <3>1
            <3>.  QED BY <2>2, <2>3, <3>2
      <2>4. CASE m > 0
            <3>0. m \in Nat
                  BY <2>2
            <3>1. m - 1 \in Nat /\ m - 1 \notin Bad /\ m \in Nat
                  <4>1. m - 1 \in Nat /\ ~(m <= m - 1)
                        BY <2>4, <3>0
                  <4>.  QED BY <2>2, <3>0, <4>1
            <3>2. PICK g : g = [k \in 0 .. m - 1 |-> IF k = 0 THEN {n} ELSE GrowStep(E, g[k - 1])]
                  BY <3>1
            <3>3. PICK h : h = [k \in 0 .. m |-> IF k = m THEN GrowStep(E, g[m - 1]) ELSE g[k]]
                  OBVIOUS
            <3>4. ASSUME NEW k \in 0 .. m
                  PROVE  h[k] = IF k = 0 THEN {n} ELSE GrowStep(E, h[k - 1])
                  <4>1. CASE k = m
                        <5>1. m - 1 \in 0 .. m /\ m - 1 # m
                              BY <3>1
                        <5>2. h[k] = GrowStep(E, g[m - 1]) /\ h[m - 1] = g[m - 1]
                              BY <3>3, <4>1, <5>1
                        <5>.  QED BY <2>4, <4>1, <5>2
                  <4>2. CASE k # m
                        <5>1. k \in 0 .. m - 1 /\ h[k] = g[k]
                              BY <3>1, <3>3, <4>2
                        <5>2. g[k] = IF k = 0 THEN {n} ELSE GrowStep(E, g[k - 1])
                              BY <3>2, <5>1
                        <5>3. k # 0 => k - 1 \in 0 .. m /\ k - 1 # m
                              BY <3>1, <5>1
                        <5>4. k # 0 => h[k - 1] = g[k - 1]
                              BY <3>3, <5>3
                        <5>.  QED BY <5>1, <5>2, <5>4
                  <4>.  QED BY <4>1, <4>2
            <3>5. h = [k \in 0 .. m |-> IF k = 0 THEN {n} ELSE GrowStep(E, h[k - 1])]
                  BY <3>3, <3>4
            <3>.  QED BY <2>2, <3>5
      <2>5. m \in Nat
            BY <2>2
      <2>.  QED BY <2>3, <2>4, <2>5
<1>2. Starts(size)
      BY <1>1
<1>.  QED BY <1>2 DEF Grown

\* An edge leads on from what lies below to what lies below.
Closed(E, N) == \A x \in E : x[1] \in N => x[2] \in N

LEMMA BelowStays ==
    ASSUME NEW E, NEW n, IsFiniteSet(Tree!Nodes), NEW N, n \in N, Closed(E, N)
    PROVE  Tree!Below(E, n) \subseteq N
<1>.  DEFINE size == Cardinality(Tree!Nodes)
             Bad == {k \in 0 .. size : ~(Grown(E, n, size)[k] \subseteq N)}
<1>1. size \in Nat
      BY FS_CardinalityType
<1>.  HIDE DEF size
<1>2. Bad = {}
      <2>1. SUFFICES ASSUME Bad # {} PROVE FALSE
            OBVIOUS
      <2>2. PICK k \in Bad : \A d \in Bad : k <= d
            <3>1. Bad \subseteq Nat
                  BY <1>1
            <3>.  QED BY <2>1, <3>1, LeastNumber
      <2>3. k \in 0 .. size
            BY <2>2
      <2>4. CASE k = 0
            <3>1. Grown(E, n, size)[k] = {n}
                  BY <1>1, <2>3, <2>4, GrownExists
            <3>.  QED BY <2>2, <3>1
      <2>5. CASE k # 0
            <3>1. k - 1 \in 0 .. size /\ k - 1 < k
                  BY <1>1, <2>3, <2>5
            <3>2. k - 1 \notin Bad
                  BY <1>1, <2>2, <3>1
            <3>3. Grown(E, n, size)[k - 1] \subseteq N
                  BY <3>1, <3>2
            <3>4. Grown(E, n, size)[k] = GrowStep(E, Grown(E, n, size)[k - 1])
                  BY <1>1, <2>3, <2>5, GrownExists
            <3>5. Grown(E, n, size)[k] \subseteq N
                  BY <3>3, <3>4 DEF GrowStep, Closed
            <3>.  QED BY <2>2, <3>5
      <2>.  QED BY <2>4, <2>5
<1>3. Grown(E, n, size)[size] \subseteq N
      BY <1>1, <1>2
<1>.  QED BY <1>3, BelowIs DEF size

LEMMA BelowCloses ==
    ASSUME NEW E, NEW n \in Tree!Nodes, IsFiniteSet(Tree!Nodes),
           E \subseteq Tree!Nodes \X Tree!Nodes
    PROVE  /\ n \in Tree!Below(E, n) /\ Tree!Below(E, n) \subseteq Tree!Nodes
           /\ Closed(E, Tree!Below(E, n))
<1>.  DEFINE size == Cardinality(Tree!Nodes)
             Level(k) == Grown(E, n, size)[k]
             Bad == {k \in 0 .. size :
                        ~(/\ n \in Level(k) /\ Level(k) \subseteq Tree!Nodes
                          /\ Closed(E, Level(k)) \/ Cardinality(Level(k)) > k)}
<1>1. size \in Nat
      BY FS_CardinalityType
<1>2. /\ Level(0) = {n}
      /\ \A k \in 0 .. size : k # 0 => Level(k) = GrowStep(E, Level(k - 1))
      <2>1. Grown(E, n, size) = [k \in 0 .. size |-> IF k = 0 THEN {n}
                                    ELSE GrowStep(E, Grown(E, n, size)[k - 1])]
            BY <1>1, GrownExists
      <2>2. \A k \in 0 .. size :
                Level(k) = IF k = 0 THEN {n} ELSE GrowStep(E, Level(k - 1))
            BY <2>1
      <2>3. 0 \in 0 .. size
            BY <1>1
      <2>.  QED BY <2>2, <2>3
<1>.  HIDE DEF size, Level
<1>3. Bad = {}
      <2>1. SUFFICES ASSUME Bad # {} PROVE FALSE
            OBVIOUS
      <2>2. PICK k \in Bad : \A d \in Bad : k <= d
            <3>1. Bad \subseteq Nat
                  BY <1>1
            <3>.  QED BY <2>1, <3>1, LeastNumber
      <2>3. k \in 0 .. size
            BY <2>2
      <2>4. CASE k = 0
            <3>1. Cardinality(Level(0)) = 1
                  BY <1>2, FS_Singleton
            <3>.  QED BY <1>2, <2>2, <2>4, <3>1
      <2>5. CASE k # 0
            <3>1. k - 1 \in 0 .. size /\ k - 1 < k
                  BY <1>1, <2>3, <2>5
            <3>2. k - 1 \notin Bad
                  BY <1>1, <2>2, <3>1
            <3>3. /\ n \in Level(k - 1) /\ Level(k - 1) \subseteq Tree!Nodes
                  /\ Closed(E, Level(k - 1)) \/ Cardinality(Level(k - 1)) > k - 1
                  BY <3>1, <3>2
            <3>4. Level(k) = GrowStep(E, Level(k - 1))
                  BY <1>2, <2>3, <2>5
            <3>5. n \in Level(k) /\ Level(k) \subseteq Tree!Nodes /\ Level(k - 1) \subseteq Level(k)
                  BY <3>3, <3>4 DEF GrowStep
            <3>6. CASE Closed(E, Level(k - 1))
                  <4>1. Level(k) = Level(k - 1)
                        BY <3>4, <3>6 DEF GrowStep, Closed
                  <4>.  QED BY <2>2, <3>5, <3>6, <4>1
            <3>7. CASE ~Closed(E, Level(k - 1))
                  <4>1. PICK x \in E : x[1] \in Level(k - 1) /\ x[2] \notin Level(k - 1)
                        BY <3>7 DEF Closed
                  <4>2. x[2] \in Level(k)
                        BY <3>4, <4>1 DEF GrowStep
                  <4>3. IsFiniteSet(Level(k)) /\ IsFiniteSet(Level(k - 1))
                        BY <3>3, <3>5, FS_Subset
                  <4>4. Cardinality(Level(k - 1)) < Cardinality(Level(k))
                        <5>1. Level(k - 1) # Level(k)
                              BY <4>1, <4>2
                        <5>2. /\ Cardinality(Level(k - 1)) <= Cardinality(Level(k))
                              /\ Cardinality(Level(k)) = Cardinality(Level(k - 1)) =>
                                    Level(k) = Level(k - 1)
                              BY <3>5, <4>3, FS_Subset
                        <5>3. Cardinality(Level(k - 1)) \in Nat /\ Cardinality(Level(k)) \in Nat
                              BY <4>3, FS_CardinalityType
                        <5>.  QED BY <5>1, <5>2, <5>3
                  <4>5. /\ Cardinality(Level(k - 1)) \in Nat /\ Cardinality(Level(k)) \in Nat
                        /\ Cardinality(Level(k - 1)) > k - 1
                        BY <3>3, <3>7, <4>3, FS_CardinalityType
                  <4>6. Cardinality(Level(k)) > k
                        BY <2>3, <4>4, <4>5
                  <4>.  QED BY <2>2, <3>5, <4>6
            <3>.  QED BY <3>6, <3>7
      <2>.  QED BY <2>4, <2>5
<1>4. /\ n \in Level(size) /\ Level(size) \subseteq Tree!Nodes
      /\ Closed(E, Level(size)) \/ Cardinality(Level(size)) > size
      BY <1>1, <1>3
<1>5. Cardinality(Level(size)) <= size /\ Cardinality(Level(size)) \in Nat
      <2>1. IsFiniteSet(Level(size)) /\ Cardinality(Level(size)) <= Cardinality(Tree!Nodes)
            BY <1>4, FS_Subset
      <2>.  QED BY <2>1, FS_CardinalityType DEF size
<1>6. Closed(E, Level(size))
      BY <1>1, <1>4, <1>5
<1>.  QED BY <1>4, <1>6, BelowIs DEF size, Level

\* Fewer edges lead to fewer nodes, and close no cycle.
LEMMA FewerBelow ==
    ASSUME NEW E, NEW D, NEW n \in Tree!Nodes, IsFiniteSet(Tree!Nodes),
           E \subseteq Tree!Nodes \X Tree!Nodes, D \subseteq E
    PROVE  Tree!Below(D, n) \subseteq Tree!Below(E, n)
<1>1. n \in Tree!Below(E, n) /\ Closed(E, Tree!Below(E, n))
      BY BelowCloses
<1>2. Closed(D, Tree!Below(E, n))
      BY <1>1 DEF Closed
<1>.  QED BY <1>1, <1>2, BelowStays

LEMMA FewerAcyclic ==
    ASSUME NEW E, NEW D, IsFiniteSet(Tree!Nodes), E \subseteq Tree!Nodes \X Tree!Nodes,
           D \subseteq E, Tree!Acyclic(E)
    PROVE  Tree!Acyclic(D)
<1>1. SUFFICES ASSUME NEW x \in D PROVE x[1] \notin Tree!Below(D, x[2])
      BY DEF Tree!Acyclic
<1>2. x \in E /\ x[2] \in Tree!Nodes
      OBVIOUS
<1>3. Tree!Below(D, x[2]) \subseteq Tree!Below(E, x[2])
      BY <1>2, FewerBelow
<1>.  QED BY <1>2, <1>3 DEF Tree!Acyclic

\* hasCycle: an edge closes no cycle when its source does not lie below its target.
LEMMA EdgeAcyclic ==
    ASSUME NEW E, NEW s \in Tree!Nodes, NEW t \in Tree!Nodes, IsFiniteSet(Tree!Nodes),
           E \subseteq Tree!Nodes \X Tree!Nodes, Tree!Acyclic(E), s \notin Tree!Below(E, t)
    PROVE  Tree!Acyclic(E \cup {<<s, t>>})
<1>.  DEFINE D == E \cup {<<s, t>>}
             C(n) == Tree!Below(E, n) \cup
                        (IF s \in Tree!Below(E, n) THEN Tree!Below(E, t) ELSE {})
<1>1. \A n \in Tree!Nodes : n \in Tree!Below(E, n) /\ Closed(E, Tree!Below(E, n))
      BY BelowCloses
<1>2. ASSUME NEW n \in Tree!Nodes
      PROVE  Tree!Below(D, n) \subseteq C(n)
      <2>1. n \in C(n)
            BY <1>1
      <2>2. Closed(D, C(n))
            <3>1. ASSUME NEW x \in D, x[1] \in C(n)
                  PROVE  x[2] \in C(n)
                  <4>1. CASE x \in E
                        BY <1>1, <3>1, <4>1 DEF Closed
                  <4>2. CASE x = <<s, t>>
                        <5>1. s \in Tree!Below(E, n) /\ t \in Tree!Below(E, t)
                              BY <1>1, <3>1, <4>2
                        <5>.  QED BY <4>2, <5>1
                  <4>.  QED BY <4>1, <4>2
            <3>.  QED BY <3>1 DEF Closed
      <2>.  QED BY <2>1, <2>2, BelowStays
<1>3. ASSUME NEW x \in D, x[1] \in Tree!Below(D, x[2])
      PROVE  FALSE
      <2>1. x[2] \in Tree!Nodes /\ x[1] \in C(x[2])
            <3>1. x[2] \in Tree!Nodes
                  OBVIOUS
            <3>.  QED BY <1>2, <1>3, <3>1
      <2>2. CASE x = <<s, t>>
            <3>1. s \in C(t)
                  BY <2>1, <2>2
            <3>.  QED BY <3>1
      <2>3. CASE x \in E
            <3>1. x[1] \notin Tree!Below(E, x[2])
                  BY <2>3 DEF Tree!Acyclic
            <3>2. s \in Tree!Below(E, x[2]) /\ x[1] \in Tree!Below(E, t)
                  BY <2>1, <3>1
            <3>3. x[2] \in Tree!Below(E, t)
                  BY <1>1, <2>3, <3>2 DEF Closed
            <3>4. Tree!Below(E, x[2]) \subseteq Tree!Below(E, t)
                  <4>1. Closed(E, Tree!Below(E, t))
                        BY <1>1
                  <4>.  QED BY <2>1, <3>3, <4>1, BelowStays
            <3>.  QED BY <3>2, <3>4
      <2>.  QED BY <2>2, <2>3
<1>.  QED BY <1>3 DEF Tree!Acyclic

-----------------------------------------------------------------------------
(* The folder tree (TaxonomyTree): what its requests have read.              *)

\* Ids are distinct, the workspace is seeded within the cap.
TreeSizes ==
    /\ IsFiniteSet(Editors) /\ Editors # {}
    /\ IsFiniteSet(Folders) /\ IsFiniteSet(Fresh)
    /\ Cap \in Nat /\ MaxRaces \in Nat
    /\ NoNode \notin Tree!Nodes
    /\ Inbox \notin {CatchAll} \cup Folders \cup Fresh /\ CatchAll \notin Folders \cup Fresh
    /\ Folders \cap Fresh = {}
    /\ Cardinality({CatchAll} \cup Folders) <= Cap

Roles == {"root", "catchall", "folder", "unborn", "gone"}

TreeOps ==
    [at : {"idle", "parentless", "connecting", "unmoved", "moving", "counted", "leaf",
           "emptied", "cut", "wiped", "rootless", "rooted", "catchless"},
     source : Tree!Nodes \cup {NoNode}, target : Tree!Nodes \cup {NoNode},
     into : Tree!Nodes \cup {NoNode}, filled : BOOLEAN, hung : BOOLEAN, gone : BOOLEAN,
     raced : Nat, late : SUBSET Threads]

TreeTyped ==
    /\ role \in [Tree!Nodes -> Roles]
    /\ edges \subseteq Tree!Live \X Tree!Live
    /\ filed \in [Threads -> Tree!Live \cup {NoNode}]
    /\ ops \in [Editors -> TreeOps]
    /\ races \in 0 .. MaxRaces

\* What a request knows stays what it knows.
Keeps(x) ==
    /\ ops'[x].at = ops[x].at /\ ops'[x].source = ops[x].source
    /\ ops'[x].target = ops[x].target /\ ops'[x].into = ops[x].into
    /\ ops'[x].filled = ops[x].filled

LEMMA IdleIs ==
    Tree!Idle \in TreeOps /\ Tree!Idle.at = "idle"
BY DEF TreeOps, Tree!Idle

LEMMA StepOps ==
    ASSUME TreeTyped, NEW e \in Editors, NEW op \in TreeOps, Tree!Step(e, op)
    PROVE  /\ ops' \in [Editors -> TreeOps] /\ ops'[e] = op /\ races' = races
           /\ \A x \in Editors \ {e} : ops'[x] = ops[x] /\ Keeps(x)
<1>1. ops' = [ops EXCEPT ![e] = op] /\ races' = races
      BY DEF Tree!Step
<1>.  QED BY <1>1 DEF TreeTyped, Keeps

\* A write of the tree comes between the checks and the writes of the others.
LEMMA WrittenOps ==
    ASSUME TreeSizes, TreeTyped, NEW e \in Editors, NEW op \in TreeOps, NEW removed,
           Tree!TreeWritten(e, removed, op)
    PROVE  /\ ops' \in [Editors -> TreeOps] /\ ops'[e] = op /\ races' \in 0 .. MaxRaces
           /\ races' = 0 => races = 0 /\ ops[e].raced = 0
           /\ \A x \in Editors \ {e} :
                 /\ Keeps(x) /\ ops'[x].late = ops[x].late
                 /\ ops[x].at = "idle" \/ ops'[x].raced > 0
<1>1. ops' = [x \in Editors |-> IF x = e THEN op ELSE Tree!After(ops[x], removed)]
      BY DEF Tree!TreeWritten
<1>2. /\ races \in Nat /\ MaxRaces \in Nat /\ ops[e].raced \in Nat
      /\ races' = races + ops[e].raced /\ races' <= MaxRaces
      BY DEF Tree!TreeWritten, TreeTyped, TreeSizes, TreeOps
<1>3. ASSUME NEW x \in Editors \ {e}
      PROVE  /\ ops'[x] \in TreeOps /\ Keeps(x) /\ ops'[x].late = ops[x].late
             /\ ops[x].at = "idle" \/ ops'[x].raced > 0
      <2>1. ops[x] \in TreeOps /\ ops'[x] = Tree!After(ops[x], removed)
            BY <1>1 DEF TreeTyped
      <2>2. CASE ops[x].at = "idle"
            <3>1. ops'[x] = ops[x]
                  BY <2>1, <2>2 DEF Tree!After
            <3>.  QED BY <2>1, <2>2, <3>1 DEF Keeps
      <2>3. CASE ops[x].at # "idle"
            <3>1. PICK raced : raced = IF ops[x].raced > MaxRaces THEN ops[x].raced
                                       ELSE ops[x].raced + 1
                  OBVIOUS
            <3>2. PICK gone \in BOOLEAN :
                      gone = (ops[x].gone \/ <<ops[x].source, ops[x].target>> \in removed)
                  OBVIOUS
            <3>3. ops[x].raced \in Nat
                  BY <2>1 DEF TreeOps
            <3>4. raced \in Nat /\ raced > 0
                  BY <1>2, <3>1, <3>3
            <3>5. ops'[x] = [ops[x] EXCEPT !.raced = raced, !.gone = gone]
                  BY <2>1, <2>3, <3>1, <3>2 DEF Tree!After
            <3>6. ops'[x].raced = raced
                  BY <2>1, <3>5 DEF TreeOps
            <3>7. ops'[x] \in TreeOps
                  BY <2>1, <3>4, <3>5 DEF TreeOps
            <3>8. Keeps(x) /\ ops'[x].late = ops[x].late
                  BY <2>1, <3>5 DEF TreeOps, Keeps
            <3>.  QED BY <3>4, <3>6, <3>7, <3>8
      <2>.  QED BY <2>2, <2>3
<1>4. ops'[e] = op
      BY <1>1
<1>5. ops' \in [Editors -> TreeOps]
      <2>1. \A x \in Editors : ops'[x] \in TreeOps
            BY <1>3, <1>4
      <2>.  QED BY <1>1, <2>1
<1>6. races' \in 0 .. MaxRaces /\ (races' = 0 => races = 0 /\ ops[e].raced = 0)
      BY <1>2
<1>.  QED BY <1>3, <1>4, <1>5, <1>6

\* A request that loses the edge it read learns of it.
LEMMA RemovedOps ==
    ASSUME TreeTyped, NEW e \in Editors, NEW op \in TreeOps, NEW removed,
           Tree!EdgesRemoved(e, removed, op)
    PROVE  /\ ops' \in [Editors -> TreeOps] /\ ops'[e] = op /\ races' = races
           /\ edges' = edges \ removed
           /\ \A x \in Editors \ {e} :
                 /\ Keeps(x) /\ ops'[x].late = ops[x].late /\ ops'[x].raced = ops[x].raced
                 /\ ~ops'[x].gone => /\ ~ops[x].gone
                                     /\ <<ops[x].source, ops[x].target>> \notin removed
<1>1. /\ ops' = [x \in Editors |-> IF x = e THEN op
                   ELSE [ops[x] EXCEPT !.gone =
                           ops[x].gone \/ <<ops[x].source, ops[x].target>> \in removed]]
      /\ edges' = edges \ removed /\ races' = races
      BY DEF Tree!EdgesRemoved
<1>2. ASSUME NEW x \in Editors \ {e}
      PROVE  /\ ops'[x] \in TreeOps
             /\ Keeps(x) /\ ops'[x].late = ops[x].late /\ ops'[x].raced = ops[x].raced
             /\ ~ops'[x].gone => /\ ~ops[x].gone
                                 /\ <<ops[x].source, ops[x].target>> \notin removed
      <2>1. ops[x] \in TreeOps
            BY DEF TreeTyped
      <2>2. PICK gone \in BOOLEAN :
                gone = (ops[x].gone \/ <<ops[x].source, ops[x].target>> \in removed)
            OBVIOUS
      <2>3. ops'[x] = [ops[x] EXCEPT !.gone = gone]
            BY <1>1, <2>2
      <2>4. ops'[x] \in TreeOps /\ ops'[x].gone = gone /\ Keeps(x)
            BY <2>1, <2>3 DEF TreeOps, Keeps
      <2>5. ops'[x].late = ops[x].late /\ ops'[x].raced = ops[x].raced
            BY <2>1, <2>3 DEF TreeOps
      <2>.  QED BY <2>2, <2>4, <2>5
<1>3. ops'[e] = op
      BY <1>1
<1>4. ops' \in [Editors -> TreeOps]
      <2>1. \A x \in Editors : ops'[x] \in TreeOps
            BY <1>2, <1>3
      <2>.  QED BY <1>1, <2>1
<1>.  QED BY <1>1, <1>2, <1>3, <1>4

Born(n) == n \in Tree!Nodes /\ role[n] # "unborn"

\* canHold of two nodes, of which one may be gone by now.
MayHold(s, t) ==
    /\ role[s] # "catchall" /\ role[t] # "root"
    /\ role[t] = "catchall" => role[s] \in {"root", "gone"}

\* Nobody wrote the tree since the request x began to check.
Unraced(x) == races = 0 /\ ops[x].raced = 0

\* What the requests know while nobody writes the tree between their steps.
Connects(x) ==
    ops[x].at \in {"parentless", "connecting"} =>
        /\ Born(ops[x].source) /\ Born(ops[x].target)
        /\ Unraced(x) =>
              /\ MayHold(ops[x].source, ops[x].target)
              /\ ~Tree!HasParent(edges, ops[x].target)
              /\ ops[x].at = "connecting" =>
                    ops[x].source \notin Tree!Below(edges, ops[x].target)

Moves(x) ==
    ops[x].at \in {"unmoved", "moving"} =>
        /\ Born(ops[x].source) /\ Born(ops[x].target) /\ Born(ops[x].into)
        /\ Unraced(x) =>
              /\ MayHold(ops[x].into, ops[x].target)
              /\ ~ops[x].gone => <<ops[x].source, ops[x].target>> \in edges
              /\ ops[x].at = "moving" =>
                    ops[x].into \notin Tree!Below(edges, ops[x].target)

Seeds(x) ==
    /\ ops[x].at \in {"rooted", "catchless"} =>
          Born(ops[x].into) /\ role[ops[x].into] \in {"root", "gone"}
    /\ Unraced(x) =>
          /\ ops[x].at = "rootless" => \A n \in Tree!Nodes : role[n] # "root"
          /\ ops[x].at = "catchless" => \A n \in Tree!Nodes : role[n] # "catchall"

\* A request that empties a folder knows of every thread that came to it since.
Deletes(x) ==
    ops[x].at \in {"leaf", "emptied", "cut"} =>
        /\ Born(ops[x].target) /\ role[ops[x].target] \in {"folder", "gone"}
        /\ Tree!Emptied(ops[x]) /\ ops[x].into \notin {NoNode, ops[x].target} =>
              \A t \in Threads : filed[t] = ops[x].target => t \in ops[x].late

Knows(x) == Connects(x) /\ Moves(x) /\ Seeds(x)

\* One root, one catch-all, one parent for a folder, no cycle.
TreeShape ==
    races = 0 =>
        /\ \A m, n \in Tree!Live : role[m] = role[n] /\ role[m] # "folder" => m = n
        /\ \A x \in edges : MayHold(x[1], x[2])
        /\ \A x, y \in edges : x[2] = y[2] => x = y
        /\ Tree!Acyclic(edges)

TreeInv ==
    /\ TreeTyped /\ TreeShape
    /\ \A x \in Editors : Knows(x) /\ Deletes(x)

\* A node that exists keeps its role until it is gone, and its id is not used again.
Aging == \A n \in Tree!Nodes : role[n] # "unborn" => role'[n] \in {role[n], "gone"}

\* Beside that, folders come.
Quiet ==
    /\ \A n \in Tree!Nodes : \/ role'[n] = role[n]
                             \/ role[n] # "unborn" /\ role'[n] = "gone"
                             \/ role[n] = "unborn" /\ role'[n] = "folder"
    /\ edges' \subseteq edges /\ races' = races

LEMMA NodesFinite ==
    ASSUME TreeSizes
    PROVE  /\ IsFiniteSet(Tree!Nodes)
           /\ \A E : E \subseteq Tree!Live \X Tree!Live => E \subseteq Tree!Nodes \X Tree!Nodes
<1>1. IsFiniteSet({Inbox}) /\ IsFiniteSet({CatchAll}) /\ {Inbox, CatchAll} = {Inbox} \cup {CatchAll}
      BY FS_Singleton
<1>2. IsFiniteSet({Inbox, CatchAll})
      BY <1>1, FS_Union
<1>3. IsFiniteSet({Inbox, CatchAll} \cup Folders)
      BY <1>2, FS_Union DEF TreeSizes
<1>4. IsFiniteSet(Tree!Nodes)
      BY <1>3, FS_Union DEF TreeSizes, Tree!Nodes
<1>5. Tree!Live \subseteq Tree!Nodes
      BY DEF Tree!Live
<1>.  QED BY <1>4, <1>5

\* While nobody writes the tree a request goes on knowing what it knew.
LEMMA QuietKnows ==
    ASSUME TreeSizes, TreeTyped, NEW x \in Editors, Knows(x), Quiet, Keeps(x),
           ops'[x].raced = ops[x].raced,
           ~ops'[x].gone => /\ ~ops[x].gone
                            /\ <<ops[x].source, ops[x].target>> \in edges =>
                                  <<ops[x].source, ops[x].target>> \in edges'
    PROVE  Knows(x)'
<1>1. \A n \in Tree!Nodes : role[n] \in Roles
      BY DEF TreeTyped
<1>2. \A n : Born(n) => Born(n)'
      BY DEF Born, Quiet
<1>3. \A m, n : Born(m) /\ Born(n) /\ MayHold(m, n) => MayHold(m, n)'
      BY DEF Born, MayHold, Quiet
<1>4. \A n \in Tree!Nodes : Tree!Below(edges', n) \subseteq Tree!Below(edges, n)
      BY NodesFinite, FewerBelow DEF TreeTyped, Quiet
<1>5. \A n : Tree!HasParent(edges', n) => Tree!HasParent(edges, n)
      BY DEF Quiet, Tree!HasParent
<1>6. Unraced(x)' => Unraced(x)
      BY DEF Unraced, Quiet
<1>7. Connects(x)'
      <2>1. ASSUME ops[x].at \in {"parentless", "connecting"}
            PROVE  Connects(x)'
            <3>1. Born(ops[x].source)' /\ Born(ops[x].target)'
                  BY <1>2, <2>1 DEF Knows, Connects, Keeps
            <3>2. ASSUME Unraced(x)'
                  PROVE  /\ MayHold(ops[x].source, ops[x].target)'
                         /\ ~Tree!HasParent(edges', ops[x].target)
                         /\ ops[x].at = "connecting" =>
                               ops[x].source \notin Tree!Below(edges', ops[x].target)
                  BY <1>3, <1>4, <1>5, <1>6, <2>1, <3>2 DEF Knows, Connects, Born, Keeps
            <3>.  QED BY <3>1, <3>2 DEF Connects, Keeps
      <2>.  QED BY <2>1 DEF Connects, Keeps
<1>8. Moves(x)'
      <2>1. ASSUME ops[x].at \in {"unmoved", "moving"}
            PROVE  Moves(x)'
            <3>1. Born(ops[x].source)' /\ Born(ops[x].target)' /\ Born(ops[x].into)'
                  BY <1>2, <2>1 DEF Knows, Moves, Keeps
            <3>2. ASSUME Unraced(x)'
                  PROVE  /\ MayHold(ops[x].into, ops[x].target)'
                         /\ ~ops'[x].gone => <<ops[x].source, ops[x].target>> \in edges'
                         /\ ops[x].at = "moving" =>
                               ops[x].into \notin Tree!Below(edges', ops[x].target)
                  BY <1>3, <1>4, <1>6, <2>1, <3>2 DEF Knows, Moves, Born, Keeps
            <3>.  QED BY <3>1, <3>2 DEF Moves, Keeps
      <2>.  QED BY <2>1 DEF Moves, Keeps
<1>9. Seeds(x)'
      BY <1>1, <1>2, <1>6 DEF Knows, Seeds, Born, Keeps, Quiet
<1>.  QED BY <1>7, <1>8, <1>9 DEF Knows

\* When somebody writes it, the request counts a race.
LEMMA RacedKnows ==
    ASSUME TreeTyped, NEW x \in Editors, Knows(x), Aging, Keeps(x),
           ops[x].at = "idle" \/ ops'[x].raced > 0
    PROVE  Knows(x)'
<1>1. \A n : Born(n) => Born(n)'
      BY DEF Born, Aging
<1>2. CASE ops[x].at = "idle"
      <2>1. ops'[x].at = "idle"
            BY <1>2 DEF Keeps
      <2>.  QED BY <2>1 DEF Knows, Connects, Moves, Seeds
<1>3. CASE ops'[x].raced > 0
      <2>1. ~Unraced(x)'
            BY <1>3 DEF Unraced
      <2>2. Connects(x)'
            BY <1>1, <2>1 DEF Knows, Connects, Keeps
      <2>3. Moves(x)'
            BY <1>1, <2>1 DEF Knows, Moves, Keeps
      <2>4. Seeds(x)'
            BY <1>1, <2>1 DEF Knows, Seeds, Keeps, Aging, Born
      <2>.  QED BY <2>2, <2>3, <2>4 DEF Knows
<1>.  QED BY <1>2, <1>3

LEMMA DeletesKept ==
    ASSUME NEW x \in Editors, Deletes(x), Aging, Keeps(x), ops[x].late \subseteq ops'[x].late,
           ops[x].at \in {"leaf", "emptied", "cut"} /\ Tree!Emptied(ops[x]) =>
               \A t \in Threads : filed'[t] = ops[x].target =>
                   filed[t] = ops[x].target \/ t \in ops'[x].late
    PROVE  Deletes(x)'
<1>1. \A n : Born(n) => Born(n)'
      BY DEF Born, Aging
<1>2. Tree!Emptied(ops[x])' = Tree!Emptied(ops[x])
      BY DEF Tree!Emptied, Keeps
<1>.  QED BY <1>1, <1>2 DEF Deletes, Keeps, Aging, Born

LEMMA ShapeStays ==
    ASSUME TreeSizes, TreeTyped, TreeShape, Quiet, edges' \subseteq Tree!Live' \X Tree!Live'
    PROVE  TreeShape'
<1>1. SUFFICES ASSUME races = 0 PROVE
          /\ \A m, n \in Tree!Live' : role'[m] = role'[n] /\ role'[m] # "folder" => m = n
          /\ \A x \in edges' : MayHold(x[1], x[2])'
          /\ \A x, y \in edges' : x[2] = y[2] => x = y
          /\ Tree!Acyclic(edges')
      BY DEF TreeShape, Quiet
<1>2. /\ \A m, n \in Tree!Live : role[m] = role[n] /\ role[m] # "folder" => m = n
      /\ \A x \in edges : MayHold(x[1], x[2])
      /\ \A x, y \in edges : x[2] = y[2] => x = y
      /\ Tree!Acyclic(edges)
      BY <1>1 DEF TreeShape
<1>3. \A m, n \in Tree!Live' : role'[m] = role'[n] /\ role'[m] # "folder" => m = n
      BY <1>2 DEF Quiet, Tree!Live
<1>4. ASSUME NEW x \in edges'
      PROVE  MayHold(x[1], x[2])'
      <2>1. /\ x \in edges /\ x[1] \in Tree!Live /\ x[2] \in Tree!Live
            /\ x[1] \in Tree!Live' /\ x[2] \in Tree!Live'
            BY DEF Quiet, TreeTyped
      <2>2. role'[x[1]] = role[x[1]] /\ role'[x[2]] = role[x[2]]
            BY <2>1 DEF Quiet, Tree!Live
      <2>.  QED BY <1>2, <2>1, <2>2 DEF MayHold
<1>5. Tree!Acyclic(edges')
      BY <1>2, NodesFinite, FewerAcyclic DEF TreeTyped, Quiet
<1>.  QED BY <1>2, <1>3, <1>4, <1>5 DEF Quiet

\* The steps of other requests do not change.
OthersKeep(e) == \A x \in Editors \ {e} : Keeps(x)

LEMMA QuietInv ==
    ASSUME TreeSizes, TreeInv, NEW e \in Editors, Quiet, TreeTyped', Knows(e)', Deletes(e)',
           \A x \in Editors \ {e} :
               /\ Keeps(x) /\ ops[x].late \subseteq ops'[x].late
               /\ ops'[x].raced = ops[x].raced
               /\ ~ops'[x].gone => /\ ~ops[x].gone
                                   /\ <<ops[x].source, ops[x].target>> \in edges =>
                                         <<ops[x].source, ops[x].target>> \in edges'
               /\ ops[x].at \in {"leaf", "emptied", "cut"} /\ Tree!Emptied(ops[x]) =>
                     \A t \in Threads : filed'[t] = ops[x].target =>
                         filed[t] = ops[x].target \/ t \in ops'[x].late
    PROVE  TreeInv' /\ OthersKeep(e)
<1>1. TreeTyped /\ TreeShape /\ \A x \in Editors : Knows(x) /\ Deletes(x)
      BY DEF TreeInv
<1>2. Aging
      BY DEF Aging, Quiet
<1>3. \A x \in Editors \ {e} : Knows(x)'
      BY <1>1, QuietKnows
<1>4. \A x \in Editors \ {e} : Deletes(x)'
      BY <1>1, <1>2, DeletesKept
<1>5. edges' \subseteq Tree!Live' \X Tree!Live'
      BY DEF TreeTyped
<1>6. TreeShape'
      BY <1>1, <1>5, ShapeStays
<1>.  QED BY <1>3, <1>4, <1>6 DEF TreeInv, OthersKeep

LEMMA RacedInv ==
    ASSUME TreeInv, NEW e \in Editors, Aging, TreeTyped', TreeShape', Knows(e)', Deletes(e)',
           \A x \in Editors \ {e} :
               /\ Keeps(x) /\ ops[x].late \subseteq ops'[x].late
               /\ ops[x].at = "idle" \/ ops'[x].raced > 0
               /\ ops[x].at \in {"leaf", "emptied", "cut"} /\ Tree!Emptied(ops[x]) =>
                     \A t \in Threads : filed'[t] = ops[x].target =>
                         filed[t] = ops[x].target \/ t \in ops'[x].late
    PROVE  TreeInv' /\ OthersKeep(e)
<1>1. TreeTyped /\ \A x \in Editors : Knows(x) /\ Deletes(x)
      BY DEF TreeInv
<1>2. \A x \in Editors \ {e} : Knows(x)'
      BY <1>1, RacedKnows
<1>3. \A x \in Editors \ {e} : Deletes(x)'
      BY <1>1, DeletesKept
<1>.  QED BY <1>2, <1>3 DEF TreeInv, OthersKeep

\* A request that only reads.
LEMMA StepInv ==
    ASSUME TreeSizes, TreeInv, NEW e \in Editors, NEW op \in TreeOps, Tree!Step(e, op),
           UNCHANGED <<role, edges, filed>>, ops'[e] = op => Knows(e)' /\ Deletes(e)'
    PROVE  TreeInv' /\ OthersKeep(e)
<1>1. /\ ops' \in [Editors -> TreeOps] /\ ops'[e] = op /\ races' = races
      /\ \A x \in Editors \ {e} : ops'[x] = ops[x] /\ Keeps(x)
      BY StepOps DEF TreeInv
<1>2. TreeTyped'
      BY <1>1 DEF TreeInv, TreeTyped, Tree!Live
<1>3. Quiet
      BY <1>1 DEF Quiet
<1>4. \A x \in Editors \ {e} :
        /\ Keeps(x) /\ ops[x].late \subseteq ops'[x].late
        /\ ops'[x].raced = ops[x].raced
        /\ ~ops'[x].gone => /\ ~ops[x].gone
                            /\ <<ops[x].source, ops[x].target>> \in edges =>
                                  <<ops[x].source, ops[x].target>> \in edges'
        /\ ops[x].at \in {"leaf", "emptied", "cut"} /\ Tree!Emptied(ops[x]) =>
              \A t \in Threads : filed'[t] = ops[x].target =>
                  filed[t] = ops[x].target \/ t \in ops'[x].late
      BY <1>1
<1>.  QED BY <1>1, <1>2, <1>3, <1>4, QuietInv

LEMMA KnowsNothing ==
    ASSUME NEW e \in Editors, ops[e].at \in {"idle", "counted", "wiped"}
    PROVE  Knows(e) /\ Deletes(e)
BY DEF Knows, Connects, Moves, Seeds, Deletes

LEMMA IdlesInv ==
    ASSUME TreeSizes, TreeInv, NEW e \in Editors, Tree!Step(e, Tree!Idle),
           UNCHANGED <<role, edges, filed>>
    PROVE  TreeInv' /\ OthersKeep(e)
<1>1. ASSUME ops'[e] = Tree!Idle PROVE Knows(e)' /\ Deletes(e)'
      <2>1. ops'[e].at = "idle"
            BY <1>1, IdleIs
      <2>.  QED BY <2>1 DEF Knows, Connects, Moves, Seeds, Deletes
<1>.  QED BY <1>1, IdleIs, StepInv

-----------------------------------------------------------------------------
(* The requests that edit edges.                                             *)

LEMMA ConnectReadsInv ==
    ASSUME TreeSizes, TreeInv, NEW e \in Editors, NEW s \in Tree!Nodes, NEW t \in Tree!Nodes,
           Tree!ConnectReads(e, s, t)
    PROVE  TreeInv' /\ OthersKeep(e)
<1>1. PICK op : op = [Tree!Idle EXCEPT !.at = "parentless", !.source = s, !.target = t]
      OBVIOUS
<1>2. op \in TreeOps /\ op.at = "parentless" /\ op.source = s /\ op.target = t
      BY <1>1 DEF Tree!Idle, TreeOps
<1>3. /\ Tree!Step(e, op) /\ UNCHANGED <<role, edges, filed>>
      /\ s \in Tree!Live /\ t \in Tree!Live /\ Tree!CanHold(s, t) /\ role[t] # "root"
      /\ ~Tree!HasParent(edges, t)
      BY <1>1 DEF Tree!ConnectReads
<1>4. /\ Born(s) /\ Born(t) /\ MayHold(s, t)
      BY <1>3 DEF Born, MayHold, Tree!Live, Tree!CanHold
<1>5. ASSUME ops'[e] = op
      PROVE  Knows(e)' /\ Deletes(e)'
      <2>1. ops'[e].at = "parentless" /\ ops'[e].source = s /\ ops'[e].target = t
            BY <1>2, <1>5
      <2>2. Born(s)' /\ Born(t)' /\ MayHold(s, t)' /\ ~Tree!HasParent(edges', t)
            BY <1>3, <1>4 DEF Born, MayHold
      <2>.  QED BY <2>1, <2>2 DEF Knows, Connects, Moves, Seeds, Deletes
<1>.  QED BY <1>2, <1>3, <1>5, StepInv

LEMMA ConnectChecksInv ==
    ASSUME TreeSizes, TreeInv, NEW e \in Editors, Tree!ConnectChecksCycle(e)
    PROVE  TreeInv' /\ OthersKeep(e)
<1>1. CASE Tree!HasCycle(edges, ops[e].source, ops[e].target)
      BY <1>1, IdlesInv DEF Tree!ConnectChecksCycle
<1>2. CASE ~Tree!HasCycle(edges, ops[e].source, ops[e].target)
      <2>1. PICK op : op = [ops[e] EXCEPT !.at = "connecting"]
            OBVIOUS
      <2>2. ops[e] \in TreeOps /\ ops[e].at = "parentless" /\ Connects(e)
            BY DEF TreeInv, TreeTyped, Knows, Tree!ConnectChecksCycle
      <2>3. /\ op \in TreeOps /\ op.at = "connecting" /\ op.source = ops[e].source
            /\ op.target = ops[e].target /\ op.raced = ops[e].raced
            BY <2>1, <2>2 DEF TreeOps
      <2>4. Tree!Step(e, op) /\ UNCHANGED <<role, edges, filed>> /\ UNCHANGED races
            BY <1>2, <2>1 DEF Tree!ConnectChecksCycle, Tree!Step
      <2>5. ops[e].source \notin Tree!Below(edges, ops[e].target)
            BY <1>2 DEF Tree!HasCycle
      <2>6. ASSUME ops'[e] = op
            PROVE  Knows(e)' /\ Deletes(e)'
            <3>1. /\ ops'[e].at = "connecting" /\ ops'[e].source = ops[e].source
                  /\ ops'[e].target = ops[e].target /\ (Unraced(e)' => Unraced(e))
                  BY <2>3, <2>4, <2>6 DEF Unraced
            <3>2. Connects(e)'
                  BY <2>2, <2>4, <2>5, <3>1 DEF Connects, Born, MayHold
            <3>.  QED BY <3>1, <3>2 DEF Knows, Moves, Seeds, Deletes
      <2>.  QED BY <2>3, <2>4, <2>6, StepInv
<1>.  QED BY <1>1, <1>2

LEMMA MoveReadsInv ==
    ASSUME TreeSizes, TreeInv, NEW e \in Editors, NEW x \in edges, NEW s \in Tree!Nodes,
           Tree!MoveReads(e, x, s)
    PROVE  TreeInv' /\ OthersKeep(e)
<1>1. PICK u, t : x = <<u, t>> /\ u \in Tree!Live /\ t \in Tree!Live
      BY DEF TreeInv, TreeTyped
<1>2. PICK op : op = [Tree!Idle EXCEPT !.at = "unmoved", !.source = u, !.target = t, !.into = s]
      OBVIOUS
<1>3. Tree!Live \subseteq Tree!Nodes
      BY DEF Tree!Live
<1>4. /\ op \in TreeOps /\ op.at = "unmoved" /\ op.source = u /\ op.target = t /\ op.into = s
      BY <1>1, <1>2, <1>3 DEF Tree!Idle, TreeOps
<1>5. /\ Tree!Step(e, op) /\ UNCHANGED <<role, edges, filed>> /\ UNCHANGED races
      /\ s \in Tree!Live /\ Tree!CanHold(s, t)
      BY <1>1, <1>2 DEF Tree!MoveReads, Tree!Step
<1>6. Born(s) /\ Born(t) /\ Born(u)
      BY <1>1, <1>5 DEF Born, Tree!Live
<1>7. races = 0 => MayHold(s, t)
      BY <1>1, <1>5 DEF MayHold, Tree!CanHold, TreeInv, TreeShape
<1>8. ASSUME ops'[e] = op
      PROVE  Knows(e)' /\ Deletes(e)'
      <2>1. /\ ops'[e].at = "unmoved" /\ ops'[e].source = u /\ ops'[e].target = t
            /\ ops'[e].into = s
            BY <1>4, <1>8
      <2>2. Born(s)' /\ Born(t)' /\ Born(u)' /\ (Unraced(e)' => MayHold(s, t)')
            BY <1>5, <1>6, <1>7 DEF Born, MayHold, Unraced
      <2>3. <<u, t>> \in edges'
            BY <1>1, <1>5
      <2>.  QED BY <2>1, <2>2, <2>3 DEF Knows, Connects, Moves, Seeds, Deletes
<1>.  QED BY <1>4, <1>5, <1>8, StepInv

LEMMA MoveChecksInv ==
    ASSUME TreeSizes, TreeInv, NEW e \in Editors, Tree!MoveChecksCycle(e)
    PROVE  TreeInv' /\ OthersKeep(e)
<1>1. CASE Tree!HasCycle(edges, ops[e].into, ops[e].target)
      BY <1>1, IdlesInv DEF Tree!MoveChecksCycle
<1>2. CASE ~Tree!HasCycle(edges, ops[e].into, ops[e].target)
      <2>1. PICK op : op = [ops[e] EXCEPT !.at = "moving"]
            OBVIOUS
      <2>2. ops[e] \in TreeOps /\ ops[e].at = "unmoved" /\ Moves(e)
            BY DEF TreeInv, TreeTyped, Knows, Tree!MoveChecksCycle
      <2>3. /\ op \in TreeOps /\ op.at = "moving" /\ op.source = ops[e].source
            /\ op.target = ops[e].target /\ op.into = ops[e].into /\ op.raced = ops[e].raced
            /\ op.gone = ops[e].gone
            BY <2>1, <2>2 DEF TreeOps
      <2>4. Tree!Step(e, op) /\ UNCHANGED <<role, edges, filed>> /\ UNCHANGED races
            BY <1>2, <2>1 DEF Tree!MoveChecksCycle, Tree!Step
      <2>5. ops[e].into \notin Tree!Below(edges, ops[e].target)
            BY <1>2 DEF Tree!HasCycle
      <2>6. ASSUME ops'[e] = op
            PROVE  Knows(e)' /\ Deletes(e)'
            <3>1. /\ ops'[e].at = "moving" /\ ops'[e].source = ops[e].source
                  /\ ops'[e].target = ops[e].target /\ ops'[e].into = ops[e].into
                  /\ (Unraced(e)' => Unraced(e)) /\ ops'[e].gone = ops[e].gone
                  BY <2>3, <2>4, <2>6 DEF Unraced
            <3>2. Moves(e)'
                  BY <2>2, <2>4, <2>5, <3>1 DEF Moves, Born, MayHold
            <3>.  QED BY <3>1, <3>2 DEF Knows, Connects, Seeds, Deletes
      <2>.  QED BY <2>3, <2>4, <2>6, StepInv
<1>.  QED BY <1>1, <1>2

LEMMA ConnectWritesInv ==
    ASSUME TreeSizes, TreeInv, NEW e \in Editors, Tree!ConnectWrites(e)
    PROVE  TreeInv' /\ OthersKeep(e)
<1>1. PICK s, t : s = ops[e].source /\ t = ops[e].target
      OBVIOUS
<1>2. ops[e].at = "connecting" /\ UNCHANGED <<role, filed>>
      BY DEF Tree!ConnectWrites
<1>3. CASE ~Tree!Insertable(edges, <<s, t>>)
      BY <1>1, <1>3, IdlesInv DEF Tree!ConnectWrites
<1>4. CASE Tree!Insertable(edges, <<s, t>>)
      <2>1. edges' = edges \cup {<<s, t>>} /\ Tree!TreeWritten(e, {}, Tree!Idle)
            BY <1>1, <1>4 DEF Tree!ConnectWrites
      <2>2. s \in Tree!Live /\ t \in Tree!Live /\ s \in Tree!Nodes /\ t \in Tree!Nodes
            BY <1>4 DEF Tree!Insertable, Tree!Live
      <2>3. /\ ops' \in [Editors -> TreeOps] /\ ops'[e] = Tree!Idle /\ races' \in 0 .. MaxRaces
            /\ races' = 0 => races = 0 /\ ops[e].raced = 0
            /\ \A x \in Editors \ {e} :
                  /\ Keeps(x) /\ ops'[x].late = ops[x].late
                  /\ ops[x].at = "idle" \/ ops'[x].raced > 0
            BY <2>1, IdleIs, WrittenOps DEF TreeInv
      <2>4. Tree!Live' = Tree!Live
            BY <1>2 DEF Tree!Live
      <2>5. TreeTyped'
            BY <1>2, <2>1, <2>2, <2>3, <2>4 DEF TreeInv, TreeTyped
      <2>6. Aging
            BY <1>2 DEF Aging
      <2>7. ASSUME races' = 0
            PROVE  /\ \A m, n \in Tree!Live' : role'[m] = role'[n] /\ role'[m] # "folder" => m = n
                   /\ \A x \in edges' : MayHold(x[1], x[2])'
                   /\ \A x, y \in edges' : x[2] = y[2] => x = y
                   /\ Tree!Acyclic(edges')
            <3>1. /\ MayHold(s, t) /\ ~Tree!HasParent(edges, t) /\ s \notin Tree!Below(edges, t)
                  BY <1>1, <1>2, <2>3, <2>7 DEF TreeInv, Knows, Connects, Unraced
            <3>2. /\ \A m, n \in Tree!Live : role[m] = role[n] /\ role[m] # "folder" => m = n
                  /\ \A x \in edges : MayHold(x[1], x[2])
                  /\ \A x, y \in edges : x[2] = y[2] => x = y
                  /\ Tree!Acyclic(edges)
                  BY <2>3, <2>7 DEF TreeInv, TreeShape
            <3>3. \A x \in edges' : MayHold(x[1], x[2])'
                  BY <1>2, <2>1, <3>1, <3>2 DEF MayHold
            <3>4. \A x, y \in edges' : x[2] = y[2] => x = y
                  BY <2>1, <3>1, <3>2 DEF Tree!HasParent
            <3>5. Tree!Acyclic(edges')
                  BY <2>1, <2>2, <3>1, <3>2, NodesFinite, EdgeAcyclic DEF TreeInv, TreeTyped
            <3>.  QED BY <1>2, <2>4, <3>2, <3>3, <3>4, <3>5
      <2>8. TreeShape'
            BY <2>7 DEF TreeShape
      <2>9. Knows(e)' /\ Deletes(e)'
            BY <2>3, IdleIs DEF Knows, Connects, Moves, Seeds, Deletes
      <2>.  QED BY <1>2, <2>3, <2>5, <2>6, <2>8, <2>9, RacedInv
<1>.  QED BY <1>3, <1>4

\* One parent takes the place of another.
LEMMA MoveWritesInv ==
    ASSUME TreeSizes, TreeInv, NEW e \in Editors, Tree!MoveWrites(e)
    PROVE  TreeInv' /\ OthersKeep(e)
<1>1. PICK u, s, t : u = ops[e].source /\ t = ops[e].target /\ s = ops[e].into
      OBVIOUS
<1>2. ops[e].at = "moving" /\ UNCHANGED <<role, filed>>
      BY DEF Tree!MoveWrites
<1>3. CASE ops[e].gone \/ ~Tree!Insertable(edges, <<s, t>>)
      BY <1>1, <1>3, IdlesInv DEF Tree!MoveWrites
<1>4. CASE ~ops[e].gone /\ Tree!Insertable(edges, <<s, t>>)
      <2>1. /\ edges' = (edges \ {<<u, t>>}) \cup {<<s, t>>}
            /\ Tree!TreeWritten(e, {<<u, t>>}, Tree!Idle)
            BY <1>1, <1>4 DEF Tree!MoveWrites
      <2>2. s \in Tree!Live /\ t \in Tree!Live /\ s \in Tree!Nodes /\ t \in Tree!Nodes
            BY <1>4 DEF Tree!Insertable, Tree!Live
      <2>3. /\ ops' \in [Editors -> TreeOps] /\ ops'[e] = Tree!Idle /\ races' \in 0 .. MaxRaces
            /\ races' = 0 => races = 0 /\ ops[e].raced = 0
            /\ \A x \in Editors \ {e} :
                  /\ Keeps(x) /\ ops'[x].late = ops[x].late
                  /\ ops[x].at = "idle" \/ ops'[x].raced > 0
            BY <2>1, IdleIs, WrittenOps DEF TreeInv
      <2>4. Tree!Live' = Tree!Live
            BY <1>2 DEF Tree!Live
      <2>5. TreeTyped'
            BY <1>2, <2>1, <2>2, <2>3, <2>4 DEF TreeInv, TreeTyped
      <2>6. Aging
            BY <1>2 DEF Aging
      <2>7. ASSUME races' = 0
            PROVE  /\ \A m, n \in Tree!Live' : role'[m] = role'[n] /\ role'[m] # "folder" => m = n
                   /\ \A x \in edges' : MayHold(x[1], x[2])'
                   /\ \A x, y \in edges' : x[2] = y[2] => x = y
                   /\ Tree!Acyclic(edges')
            <3>1. MayHold(s, t) /\ <<u, t>> \in edges /\ s \notin Tree!Below(edges, t)
                  BY <1>1, <1>2, <1>4, <2>3, <2>7 DEF TreeInv, Knows, Moves, Unraced
            <3>2. /\ \A m, n \in Tree!Live : role[m] = role[n] /\ role[m] # "folder" => m = n
                  /\ \A x \in edges : MayHold(x[1], x[2])
                  /\ \A x, y \in edges : x[2] = y[2] => x = y
                  /\ Tree!Acyclic(edges)
                  BY <2>3, <2>7 DEF TreeInv, TreeShape
            <3>3. \A x \in edges' : MayHold(x[1], x[2])'
                  BY <1>2, <2>1, <3>1, <3>2 DEF MayHold
            <3>4. \A x \in edges \ {<<u, t>>} : x[2] # t
                  BY <3>1, <3>2
            <3>5. \A x, y \in edges' : x[2] = y[2] => x = y
                  BY <2>1, <3>2, <3>4
            <3>6. edges \subseteq Tree!Nodes \X Tree!Nodes /\ IsFiniteSet(Tree!Nodes)
                  BY NodesFinite DEF TreeInv, TreeTyped
            <3>7. Tree!Acyclic(edges \ {<<u, t>>}) /\ s \notin Tree!Below(edges \ {<<u, t>>}, t)
                  BY <2>2, <3>1, <3>2, <3>6, FewerAcyclic, FewerBelow
            <3>8. Tree!Acyclic(edges')
                  BY <2>1, <2>2, <3>6, <3>7, EdgeAcyclic
            <3>.  QED BY <1>2, <2>4, <3>2, <3>3, <3>5, <3>8
      <2>8. TreeShape'
            BY <2>7 DEF TreeShape
      <2>9. Knows(e)' /\ Deletes(e)'
            BY <2>3, IdleIs DEF Knows, Connects, Moves, Seeds, Deletes
      <2>.  QED BY <1>2, <2>3, <2>5, <2>6, <2>8, <2>9, RacedInv
<1>.  QED BY <1>3, <1>4

LEMMA DisconnectInv ==
    ASSUME TreeSizes, TreeInv, NEW e \in Editors, NEW x \in edges, Tree!Disconnect(e, x)
    PROVE  TreeInv' /\ OthersKeep(e)
<1>1. Tree!EdgesRemoved(e, {x}, Tree!Idle) /\ UNCHANGED <<role, filed>>
      BY DEF Tree!Disconnect
<1>2. /\ ops' \in [Editors -> TreeOps] /\ ops'[e] = Tree!Idle /\ races' = races
      /\ edges' = edges \ {x}
      /\ \A y \in Editors \ {e} :
            /\ Keeps(y) /\ ops'[y].late = ops[y].late /\ ops'[y].raced = ops[y].raced
            /\ ~ops'[y].gone => /\ ~ops[y].gone
                                /\ <<ops[y].source, ops[y].target>> \notin {x}
      BY <1>1, IdleIs, RemovedOps DEF TreeInv
<1>3. TreeTyped' /\ Quiet
      <2>1. Tree!Live' = Tree!Live
            BY <1>1 DEF Tree!Live
      <2>.  QED BY <1>1, <1>2, <2>1 DEF TreeInv, TreeTyped, Quiet
<1>4. Knows(e)' /\ Deletes(e)'
      BY <1>2, IdleIs DEF Knows, Connects, Moves, Seeds, Deletes
<1>5. \A y \in Editors \ {e} :
        ~ops'[y].gone => /\ ~ops[y].gone
                         /\ <<ops[y].source, ops[y].target>> \in edges =>
                               <<ops[y].source, ops[y].target>> \in edges'
      BY <1>2
<1>.  QED BY <1>1, <1>2, <1>3, <1>4, <1>5, QuietInv

-----------------------------------------------------------------------------
(* The requests that create and delete folders.                              *)

LEMMA CountsInv ==
    ASSUME TreeSizes, TreeInv, NEW e \in Editors, Tree!CountsFolders(e)
    PROVE  TreeInv' /\ OthersKeep(e)
<1>1. PICK op : op = [Tree!Idle EXCEPT !.at = "counted"]
      OBVIOUS
<1>2. op \in TreeOps /\ op.at = "counted"
      BY <1>1 DEF Tree!Idle, TreeOps
<1>3. Tree!Step(e, op) /\ UNCHANGED <<role, edges, filed>>
      BY <1>1 DEF Tree!CountsFolders
<1>4. ASSUME ops'[e] = op PROVE Knows(e)' /\ Deletes(e)'
      <2>1. ops'[e].at = "counted"
            BY <1>2, <1>4
      <2>.  QED BY <2>1 DEF Knows, Connects, Moves, Seeds, Deletes
<1>.  QED BY <1>2, <1>3, <1>4, StepInv

LEMMA AddsInv ==
    ASSUME TreeSizes, TreeInv, NEW e \in Editors, Tree!AddsFolder(e)
    PROVE  TreeInv' /\ OthersKeep(e)
<1>1. PICK n \in Tree!Unborn : role' = [role EXCEPT ![n] = "folder"]
      BY DEF Tree!AddsFolder
<1>2. /\ Tree!Step(e, Tree!Idle) /\ UNCHANGED <<edges, filed>>
      BY DEF Tree!AddsFolder
<1>3. /\ ops' \in [Editors -> TreeOps] /\ ops'[e] = Tree!Idle /\ races' = races
      /\ \A x \in Editors \ {e} : ops'[x] = ops[x] /\ Keeps(x)
      BY <1>2, IdleIs, StepOps DEF TreeInv
<1>4. n \in Tree!Nodes /\ role[n] = "unborn" /\ role \in [Tree!Nodes -> Roles]
      BY <1>1 DEF Tree!Unborn, TreeInv, TreeTyped
<1>5. Tree!Live \subseteq Tree!Live'
      BY <1>1, <1>4 DEF Tree!Live
<1>6. TreeTyped'
      BY <1>1, <1>2, <1>3, <1>4, <1>5 DEF TreeInv, TreeTyped, Roles
<1>7. Quiet
      BY <1>1, <1>2, <1>3, <1>4 DEF Quiet
<1>8. Knows(e)' /\ Deletes(e)'
      BY <1>3, IdleIs DEF Knows, Connects, Moves, Seeds, Deletes
<1>.  QED BY <1>2, <1>3, <1>6, <1>7, <1>8, QuietInv

LEMMA DeleteReadsInv ==
    ASSUME TreeSizes, TreeInv, NEW e \in Editors, NEW n \in Tree!Nodes,
           NEW d \in Tree!Nodes \cup {NoNode}, Tree!DeleteReads(e, n, d)
    PROVE  TreeInv' /\ OthersKeep(e)
<1>1. PICK hung \in BOOLEAN, filled \in BOOLEAN :
          /\ hung = Tree!HasParent(edges, n)
          /\ filled = \E t \in Threads : filed[t] = n
      BY DEF Tree!HasParent
<1>2. PICK op : op = [Tree!Idle EXCEPT !.at = "leaf", !.target = n, !.into = d,
                                       !.hung = hung, !.filled = filled]
      OBVIOUS
<1>3. /\ op \in TreeOps /\ op.at = "leaf" /\ op.target = n /\ op.into = d
      /\ op.filled = filled
      BY <1>2 DEF Tree!Idle, TreeOps
<1>4. /\ Tree!Step(e, op) /\ UNCHANGED <<role, edges, filed>>
      /\ role[n] = "folder" /\ d \in Tree!Live \cup {NoNode}
      BY <1>1, <1>2 DEF Tree!DeleteReads
<1>5. Born(n)
      BY <1>4 DEF Born, TreeSizes
<1>6. ASSUME ops'[e] = op PROVE Knows(e)' /\ Deletes(e)'
      <2>1. /\ ops'[e].at = "leaf" /\ ops'[e].target = n /\ ops'[e].into = d
            /\ ops'[e].filled = filled
            BY <1>3, <1>6
      <2>2. Born(n)' /\ role'[n] = "folder"
            BY <1>4, <1>5 DEF Born
      <2>3. Tree!Emptied(ops'[e]) => \A t \in Threads : filed'[t] # n
            BY <1>1, <1>4, <2>1 DEF Tree!Emptied
      <2>4. Deletes(e)'
            BY <1>5, <2>1, <2>2, <2>3 DEF Deletes
      <2>.  QED BY <2>1, <2>4 DEF Knows, Connects, Moves, Seeds
<1>.  QED BY <1>3, <1>4, <1>6, StepInv

\* Threads that arrive are noted by the requests that emptied the folder before.
LEMMA ArriveKeeps ==
    ASSUME TreeTyped, NEW x \in Editors, NEW T, T \subseteq Threads, NEW n,
           ops'[x] = Tree!Arrive(ops[x], T, n)
    PROVE  /\ ops'[x] \in TreeOps /\ Keeps(x)
           /\ ops'[x].raced = ops[x].raced /\ ops'[x].gone = ops[x].gone
           /\ ops[x].late \subseteq ops'[x].late
           /\ Tree!Emptied(ops[x]) /\ ops[x].target = n => T \subseteq ops'[x].late
<1>1. ops[x] \in TreeOps
      BY DEF TreeTyped
<1>2. CASE ops[x].target = n /\ Tree!Emptied(ops[x])
      <2>1. PICK late : late = ops[x].late \cup T
            OBVIOUS
      <2>2. ops'[x] = [ops[x] EXCEPT !.late = late]
            BY <1>2, <2>1 DEF Tree!Arrive
      <2>3. late \subseteq Threads
            BY <1>1, <2>1 DEF TreeOps
      <2>4. /\ ops'[x] \in TreeOps /\ ops'[x].late = late
            /\ ops'[x].raced = ops[x].raced /\ ops'[x].gone = ops[x].gone
            BY <1>1, <2>2, <2>3 DEF TreeOps
      <2>5. Keeps(x)
            BY <1>1, <2>2 DEF TreeOps, Keeps
      <2>.  QED BY <2>1, <2>4, <2>5
<1>3. CASE ~(ops[x].target = n /\ Tree!Emptied(ops[x]))
      <2>1. ops'[x] = ops[x]
            BY <1>3 DEF Tree!Arrive
      <2>.  QED BY <1>1, <1>3, <2>1 DEF Keeps
<1>.  QED BY <1>2, <1>3

LEMMA DeleteMovesInv ==
    ASSUME TreeSizes, TreeInv, NEW e \in Editors, Tree!DeleteMovesThreads(e)
    PROVE  TreeInv' /\ OthersKeep(e)
<1>1. PICK d, moved : /\ d = ops[e].into
                      /\ moved = {t \in Threads : filed[t] = ops[e].target /\ ops[e].filled}
      OBVIOUS
<1>2. ops[e].at = "leaf" /\ UNCHANGED <<role, edges>> /\ Deletes(e) /\ ops[e] \in TreeOps
      BY DEF Tree!DeleteMovesThreads, TreeInv, TreeTyped
<1>3. CASE moved # {} /\ d \notin Tree!Live \cup {NoNode}
      BY <1>1, <1>2, <1>3, IdlesInv DEF Tree!DeleteMovesThreads
<1>4. CASE moved = {} \/ d \in Tree!Live \cup {NoNode}
      <2>1. moved = {t \in Threads : filed[t] = ops[e].target /\ ops[e].filled}
            BY <1>1
      <2>2. PICK op : op = [ops[e] EXCEPT !.at = "emptied"]
            OBVIOUS
      <2>3. /\ filed' = [t \in Threads |-> IF t \in moved THEN d ELSE filed[t]]
            /\ ops' = [x \in Editors |-> IF x = e THEN op ELSE Tree!Arrive(ops[x], moved, d)]
            /\ races' = races
            BY <1>1, <1>4, <2>1, <2>2 DEF Tree!DeleteMovesThreads
      <2>4. /\ op \in TreeOps /\ op.at = "emptied" /\ op.target = ops[e].target
            /\ op.into = d /\ op.late = ops[e].late
            BY <1>1, <1>2, <2>2 DEF TreeOps
      <2>5. moved \subseteq Threads
            BY <2>1
      <2>6. \A x \in Editors \ {e} :
               /\ ops'[x] \in TreeOps /\ Keeps(x)
               /\ ops'[x].raced = ops[x].raced /\ ops'[x].gone = ops[x].gone
               /\ ops[x].late \subseteq ops'[x].late
               /\ Tree!Emptied(ops[x]) /\ ops[x].target = d => moved \subseteq ops'[x].late
            BY <2>3, <2>5, ArriveKeeps DEF TreeInv
      <2>7. ops'[e] = op
            BY <2>3
      <2>8. TreeTyped'
            <3>1. Tree!Live' = Tree!Live
                  BY <1>2 DEF Tree!Live
            <3>2. ops' \in [Editors -> TreeOps]
                  BY <2>3, <2>4, <2>6, <2>7
            <3>3. filed' \in [Threads -> Tree!Live \cup {NoNode}]
                  BY <1>4, <2>1, <2>3 DEF TreeInv, TreeTyped
            <3>.  QED BY <1>2, <2>3, <3>1, <3>2, <3>3 DEF TreeInv, TreeTyped
      <2>9. Quiet
            BY <1>2, <2>3 DEF Quiet
      <2>10. \A t \in Threads : d \notin {NoNode, ops[e].target} /\ filed'[t] = ops[e].target =>
               t \in ops[e].late
            <3>1. ASSUME NEW t \in Threads, d \notin {NoNode, ops[e].target}, filed'[t] = ops[e].target
                  PROVE  t \in ops[e].late
                  <4>1. d # ops[e].target
                        BY <3>1
                  <4>2. filed'[t] = IF t \in moved THEN d ELSE filed[t]
                        BY <2>3
                  <4>3. t \notin moved /\ filed[t] = ops[e].target
                        BY <3>1, <4>1, <4>2
                  <4>4. ~ops[e].filled
                        BY <2>1, <4>3
                  <4>.  QED BY <1>1, <1>2, <3>1, <4>3, <4>4 DEF Deletes, Tree!Emptied
            <3>.  QED BY <3>1
      <2>11. Knows(e)' /\ Deletes(e)'
            <3>1. /\ ops'[e].at = "emptied" /\ ops'[e].target = ops[e].target
                  /\ ops'[e].into = d /\ ops'[e].late = ops[e].late
                  BY <2>4, <2>7
            <3>2. Deletes(e)'
                  BY <1>1, <1>2, <2>10, <3>1 DEF Deletes, Born
            <3>.  QED BY <3>1, <3>2 DEF Knows, Connects, Moves, Seeds
      <2>12. \A x \in Editors \ {e} :
               ops[x].at \in {"leaf", "emptied", "cut"} /\ Tree!Emptied(ops[x]) =>
                  \A t \in Threads : filed'[t] = ops[x].target =>
                      filed[t] = ops[x].target \/ t \in ops'[x].late
            BY <2>3, <2>6
      <2>.  QED BY <1>2, <2>6, <2>8, <2>9, <2>11, <2>12, QuietInv
<1>.  QED BY <1>3, <1>4

LEMMA FilesInv ==
    ASSUME TreeSizes, TreeInv, NEW t \in Threads, NEW n \in Tree!Nodes, Tree!Files(t, n)
    PROVE  TreeInv' /\ \A x \in Editors : Keeps(x)
<1>1. /\ n \in Tree!Live /\ filed' = [filed EXCEPT ![t] = n]
      /\ ops' = [x \in Editors |-> Tree!Arrive(ops[x], {t}, n)]
      /\ UNCHANGED <<role, edges, races>>
      BY DEF Tree!Files
<1>2. \A x \in Editors :
        /\ ops'[x] \in TreeOps /\ Keeps(x)
        /\ ops'[x].raced = ops[x].raced /\ ops'[x].gone = ops[x].gone
        /\ ops[x].late \subseteq ops'[x].late
        /\ Tree!Emptied(ops[x]) /\ ops[x].target = n => {t} \subseteq ops'[x].late
      <2>1. PICK T : T = {t}
            OBVIOUS
      <2>2. T \subseteq Threads /\ TreeTyped
            BY <2>1 DEF TreeInv
      <2>3. \A x \in Editors : ops'[x] = Tree!Arrive(ops[x], T, n)
            BY <1>1, <2>1
      <2>4. \A x \in Editors :
              /\ ops'[x] \in TreeOps /\ Keeps(x)
              /\ ops'[x].raced = ops[x].raced /\ ops'[x].gone = ops[x].gone
              /\ ops[x].late \subseteq ops'[x].late
              /\ Tree!Emptied(ops[x]) /\ ops[x].target = n => T \subseteq ops'[x].late
            BY <2>2, <2>3, ArriveKeeps
      <2>.  QED BY <2>1, <2>4
<1>3. ops' \in [Editors -> TreeOps]
      BY <1>1, <1>2
<1>4. Tree!Live' = Tree!Live
      BY <1>1 DEF Tree!Live
<1>5. TreeTyped' /\ Quiet /\ Aging
      BY <1>1, <1>3, <1>4 DEF TreeInv, TreeTyped, Quiet, Aging
<1>6. \A x \in Editors : Tree!Emptied(ops[x]) =>
        \A s \in Threads : filed'[s] = ops[x].target =>
            filed[s] = ops[x].target \/ s \in ops'[x].late
      BY <1>1, <1>2 DEF TreeInv, TreeTyped
<1>7. \A x \in Editors : Deletes(x)'
      BY <1>2, <1>5, <1>6, DeletesKept DEF TreeInv
<1>8. \A x \in Editors : Knows(x)'
      BY <1>1, <1>2, <1>5, QuietKnows DEF TreeInv
<1>9. TreeShape'
      <2>1. edges' \subseteq Tree!Live' \X Tree!Live'
            BY <1>5 DEF TreeTyped
      <2>.  QED BY <1>5, <2>1, ShapeStays DEF TreeInv
<1>.  QED BY <1>2, <1>5, <1>7, <1>8, <1>9 DEF TreeInv

LEMMA DeleteCutsInv ==
    ASSUME TreeSizes, TreeInv, NEW e \in Editors, Tree!DeleteCutsParents(e)
    PROVE  TreeInv' /\ OthersKeep(e)
<1>1. PICK removed :
          removed = IF ops[e].hung THEN {x \in edges : x[2] = ops[e].target} ELSE {}
      OBVIOUS
<1>2. PICK op : op = [ops[e] EXCEPT !.at = "cut"]
      OBVIOUS
<1>3. /\ ops[e].at = "emptied" /\ UNCHANGED <<role, filed>>
      /\ Tree!EdgesRemoved(e, removed, op)
      BY <1>1, <1>2 DEF Tree!DeleteCutsParents
<1>4. ops[e] \in TreeOps /\ Deletes(e)
      BY DEF TreeInv, TreeTyped
<1>5. /\ op \in TreeOps /\ op.at = "cut" /\ op.target = ops[e].target /\ op.into = ops[e].into
      /\ op.late = ops[e].late
      BY <1>2, <1>4 DEF TreeOps
<1>6. /\ ops' \in [Editors -> TreeOps] /\ ops'[e] = op /\ races' = races
      /\ edges' = edges \ removed
      /\ \A y \in Editors \ {e} :
            /\ Keeps(y) /\ ops'[y].late = ops[y].late /\ ops'[y].raced = ops[y].raced
            /\ ~ops'[y].gone => /\ ~ops[y].gone
                                /\ <<ops[y].source, ops[y].target>> \notin removed
      BY <1>3, <1>5, RemovedOps DEF TreeInv
<1>7. TreeTyped' /\ Quiet
      <2>1. Tree!Live' = Tree!Live
            BY <1>3 DEF Tree!Live
      <2>.  QED BY <1>3, <1>6, <2>1 DEF TreeInv, TreeTyped, Quiet
<1>8. Knows(e)' /\ Deletes(e)'
      <2>1. /\ ops'[e].at = "cut" /\ ops'[e].target = ops[e].target
            /\ ops'[e].into = ops[e].into /\ ops'[e].late = ops[e].late
            BY <1>5, <1>6
      <2>2. Deletes(e)'
            BY <1>3, <1>4, <2>1 DEF Deletes, Born, Tree!Emptied
      <2>.  QED BY <2>1, <2>2 DEF Knows, Connects, Moves, Seeds
<1>9. \A y \in Editors \ {e} :
        ~ops'[y].gone => /\ ~ops[y].gone
                         /\ <<ops[y].source, ops[y].target>> \in edges =>
                               <<ops[y].source, ops[y].target>> \in edges'
      BY <1>6
<1>.  QED BY <1>3, <1>6, <1>7, <1>8, <1>9, QuietInv

LEMMA DeleteRemovesInv ==
    ASSUME TreeSizes, TreeInv, NEW e \in Editors, Tree!DeleteRemoves(e)
    PROVE  TreeInv' /\ OthersKeep(e)
<1>1. PICK n : n = ops[e].target
      OBVIOUS
<1>2. ops[e].at = "cut" /\ Tree!Step(e, Tree!Idle) /\ UNCHANGED edges
      BY DEF Tree!DeleteRemoves
<1>3. CASE UNCHANGED <<role, filed>>
      BY <1>2, <1>3, IdlesInv
<1>4. CASE ~UNCHANGED <<role, filed>>
      <2>1. /\ n \in Tree!Live /\ \A x \in edges : n # x[1] /\ n # x[2]
            /\ role' = [role EXCEPT ![n] = "gone"]
            /\ filed' = [t \in Threads |-> IF filed[t] = n THEN NoNode ELSE filed[t]]
            BY <1>1, <1>4 DEF Tree!DeleteRemoves
      <2>2. n \in Tree!Nodes /\ role[n] # "unborn"
            BY <2>1 DEF Tree!Live
      <2>3. /\ ops' \in [Editors -> TreeOps] /\ ops'[e] = Tree!Idle /\ races' = races
            /\ \A x \in Editors \ {e} : ops'[x] = ops[x] /\ Keeps(x)
            BY <1>2, IdleIs, StepOps DEF TreeInv
      <2>4. role \in [Tree!Nodes -> Roles] /\ filed \in [Threads -> Tree!Live \cup {NoNode}]
            BY DEF TreeInv, TreeTyped
      <2>5. Tree!Live' = Tree!Live \ {n}
            BY <2>1, <2>2, <2>4 DEF Tree!Live
      <2>6. TreeTyped'
            <3>1. edges' \subseteq Tree!Live' \X Tree!Live'
                  BY <1>2, <2>1, <2>5 DEF TreeInv, TreeTyped
            <3>2. filed' \in [Threads -> Tree!Live' \cup {NoNode}]
                  BY <2>1, <2>4, <2>5
            <3>.  QED BY <2>1, <2>3, <2>4, <3>1, <3>2 DEF TreeInv, TreeTyped, Roles
      <2>7. Quiet
            BY <1>2, <2>1, <2>2, <2>3, <2>4 DEF Quiet
      <2>8. Knows(e)' /\ Deletes(e)'
            BY <2>3, IdleIs DEF Knows, Connects, Moves, Seeds, Deletes
      <2>9. \A x \in Editors \ {e} :
               ops[x].at \in {"leaf", "emptied", "cut"} /\ Tree!Emptied(ops[x]) =>
                  \A t \in Threads : filed'[t] = ops[x].target =>
                      filed[t] = ops[x].target \/ t \in ops'[x].late
            BY <2>1 DEF TreeInv, Deletes, Born, TreeSizes
      <2>10. \A x \in Editors \ {e} :
               /\ Keeps(x) /\ ops[x].late \subseteq ops'[x].late
               /\ ops'[x].raced = ops[x].raced
               /\ ~ops'[x].gone => /\ ~ops[x].gone
                                   /\ <<ops[x].source, ops[x].target>> \in edges =>
                                         <<ops[x].source, ops[x].target>> \in edges'
            BY <1>2, <2>3
      <2>.  QED BY <2>6, <2>7, <2>8, <2>9, <2>10, QuietInv
<1>.  QED BY <1>3, <1>4

LEMMA CrashInv ==
    ASSUME TreeSizes, TreeInv, NEW e \in Editors, Tree!Crash(e)
    PROVE  TreeInv' /\ OthersKeep(e)
BY IdlesInv DEF Tree!Crash

-----------------------------------------------------------------------------
(* The requests that replace the tree.                                       *)

LEMMA WipesInv ==
    ASSUME TreeSizes, TreeInv, NEW e \in Editors, Tree!ResetWipes(e)
    PROVE  TreeInv' /\ OthersKeep(e)
<1>1. PICK op : op = [Tree!Idle EXCEPT !.at = "wiped"]
      OBVIOUS
<1>2. op \in TreeOps /\ op.at = "wiped"
      BY <1>1 DEF Tree!Idle, TreeOps
<1>3. /\ role' = [n \in Tree!Nodes |-> IF n \in Tree!Live THEN "gone" ELSE role[n]]
      /\ filed' = [t \in Threads |-> NoNode]
      /\ Tree!EdgesRemoved(e, edges, op)
      BY <1>1 DEF Tree!ResetWipes
<1>4. /\ ops' \in [Editors -> TreeOps] /\ ops'[e] = op /\ races' = races
      /\ edges' = edges \ edges
      /\ \A y \in Editors \ {e} :
            /\ Keeps(y) /\ ops'[y].late = ops[y].late /\ ops'[y].raced = ops[y].raced
            /\ ~ops'[y].gone => /\ ~ops[y].gone
                                /\ <<ops[y].source, ops[y].target>> \notin edges
      BY <1>2, <1>3, RemovedOps DEF TreeInv
<1>5. role \in [Tree!Nodes -> Roles]
      BY DEF TreeInv, TreeTyped
<1>6. TreeTyped'
      BY <1>3, <1>4, <1>5 DEF TreeInv, TreeTyped, Roles
<1>7. Quiet
      BY <1>3, <1>4, <1>5 DEF Quiet, Tree!Live
<1>8. Knows(e)' /\ Deletes(e)'
      <2>1. ops'[e].at = "wiped"
            BY <1>2, <1>4
      <2>.  QED BY <2>1 DEF Knows, Connects, Moves, Seeds, Deletes
<1>9. \A x \in Editors \ {e} :
        ops[x].at \in {"leaf", "emptied", "cut"} /\ Tree!Emptied(ops[x]) =>
            \A t \in Threads : filed'[t] = ops[x].target =>
                filed[t] = ops[x].target \/ t \in ops'[x].late
      BY <1>3 DEF TreeInv, Deletes, Born, TreeSizes
<1>.  QED BY <1>4, <1>6, <1>7, <1>8, <1>9, QuietInv

LEMMA LooksForRootInv ==
    ASSUME TreeSizes, TreeInv, NEW e \in Editors, Tree!SeedLooksForRoot(e)
    PROVE  TreeInv' /\ OthersKeep(e)
<1>1. ops[e].at = "wiped" /\ UNCHANGED <<role, edges, filed>> /\ ops[e] \in TreeOps
      <2>1. ops[e].at = "wiped" /\ UNCHANGED <<role, edges, filed>>
            BY Zenon DEF Tree!SeedLooksForRoot
      <2>2. ops[e] \in TreeOps
            <3>1. ops \in [Editors -> TreeOps]
                  BY Zenon DEF TreeInv, TreeTyped
            <3>.  QED BY <3>1, Zenon
      <2>.  QED BY <2>1, <2>2, Zenon
<1>2. CASE \E r \in Tree!Live : role[r] = "root" /\
              Tree!Step(e, [ops[e] EXCEPT !.at = "rooted", !.into = r])
      <2>1. PICK r \in Tree!Live : role[r] = "root" /\
                Tree!Step(e, [ops[e] EXCEPT !.at = "rooted", !.into = r])
            BY <1>2, Zenon
      <2>2. PICK op : op = [ops[e] EXCEPT !.at = "rooted", !.into = r]
            OBVIOUS
      <2>3. r \in Tree!Nodes
            BY DEF Tree!Live
      <2>4. op \in TreeOps /\ op.at = "rooted" /\ op.into = r
            BY <1>1, <2>2, <2>3 DEF TreeOps
      <2>5. ASSUME ops'[e] = op PROVE Knows(e)' /\ Deletes(e)'
            <3>1. ops'[e].at = "rooted" /\ ops'[e].into = r /\ Born(r)' /\ role'[r] = "root"
                  BY <1>1, <2>1, <2>3, <2>4, <2>5 DEF Born
            <3>.  QED BY <3>1 DEF Knows, Connects, Moves, Seeds, Deletes
      <2>.  QED BY <1>1, <2>1, <2>2, <2>4, <2>5, StepInv
<1>3. CASE /\ ~ \E r \in Tree!Live : role[r] = "root"
           /\ Tree!Step(e, [ops[e] EXCEPT !.at = "rootless"])
      <2>1. PICK op : op = [ops[e] EXCEPT !.at = "rootless"]
            OBVIOUS
      <2>2. op \in TreeOps /\ op.at = "rootless"
            BY <1>1, <2>1 DEF TreeOps
      <2>3. \A n \in Tree!Nodes : role[n] # "root"
            BY <1>3 DEF Tree!Live
      <2>4. ASSUME ops'[e] = op PROVE Knows(e)' /\ Deletes(e)'
            <3>1. ops'[e].at = "rootless" /\ \A n \in Tree!Nodes : role'[n] # "root"
                  BY <1>1, <2>2, <2>3, <2>4
            <3>.  QED BY <3>1 DEF Knows, Connects, Moves, Seeds, Deletes
      <2>.  QED BY <1>1, <1>3, <2>1, <2>2, <2>4, StepInv
<1>.  QED BY <1>2, <1>3, Zenon DEF Tree!SeedLooksForRoot

LEMMA LooksForCatchAllInv ==
    ASSUME TreeSizes, TreeInv, NEW e \in Editors, Tree!SeedLooksForCatchAll(e)
    PROVE  TreeInv' /\ OthersKeep(e)
<1>1. /\ ops[e].at = "rooted" /\ UNCHANGED <<role, edges, filed>> /\ ops[e] \in TreeOps
      /\ Seeds(e)
      BY DEF Tree!SeedLooksForCatchAll, TreeInv, TreeTyped, Knows
<1>2. CASE \E c \in Tree!Live : role[c] = "catchall"
      BY <1>1, <1>2, IdlesInv DEF Tree!SeedLooksForCatchAll
<1>3. CASE ~ \E c \in Tree!Live : role[c] = "catchall"
      <2>1. PICK op : op = [ops[e] EXCEPT !.at = "catchless"]
            OBVIOUS
      <2>2. op \in TreeOps /\ op.at = "catchless" /\ op.into = ops[e].into
            BY <1>1, <2>1 DEF TreeOps
      <2>3. \A n \in Tree!Nodes : role[n] # "catchall"
            BY <1>3 DEF Tree!Live
      <2>4. Tree!Step(e, op)
            BY <1>3, <2>1 DEF Tree!SeedLooksForCatchAll
      <2>5. ASSUME ops'[e] = op PROVE Knows(e)' /\ Deletes(e)'
            <3>1. ops'[e].at = "catchless" /\ ops'[e].into = ops[e].into
                  BY <2>2, <2>5
            <3>2. Seeds(e)'
                  BY <1>1, <2>3, <3>1 DEF Seeds, Born
            <3>.  QED BY <3>1, <3>2 DEF Knows, Connects, Moves, Deletes
      <2>.  QED BY <1>1, <2>2, <2>4, <2>5, StepInv
<1>.  QED BY <1>2, <1>3

LEMMA AddsRootInv ==
    ASSUME TreeSizes, TreeInv, NEW e \in Editors, Tree!SeedAddsRoot(e)
    PROVE  TreeInv' /\ OthersKeep(e)
<1>1. PICK r \in Tree!Unborn :
          /\ role' = [role EXCEPT ![r] = "root"]
          /\ Tree!TreeWritten(e, {}, [ops[e] EXCEPT !.at = "rooted", !.into = r])
      BY Zenon DEF Tree!SeedAddsRoot
<1>2. ops[e].at = "rootless" /\ UNCHANGED <<edges, filed>>
      BY Zenon DEF Tree!SeedAddsRoot
<1>3. PICK op : op = [ops[e] EXCEPT !.at = "rooted", !.into = r]
      OBVIOUS
<1>4. /\ r \in Tree!Nodes /\ role[r] = "unborn" /\ role \in [Tree!Nodes -> Roles]
      /\ ops[e] \in TreeOps
      BY <1>1 DEF Tree!Unborn, TreeInv, TreeTyped
<1>5. op \in TreeOps /\ op.at = "rooted" /\ op.into = r
      BY <1>3, <1>4 DEF TreeOps
<1>6. Tree!TreeWritten(e, {}, op)
      BY <1>1, <1>3
<1>7. /\ ops' \in [Editors -> TreeOps] /\ ops'[e] = op /\ races' \in 0 .. MaxRaces
      /\ races' = 0 => races = 0 /\ ops[e].raced = 0
      /\ \A x \in Editors \ {e} :
            /\ Keeps(x) /\ ops'[x].late = ops[x].late
            /\ ops[x].at = "idle" \/ ops'[x].raced > 0
      BY <1>5, <1>6, WrittenOps DEF TreeInv
<1>8. Tree!Live' = Tree!Live \cup {r}
      BY <1>1, <1>4 DEF Tree!Live
<1>9. TreeTyped'
      BY <1>1, <1>2, <1>4, <1>7, <1>8 DEF TreeInv, TreeTyped, Roles
<1>10. Aging
      BY <1>1, <1>4 DEF Aging
<1>11. TreeShape'
      <2>1. ASSUME races' = 0
            PROVE  /\ \A m, n \in Tree!Live' : role'[m] = role'[n] /\ role'[m] # "folder" => m = n
                   /\ \A x \in edges : MayHold(x[1], x[2])'
                   /\ \A x, y \in edges : x[2] = y[2] => x = y
                   /\ Tree!Acyclic(edges)
            <3>1. /\ \A m, n \in Tree!Live : role[m] = role[n] /\ role[m] # "folder" => m = n
                  /\ \A x \in edges : MayHold(x[1], x[2])
                  /\ \A x, y \in edges : x[2] = y[2] => x = y
                  /\ Tree!Acyclic(edges)
                  BY <1>7, <2>1 DEF TreeInv, TreeShape
            <3>2. \A n \in Tree!Nodes : role[n] # "root"
                  BY <1>2, <1>7, <2>1 DEF TreeInv, Knows, Seeds, Unraced
            <3>3. /\ role'[r] = "root" /\ r \notin Tree!Live
                  /\ \A n \in Tree!Live : role'[n] = role[n] /\ role[n] # "root"
                  BY <1>1, <1>4, <3>2 DEF Tree!Live
            <3>4. \A m, n \in Tree!Live' : role'[m] = role'[n] /\ role'[m] # "folder" => m = n
                  BY <1>8, <3>1, <3>3
            <3>5. \A x \in edges : x[1] \in Tree!Live /\ x[2] \in Tree!Live
                  BY DEF TreeInv, TreeTyped
            <3>6. \A x \in edges : MayHold(x[1], x[2])'
                  BY <3>1, <3>3, <3>5 DEF MayHold
            <3>.  QED BY <3>1, <3>4, <3>6
      <2>.  QED BY <1>2, <2>1 DEF TreeShape
<1>12. Knows(e)' /\ Deletes(e)'
      <2>1. ops'[e].at = "rooted" /\ ops'[e].into = r /\ Born(r)' /\ role'[r] = "root"
            BY <1>1, <1>4, <1>5, <1>7 DEF Born
      <2>.  QED BY <2>1 DEF Knows, Connects, Moves, Seeds, Deletes
<1>.  QED BY <1>2, <1>7, <1>9, <1>10, <1>11, <1>12, RacedInv

LEMMA AddsCatchAllInv ==
    ASSUME TreeSizes, TreeInv, NEW e \in Editors, Tree!SeedAddsCatchAll(e)
    PROVE  TreeInv' /\ OthersKeep(e)
<1>1. ops[e].at = "catchless" /\ UNCHANGED filed /\ Seeds(e)
      BY DEF Tree!SeedAddsCatchAll, TreeInv, Knows
<1>2. CASE ops[e].into \notin Tree!Live
      BY <1>1, <1>2, IdlesInv DEF Tree!SeedAddsCatchAll
<1>3. CASE ops[e].into \in Tree!Live
      <2>1. PICK r \in Tree!Live : r = ops[e].into
            BY <1>3
      <2>2. PICK c \in Tree!Unborn : /\ role' = [role EXCEPT ![c] = "catchall"]
                                     /\ edges' = edges \cup {<<r, c>>}
            BY <1>3, <2>1 DEF Tree!SeedAddsCatchAll
      <2>3. Tree!TreeWritten(e, {}, Tree!Idle)
            BY <1>3 DEF Tree!SeedAddsCatchAll
      <2>4. /\ ops' \in [Editors -> TreeOps] /\ ops'[e] = Tree!Idle /\ races' \in 0 .. MaxRaces
            /\ races' = 0 => races = 0 /\ ops[e].raced = 0
            /\ \A x \in Editors \ {e} :
                  /\ Keeps(x) /\ ops'[x].late = ops[x].late
                  /\ ops[x].at = "idle" \/ ops'[x].raced > 0
            BY <2>3, IdleIs, WrittenOps DEF TreeInv
      <2>5. /\ c \in Tree!Nodes /\ role[c] = "unborn" /\ role \in [Tree!Nodes -> Roles]
            /\ r \in Tree!Nodes
            BY <2>2 DEF Tree!Unborn, TreeInv, TreeTyped, Tree!Live
      <2>6. Tree!Live' = Tree!Live \cup {c} /\ c \notin Tree!Live
            BY <2>2, <2>5 DEF Tree!Live
      <2>7. edges \subseteq Tree!Live \X Tree!Live
            BY DEF TreeInv, TreeTyped
      <2>8. TreeTyped'
            <3>1. edges' \subseteq Tree!Live' \X Tree!Live'
                  BY <2>2, <2>6, <2>7
            <3>2. filed' \in [Threads -> Tree!Live' \cup {NoNode}]
                  BY <1>1, <2>6 DEF TreeInv, TreeTyped
            <3>.  QED BY <2>2, <2>4, <2>5, <3>1, <3>2 DEF TreeTyped, Roles
      <2>9. Aging
            BY <2>2, <2>5 DEF Aging
      <2>10. TreeShape'
            <3>1. ASSUME races' = 0
                  PROVE  /\ \A m, n \in Tree!Live' :
                               role'[m] = role'[n] /\ role'[m] # "folder" => m = n
                         /\ \A x \in edges' : MayHold(x[1], x[2])'
                         /\ \A x, y \in edges' : x[2] = y[2] => x = y
                         /\ Tree!Acyclic(edges')
                  <4>1. /\ \A m, n \in Tree!Live :
                              role[m] = role[n] /\ role[m] # "folder" => m = n
                        /\ \A x \in edges : MayHold(x[1], x[2])
                        /\ \A x, y \in edges : x[2] = y[2] => x = y
                        /\ Tree!Acyclic(edges)
                        BY <2>4, <3>1 DEF TreeInv, TreeShape
                  <4>2. \A n \in Tree!Nodes : role[n] # "catchall"
                        BY <1>1, <2>4, <3>1 DEF Seeds, Unraced
                  <4>3. role[r] = "root"
                        BY <1>1, <2>1 DEF Seeds, Tree!Live
                  <4>4. /\ role'[c] = "catchall" /\ role'[r] = "root"
                        /\ \A n \in Tree!Live : role'[n] = role[n] /\ role[n] # "catchall"
                        BY <2>2, <2>5, <4>2, <4>3 DEF Tree!Live
                  <4>5. \A m, n \in Tree!Live' :
                            role'[m] = role'[n] /\ role'[m] # "folder" => m = n
                        BY <2>6, <4>1, <4>4
                  <4>6. \A x \in edges : x[1] \in Tree!Live /\ x[2] \in Tree!Live
                        BY <2>7
                  <4>7. \A x \in edges' : MayHold(x[1], x[2])'
                        BY <2>2, <4>1, <4>4, <4>6 DEF MayHold
                  <4>8. \A x, y \in edges' : x[2] = y[2] => x = y
                        BY <2>2, <2>6, <4>1, <4>6
                  <4>9. r \notin Tree!Below(edges, c)
                        <5>1. Closed(edges, {c})
                              BY <2>6, <4>6 DEF Closed
                        <5>2. Tree!Below(edges, c) \subseteq {c}
                              BY <5>1, NodesFinite, BelowStays
                        <5>.  QED BY <2>6, <5>2
                  <4>10. Tree!Acyclic(edges')
                        BY <2>2, <2>5, <2>7, <4>1, <4>9, NodesFinite, EdgeAcyclic
                  <4>.  QED BY <4>5, <4>7, <4>8, <4>10
            <3>.  QED BY <3>1 DEF TreeShape
      <2>11. Knows(e)' /\ Deletes(e)'
            BY <2>4, IdleIs DEF Knows, Connects, Moves, Seeds, Deletes
      <2>.  QED BY <1>1, <2>4, <2>8, <2>9, <2>10, <2>11, RacedInv
<1>.  QED BY <1>2, <1>3

LEMMA ImportInv ==
    ASSUME TreeSizes, TreeInv, NEW e \in Editors, NEW r \in Tree!Live, NEW N,
           N \subseteq Tree!Unborn, NEW c \in N, NEW E, E \subseteq (N \cup {r}) \X N,
           Tree!Import(e, r, N, E, c)
    PROVE  TreeInv' /\ OthersKeep(e)
<1>1. /\ role[r] = "root" /\ Tree!ValidTransfer(E, r, c) /\ edges' = E
      /\ Tree!TreeWritten(e, edges, Tree!Idle)
      BY DEF Tree!Import
<1>2. role' = [n \in Tree!Nodes |-> CASE n = c -> "catchall" [] n \in N \ {c} -> "folder"
                  [] n \in Tree!NonRoot -> "gone" [] OTHER -> role[n]]
      BY DEF Tree!Import
<1>3. PICK to \in [Tree!NonRoot -> N \cup {NoNode}] :
          filed' = [t \in Threads |-> IF filed[t] \in Tree!NonRoot THEN to[filed[t]] ELSE NoNode]
      BY DEF Tree!Import
<1>4. /\ N \subseteq Tree!Nodes /\ \A n \in N : role[n] = "unborn"
      /\ N \cap Tree!NonRoot = {} /\ role \in [Tree!Nodes -> Roles] /\ r \in Tree!Nodes
      /\ r \notin Tree!NonRoot /\ r \notin N
      BY <1>1 DEF Tree!Unborn, Tree!NonRoot, Tree!Live, TreeInv, TreeTyped
<1>5. /\ role'[c] = "catchall" /\ \A n \in N \ {c} : role'[n] = "folder"
      /\ \A n \in Tree!NonRoot : n \in Tree!Nodes /\ role'[n] = "gone"
      /\ \A n \in Tree!Nodes \ (N \cup Tree!NonRoot) : role'[n] = role[n]
      /\ role' \in [Tree!Nodes -> Roles]
      BY <1>2, <1>4 DEF Roles, Tree!NonRoot, Tree!Live
<1>6. /\ Tree!Live' = (Tree!Live \ Tree!NonRoot) \cup N
      /\ \A n \in Tree!Live \ Tree!NonRoot : role'[n] = "root" /\ role[n] = "root"
      <2>1. \A n \in Tree!Live \ Tree!NonRoot : role[n] = "root" /\ n \in Tree!Nodes \ N
            BY <1>4 DEF Tree!NonRoot, Tree!Live
      <2>2. \A n \in Tree!Nodes : n \in Tree!Live' <=> n \in (Tree!Live \ Tree!NonRoot) \cup N
            BY <1>4, <1>5 DEF Tree!Live, Tree!NonRoot
      <2>3. Tree!Live' \subseteq Tree!Nodes /\ Tree!Live \subseteq Tree!Nodes
            BY DEF Tree!Live
      <2>.  QED BY <1>4, <1>5, <2>1, <2>2, <2>3
<1>7. /\ ops' \in [Editors -> TreeOps] /\ ops'[e] = Tree!Idle /\ races' \in 0 .. MaxRaces
      /\ races' = 0 => races = 0 /\ ops[e].raced = 0
      /\ \A x \in Editors \ {e} :
            /\ Keeps(x) /\ ops'[x].late = ops[x].late
            /\ ops[x].at = "idle" \/ ops'[x].raced > 0
      BY <1>1, IdleIs, WrittenOps DEF TreeInv
<1>8. \A t \in Threads : filed'[t] \in N \cup {NoNode}
      BY <1>3
<1>9. TreeTyped'
      <2>1. edges' \subseteq Tree!Live' \X Tree!Live'
            BY <1>1, <1>4, <1>6
      <2>2. filed' \in [Threads -> Tree!Live' \cup {NoNode}]
            BY <1>3, <1>6, <1>8
      <2>.  QED BY <1>5, <1>7, <2>1, <2>2 DEF TreeTyped
<1>10. Aging
      BY <1>4, <1>5 DEF Aging
<1>11. TreeShape'
      <2>1. ASSUME races' = 0
            PROVE  /\ \A m, n \in Tree!Live' : role'[m] = role'[n] /\ role'[m] # "folder" => m = n
                   /\ \A x \in E : MayHold(x[1], x[2])'
                   /\ \A x, y \in E : x[2] = y[2] => x = y
                   /\ Tree!Acyclic(E)
            <3>1. \A m, n \in Tree!Live : role[m] = role[n] /\ role[m] # "folder" => m = n
                  BY <1>7, <2>1 DEF TreeInv, TreeShape
            <3>2. \A m, n \in Tree!Live' : role'[m] = role'[n] /\ role'[m] # "folder" => m = n
                  BY <1>5, <1>6, <3>1
            <3>3. /\ \A x \in E : x[2] # r /\ x[1] # c /\ (x[2] = c => x[1] = r)
                  /\ \A x, y \in E : x[2] = y[2] => x = y
                  /\ Tree!Acyclic(E)
                  BY <1>1 DEF Tree!ValidTransfer
            <3>4. role'[r] = "root"
                  BY <1>4, <1>6
            <3>5. \A x \in E : x[1] \in N \cup {r} /\ x[2] \in N
                  OBVIOUS
            <3>6. \A x \in E : MayHold(x[1], x[2])'
                  BY <1>5, <3>3, <3>4, <3>5 DEF MayHold
            <3>.  QED BY <3>2, <3>3, <3>6
      <2>.  QED BY <1>1, <2>1 DEF TreeShape
<1>12. Knows(e)' /\ Deletes(e)'
      BY <1>7, IdleIs DEF Knows, Connects, Moves, Seeds, Deletes
<1>13. \A x \in Editors \ {e} :
         ops[x].at \in {"leaf", "emptied", "cut"} /\ Tree!Emptied(ops[x]) =>
             \A t \in Threads : filed'[t] = ops[x].target =>
                 filed[t] = ops[x].target \/ t \in ops'[x].late
      BY <1>4, <1>8 DEF TreeInv, Deletes, Born, TreeSizes
<1>.  QED BY <1>7, <1>9, <1>10, <1>11, <1>12, <1>13, RacedInv

-----------------------------------------------------------------------------
(* What the requests keep together.                                          *)

LEMMA TreeBegins ==
    ASSUME TreeSizes, Tree!Init
    PROVE  TreeInv
<1>1. PICK E \in SUBSET (({Inbox} \cup Folders) \X Folders) :
          Tree!ValidTransfer(E, Inbox, CatchAll) /\ edges = E \cup {<<Inbox, CatchAll>>}
      BY DEF Tree!Init
<1>2. /\ role \in [Tree!Nodes -> Roles]
      /\ role[Inbox] = "root" /\ role[CatchAll] = "catchall"
      /\ \A n \in Folders : role[n] = "folder"
      /\ \A n \in Fresh : role[n] = "unborn"
      BY DEF Tree!Init, TreeSizes, Tree!Nodes, Roles
<1>3. Tree!Live = {Inbox, CatchAll} \cup Folders
      BY <1>2 DEF Tree!Live, Tree!Nodes, TreeSizes
<1>4. /\ ops = [e \in Editors |-> Tree!Idle] /\ filed = [t \in Threads |-> NoNode] /\ races = 0
      BY DEF Tree!Init
<1>5. TreeTyped
      <2>1. edges \subseteq Tree!Live \X Tree!Live
            BY <1>1, <1>3
      <2>2. ops \in [Editors -> TreeOps] /\ filed \in [Threads -> Tree!Live \cup {NoNode}]
            BY <1>4, IdleIs
      <2>3. races \in 0 .. MaxRaces
            BY <1>4 DEF TreeSizes
      <2>.  QED BY <1>2, <2>1, <2>2, <2>3 DEF TreeTyped
<1>6. /\ \A x, y \in E : x[2] = y[2] => x = y
      /\ Tree!Acyclic(E)
      BY <1>1 DEF Tree!ValidTransfer
<1>7. \A x \in E : x[1] \in {Inbox} \cup Folders /\ x[2] \in Folders
      BY <1>1
<1>8. Tree!Acyclic(edges)
      <2>1. /\ E \subseteq Tree!Nodes \X Tree!Nodes /\ Inbox \in Tree!Nodes
            /\ CatchAll \in Tree!Nodes /\ Inbox # CatchAll
            BY <1>1 DEF Tree!Nodes, TreeSizes
      <2>2. Closed(E, {CatchAll})
            BY <1>7 DEF Closed, TreeSizes
      <2>3. Inbox \notin Tree!Below(E, CatchAll)
            <3>1. Tree!Below(E, CatchAll) \subseteq {CatchAll}
                  BY <2>2, NodesFinite, BelowStays
            <3>.  QED BY <2>1, <3>1
      <2>.  QED BY <1>1, <1>6, <2>1, <2>3, NodesFinite, EdgeAcyclic
<1>9. TreeShape
      <2>1. \A m, n \in Tree!Live : role[m] = role[n] /\ role[m] # "folder" => m = n
            BY <1>2, <1>3
      <2>2. \A x \in edges : MayHold(x[1], x[2])
            BY <1>1, <1>2, <1>7 DEF MayHold
      <2>3. \A x, y \in edges : x[2] = y[2] => x = y
            BY <1>1, <1>6, <1>7 DEF TreeSizes
      <2>.  QED BY <1>8, <2>1, <2>2, <2>3 DEF TreeShape
<1>10. \A x \in Editors : Knows(x) /\ Deletes(x)
      BY <1>4, IdleIs, KnowsNothing
<1>.  QED BY <1>5, <1>9, <1>10 DEF TreeInv

\* The requests of TaxonomyTree, one by one.
LEMMA RequestInv ==
    ASSUME TreeSizes, TreeInv, NEW e \in Editors,
           \/ Tree!EdgeRequests(e) \/ Tree!NodeRequests(e) \/ Tree!TreeRequests(e)
           \/ Tree!Crash(e)
    PROVE  TreeInv' /\ OthersKeep(e)
<1>1. CASE Tree!EdgeRequests(e)
      BY <1>1, ConnectReadsInv, ConnectChecksInv, ConnectWritesInv, MoveReadsInv,
         MoveChecksInv, MoveWritesInv, DisconnectInv DEF Tree!EdgeRequests
<1>2. CASE Tree!NodeRequests(e)
      BY <1>2, CountsInv, AddsInv, DeleteReadsInv, DeleteMovesInv, DeleteCutsInv,
         DeleteRemovesInv DEF Tree!NodeRequests
<1>3. CASE Tree!TreeRequests(e)
      <2>1. CASE \E r \in Tree!Live, N \in SUBSET Tree!Unborn : \E c \in N :
                 \E E \in SUBSET ((N \cup {r}) \X N) : Tree!Import(e, r, N, E, c)
            <3>1. PICK r \in Tree!Live, N \in SUBSET Tree!Unborn : \E c \in N :
                      \E E \in SUBSET ((N \cup {r}) \X N) : Tree!Import(e, r, N, E, c)
                  BY <2>1
            <3>2. PICK c \in N, E \in SUBSET ((N \cup {r}) \X N) : Tree!Import(e, r, N, E, c)
                  BY <3>1
            <3>3. N \subseteq Tree!Unborn /\ E \subseteq (N \cup {r}) \X N
                  OBVIOUS
            <3>.  QED BY <3>2, <3>3, ImportInv
      <2>.  QED BY <1>3, <2>1, WipesInv, LooksForRootInv, AddsRootInv, LooksForCatchAllInv,
                   AddsCatchAllInv DEF Tree!TreeRequests
<1>4. CASE Tree!Crash(e)
      BY <1>4, CrashInv
<1>.  QED BY <1>1, <1>2, <1>3, <1>4

LEMMA TreeStep ==
    ASSUME TreeSizes, TreeInv, [Tree!Next]_Tree!vars
    PROVE  TreeInv'
<1>1. CASE UNCHANGED Tree!vars
      <2>1. UNCHANGED <<role, edges, filed, ops, races>>
            BY <1>1 DEF Tree!vars
      <2>.  QED BY <2>1 DEF TreeInv, TreeTyped, TreeShape, Knows, Connects, Moves, Seeds, Deletes,
                    Born, MayHold, Unraced, Tree!Live
<1>2. CASE Tree!Next
      BY <1>2, RequestInv, FilesInv DEF Tree!Next
<1>.  QED BY <1>1, <1>2

\* Requests that overlap no other's write keep the folders a tree: one root and one
\* catch-all, a parent for a folder and no cycle, whatever else is edited, imported, reset,
\* deleted or crashes; edges join nodes that exist (taxonomy-edges.ts, which looks before
\* it writes and holds no lock).
THEOREM LoneEditsKept ==
    ASSUME TreeSizes
    PROVE  Tree!Spec => [](Tree!TreeTypeOK /\ Tree!LoneEditsKeepTree)
<1>1. TreeInv => Tree!TreeTypeOK
      BY DEF TreeInv, TreeTyped, Roles, Knows, Connects, Moves, Deletes, Born, Tree!TreeTypeOK
<1>2. ASSUME TreeInv
      PROVE  Tree!LoneEditsKeepTree
      <2>1. SUFFICES ASSUME races = 0
                     PROVE  /\ \A m, n \in Tree!Live :
                                  role[m] = role[n] /\ role[m] # "folder" => m = n
                            /\ \A n \in Tree!Live : role[n] = "root" => \A c \in Tree!Live :
                                  role[c] = "catchall" => Tree!ValidTransfer(edges, n, c)
            BY DEF Tree!LoneEditsKeepTree
      <2>2. /\ \A m, n \in Tree!Live : role[m] = role[n] /\ role[m] # "folder" => m = n
            /\ \A x \in edges : MayHold(x[1], x[2])
            /\ \A x, y \in edges : x[2] = y[2] => x = y
            /\ Tree!Acyclic(edges)
            BY <1>2, <2>1 DEF TreeInv, TreeShape
      <2>3. ASSUME NEW n \in Tree!Live, role[n] = "root",
                   NEW c \in Tree!Live, role[c] = "catchall"
            PROVE  Tree!ValidTransfer(edges, n, c)
            <3>1. ASSUME NEW x \in edges
                  PROVE  x[2] # n /\ x[1] # c /\ (x[2] = c => x[1] = n)
                  <4>1. MayHold(x[1], x[2]) /\ x[1] \in Tree!Live
                        BY <1>2, <2>2 DEF TreeInv, TreeTyped
                  <4>2. role[x[1]] # "gone"
                        BY <4>1 DEF Tree!Live
                  <4>.  QED BY <2>2, <2>3, <4>1, <4>2 DEF MayHold
            <3>.  QED BY <2>2, <3>1 DEF Tree!ValidTransfer
      <2>.  QED BY <2>2, <2>3
<1>.  QED BY <1>1, <1>2, TreeBegins, TreeStep, PTL DEF Tree!Spec

\* A deletion that names another folder for its threads leaves none without a folder, but for
\* one that arrived after the folder was counted or emptied (taxonomy-nodes.ts moves, then
\* deletes).
THEOREM DeletionsMoveThreads ==
    ASSUME TreeSizes
    PROVE  Tree!Spec => [][Tree!DeletionMovesThreads]_Tree!vars
<1>1. ASSUME TreeInv, [Tree!Next]_Tree!vars
      PROVE  [Tree!DeletionMovesThreads]_Tree!vars
      <2>1. SUFFICES ASSUME Tree!Next, NEW e \in Editors, ops[e].at = "cut", ops'[e].at = "idle",
                            ops[e].into \notin {NoNode, ops[e].target}, NEW t \in Threads,
                            filed[t] # NoNode, filed'[t] = NoNode
                     PROVE  t \in ops[e].late
            BY <1>1 DEF Tree!DeletionMovesThreads
      <2>2. Deletes(e)
            BY <1>1 DEF TreeInv
      <2>3. ~ \E s \in Threads, n \in Tree!Nodes : Tree!Files(s, n)
            BY <1>1, <2>1, FilesInv DEF Keeps
      <2>4. PICK x \in Editors : \/ Tree!EdgeRequests(x) \/ Tree!NodeRequests(x)
                                 \/ Tree!TreeRequests(x) \/ Tree!Crash(x)
            BY <2>1, <2>3 DEF Tree!Next
      <2>5. OthersKeep(x)
            BY <1>1, <2>4, RequestInv
      <2>6. x = e
            BY <2>1, <2>5 DEF OthersKeep, Keeps
      <2>7. Tree!DeleteRemoves(e) \/ Tree!Crash(e)
            <3>1. ~Tree!EdgeRequests(e)
                  BY <2>1 DEF Tree!EdgeRequests, Tree!ConnectReads, Tree!ConnectChecksCycle,
                     Tree!ConnectWrites, Tree!MoveReads, Tree!MoveChecksCycle, Tree!MoveWrites,
                     Tree!Disconnect
            <3>2. Tree!NodeRequests(e) => Tree!DeleteRemoves(e)
                  BY <2>1 DEF Tree!NodeRequests, Tree!CountsFolders, Tree!AddsFolder,
                     Tree!DeleteReads, Tree!DeleteMovesThreads, Tree!DeleteCutsParents
            <3>3. ~Tree!TreeRequests(e)
                  BY <2>1, Zenon DEF Tree!TreeRequests, Tree!Import, Tree!ResetWipes,
                     Tree!SeedLooksForRoot, Tree!SeedAddsRoot, Tree!SeedLooksForCatchAll,
                     Tree!SeedAddsCatchAll
            <3>.  QED BY <2>4, <2>6, <3>1, <3>2, <3>3
      <2>8. filed[t] = ops[e].target
            <3>1. CASE Tree!Crash(e)
                  BY <2>1, <3>1 DEF Tree!Crash
            <3>2. CASE Tree!DeleteRemoves(e)
                  BY <2>1, <3>2 DEF Tree!DeleteRemoves
            <3>.  QED BY <2>7, <3>1, <3>2
      <2>.  QED BY <2>1, <2>2, <2>8 DEF Deletes, Tree!Emptied
<1>.  QED BY <1>1, TreeBegins, TreeStep, PTL DEF Tree!Spec

-----------------------------------------------------------------------------
(* The folder cap.                                                           *)

\* Requests that may create a node without counting the nodes again.
AddSteps == {"counted", "wiped", "rootless", "rooted", "catchless"}
Adding == {x \in Editors : ops[x].at \in AddSteps}

TreeRoom ==
    Cardinality(Tree!NonRoot) + Cardinality(Adding) <= Cap + Cardinality(Editors) - 1

LEMMA RoomFinite ==
    ASSUME TreeSizes
    PROVE  /\ IsFiniteSet(Tree!NonRoot) /\ Cardinality(Tree!NonRoot) \in Nat
           /\ IsFiniteSet(Adding) /\ Cardinality(Adding) \in Nat
           /\ Cardinality(Editors) \in Nat /\ Cap \in Nat /\ Cap > 0
           /\ \A e \in Editors : e \notin Adding => Cardinality(Adding) < Cardinality(Editors)
<1>1. Tree!NonRoot \subseteq Tree!Nodes /\ Adding \subseteq Editors
      BY DEF Tree!NonRoot, Tree!Live, Adding
<1>2. IsFiniteSet(Tree!NonRoot) /\ IsFiniteSet(Adding) /\ IsFiniteSet(Editors)
      BY <1>1, NodesFinite, FS_Subset DEF TreeSizes
<1>3. /\ Cardinality(Adding) <= Cardinality(Editors)
      /\ Cardinality(Editors) = Cardinality(Adding) => Editors = Adding
      BY <1>1, <1>2, FS_Subset
<1>4. /\ Cardinality(Tree!NonRoot) \in Nat /\ Cardinality(Adding) \in Nat
      /\ Cardinality(Editors) \in Nat
      BY <1>2, FS_CardinalityType
<1>5. Cap \in Nat /\ Cap > 0
      <2>1. IsFiniteSet({CatchAll} \cup Folders)
            BY FS_Singleton, FS_Union DEF TreeSizes
      <2>2. /\ Cardinality({CatchAll} \cup Folders) \in Nat
            /\ Cardinality({CatchAll} \cup Folders) # 0
            BY <2>1, FS_CardinalityType, FS_EmptySet
      <2>.  QED BY <2>2 DEF TreeSizes
<1>.  QED BY <1>2, <1>3, <1>4, <1>5

LEMMA AddingMoves ==
    ASSUME TreeSizes, NEW e \in Editors, OthersKeep(e)
    PROVE  /\ Cardinality(Adding') \in Nat /\ Cardinality(Adding') <= Cardinality(Editors)
           /\ (ops[e].at \in AddSteps <=> ops'[e].at \in AddSteps) =>
                 Cardinality(Adding') = Cardinality(Adding)
           /\ ops[e].at \in AddSteps /\ ops'[e].at \notin AddSteps =>
                 Cardinality(Adding') = Cardinality(Adding) - 1
           /\ ops[e].at \notin AddSteps /\ ops'[e].at \in AddSteps =>
                 Cardinality(Adding') = Cardinality(Adding) + 1
<1>1. Adding \ {e} = Adding' \ {e}
      BY DEF Adding, OthersKeep, Keeps
<1>2. /\ e \in Adding <=> ops[e].at \in AddSteps
      /\ e \in Adding' <=> ops'[e].at \in AddSteps
      BY DEF Adding
<1>3. IsFiniteSet(Adding)
      BY RoomFinite
<1>4. Adding' \subseteq Editors
      BY DEF Adding
<1>5. Cardinality(Adding') <= Cardinality(Editors)
      BY <1>4, FS_Subset DEF TreeSizes
<1>.  QED BY <1>1, <1>2, <1>3, <1>5, OneMoves

\* A request that creates no node, and is not about to.
LEMMA RoomStays ==
    ASSUME TreeSizes, TreeRoom, NEW e \in Editors, OthersKeep(e),
           Tree!NonRoot' \subseteq Tree!NonRoot,
           ops'[e].at \in AddSteps => ops[e].at \in AddSteps
    PROVE  TreeRoom'
<1>1. /\ IsFiniteSet(Tree!NonRoot) /\ Cardinality(Tree!NonRoot) \in Nat
      /\ Cardinality(Adding) \in Nat /\ Cardinality(Editors) \in Nat /\ Cap \in Nat
      BY RoomFinite
<1>2. IsFiniteSet(Tree!NonRoot') /\ Cardinality(Tree!NonRoot') <= Cardinality(Tree!NonRoot)
      BY <1>1, FS_Subset
<1>3. Cardinality(Tree!NonRoot') \in Nat
      BY <1>2, FS_CardinalityType
<1>4. Cardinality(Adding') \in Nat /\ Cardinality(Adding') <= Cardinality(Adding)
      BY <1>1, AddingMoves
<1>5. Cardinality(Tree!NonRoot) + Cardinality(Adding) <= Cap + Cardinality(Editors) - 1
      BY DEF TreeRoom
<1>6. Cardinality(Tree!NonRoot') + Cardinality(Adding') <= Cap + Cardinality(Editors) - 1
      BY <1>1, <1>2, <1>3, <1>4, <1>5
<1>.  QED BY <1>6 DEF TreeRoom

\* A request that creates one node, and no more.
LEMMA RoomTaken ==
    ASSUME TreeSizes, TreeRoom, NEW e \in Editors, OthersKeep(e), NEW n,
           Tree!NonRoot' = Tree!NonRoot \cup {n},
           ops[e].at \in AddSteps, ops'[e].at \notin AddSteps
    PROVE  TreeRoom'
<1>1. /\ IsFiniteSet(Tree!NonRoot) /\ Cardinality(Tree!NonRoot) \in Nat
      /\ Cardinality(Adding) \in Nat /\ Cardinality(Editors) \in Nat /\ Cap \in Nat
      BY RoomFinite
<1>2. /\ IsFiniteSet(Tree!NonRoot')
      /\ \/ Cardinality(Tree!NonRoot') = Cardinality(Tree!NonRoot)
         \/ Cardinality(Tree!NonRoot') = Cardinality(Tree!NonRoot) + 1
      BY <1>1, FS_AddElement
<1>3. Cardinality(Adding') \in Nat /\ Cardinality(Adding') = Cardinality(Adding) - 1
      BY AddingMoves
<1>4. Cardinality(Tree!NonRoot) + Cardinality(Adding) <= Cap + Cardinality(Editors) - 1
      BY DEF TreeRoom
<1>5. Cardinality(Tree!NonRoot') + Cardinality(Adding') <= Cap + Cardinality(Editors) - 1
      BY <1>1, <1>2, <1>3, <1>4
<1>.  QED BY <1>5 DEF TreeRoom

\* The requests that neither create a node nor count them.
LEMMA NoneAdds ==
    ASSUME TreeSizes, TreeInv, NEW e \in Editors,
           \/ Tree!EdgeRequests(e) \/ Tree!Crash(e)
           \/ \E n \in Tree!Nodes, d \in Tree!Nodes \cup {NoNode} : Tree!DeleteReads(e, n, d)
           \/ Tree!DeleteMovesThreads(e) \/ Tree!DeleteCutsParents(e) \/ Tree!DeleteRemoves(e)
    PROVE  Tree!NonRoot' \subseteq Tree!NonRoot /\ ops'[e].at \notin AddSteps
<1>1. ops[e] \in TreeOps /\ ops \in [Editors -> TreeOps] /\ role \in [Tree!Nodes -> Roles]
      BY DEF TreeInv, TreeTyped
<1>2. Tree!NonRoot' \subseteq Tree!NonRoot
      <2>1. CASE UNCHANGED role
            BY <2>1 DEF Tree!NonRoot, Tree!Live
      <2>2. CASE Tree!DeleteRemoves(e) /\ ~UNCHANGED role
            <3>1. role' = [role EXCEPT ![ops[e].target] = "gone"]
                  BY <2>2 DEF Tree!DeleteRemoves
            <3>.  QED BY <1>1, <3>1 DEF Tree!NonRoot, Tree!Live
      <2>3. Tree!EdgeRequests(e) => UNCHANGED role
            <3>1. ASSUME NEW s \in Tree!Nodes, NEW t \in Tree!Nodes, Tree!ConnectReads(e, s, t)
                  PROVE  UNCHANGED role
                  BY <3>1, Zenon DEF Tree!ConnectReads
            <3>2. ASSUME NEW x \in edges, NEW s \in Tree!Nodes, Tree!MoveReads(e, x, s)
                  PROVE  UNCHANGED role
                  BY <3>2, Zenon DEF Tree!MoveReads
            <3>3. ASSUME NEW x \in edges, Tree!Disconnect(e, x)
                  PROVE  UNCHANGED role
                  BY <3>3, Zenon DEF Tree!Disconnect
            <3>4. Tree!ConnectChecksCycle(e) \/ Tree!MoveChecksCycle(e) => UNCHANGED role
                  BY Zenon DEF Tree!ConnectChecksCycle, Tree!MoveChecksCycle
            <3>5. Tree!ConnectWrites(e) \/ Tree!MoveWrites(e) => UNCHANGED role
                  BY Zenon DEF Tree!ConnectWrites, Tree!MoveWrites
            <3>.  QED BY <3>1, <3>2, <3>3, <3>4, <3>5 DEF Tree!EdgeRequests
      <2>4. ASSUME NEW n \in Tree!Nodes, NEW d \in Tree!Nodes \cup {NoNode},
                   Tree!DeleteReads(e, n, d)
            PROVE  UNCHANGED role
            BY <2>4, Zenon DEF Tree!DeleteReads
      <2>5. Tree!DeleteMovesThreads(e) \/ Tree!DeleteCutsParents(e) \/ Tree!Crash(e)
               => UNCHANGED role
            BY Zenon DEF Tree!DeleteMovesThreads, Tree!DeleteCutsParents, Tree!Crash
      <2>.  QED BY <2>1, <2>2, <2>3, <2>4, <2>5
<1>3. ASSUME NEW op, Tree!Step(e, op) PROVE ops'[e] = op
      BY <1>1, <1>3 DEF Tree!Step
<1>4. ASSUME NEW op, NEW removed,
             Tree!TreeWritten(e, removed, op) \/ Tree!EdgesRemoved(e, removed, op)
      PROVE  ops'[e] = op
      BY <1>4 DEF Tree!TreeWritten, Tree!EdgesRemoved
<1>5. \A at : [Tree!Idle EXCEPT !.at = at].at = at /\ [ops[e] EXCEPT !.at = at].at = at
      BY <1>1 DEF TreeOps, Tree!Idle
<1>6. Tree!Idle.at \notin AddSteps
      BY IdleIs DEF AddSteps
<1>7. CASE \/ Tree!ConnectWrites(e) \/ Tree!MoveWrites(e) \/ Tree!DeleteRemoves(e)
           \/ Tree!Crash(e) \/ \E x \in edges : Tree!Disconnect(e, x)
      <2>1. ops'[e] = Tree!Idle
            BY <1>3, <1>4, <1>7 DEF Tree!ConnectWrites, Tree!MoveWrites, Tree!DeleteRemoves,
               Tree!Crash, Tree!Disconnect
      <2>.  QED BY <1>2, <1>6, <2>1
<1>8. CASE Tree!ConnectChecksCycle(e) \/ Tree!MoveChecksCycle(e)
      <2>1. \/ ops'[e] = Tree!Idle \/ ops'[e] = [ops[e] EXCEPT !.at = "connecting"]
            \/ ops'[e] = [ops[e] EXCEPT !.at = "moving"]
            BY <1>3, <1>8 DEF Tree!ConnectChecksCycle, Tree!MoveChecksCycle
      <2>.  QED BY <1>2, <1>5, <1>6, <2>1 DEF AddSteps
<1>9. CASE Tree!DeleteMovesThreads(e)
      <2>1. \/ ops'[e] = Tree!Idle \/ ops'[e] = [ops[e] EXCEPT !.at = "emptied"]
            BY <1>3, <1>9 DEF Tree!DeleteMovesThreads
      <2>.  QED BY <1>2, <1>5, <1>6, <2>1 DEF AddSteps
<1>10. CASE Tree!DeleteCutsParents(e)
      <2>1. ops'[e] = [ops[e] EXCEPT !.at = "cut"]
            BY <1>4, <1>10 DEF Tree!DeleteCutsParents
      <2>.  QED BY <1>2, <1>5, <2>1 DEF AddSteps
<1>11. CASE \E s, t \in Tree!Nodes : Tree!ConnectReads(e, s, t)
      <2>1. PICK s, t \in Tree!Nodes : Tree!ConnectReads(e, s, t)
            BY <1>11
      <2>2. PICK op : op = [Tree!Idle EXCEPT !.at = "parentless", !.source = s, !.target = t]
            OBVIOUS
      <2>3. Tree!Step(e, op) /\ op.at = "parentless"
            BY <2>1, <2>2 DEF Tree!ConnectReads, Tree!Idle
      <2>.  QED BY <1>2, <1>3, <2>3 DEF AddSteps
<1>12. CASE \E x \in edges, s \in Tree!Nodes : Tree!MoveReads(e, x, s)
      <2>1. PICK x \in edges, s \in Tree!Nodes : Tree!MoveReads(e, x, s)
            BY <1>12
      <2>2. PICK op : op = [Tree!Idle EXCEPT !.at = "unmoved", !.source = x[1],
                                             !.target = x[2], !.into = s]
            OBVIOUS
      <2>3. Tree!Step(e, op) /\ op.at = "unmoved"
            BY <2>1, <2>2 DEF Tree!MoveReads, Tree!Idle
      <2>.  QED BY <1>2, <1>3, <2>3 DEF AddSteps
<1>13. CASE \E n \in Tree!Nodes, d \in Tree!Nodes \cup {NoNode} : Tree!DeleteReads(e, n, d)
      <2>1. PICK n \in Tree!Nodes, d \in Tree!Nodes \cup {NoNode} : Tree!DeleteReads(e, n, d)
            BY <1>13
      <2>2. PICK hung \in BOOLEAN : hung = Tree!HasParent(edges, n)
            BY DEF Tree!HasParent
      <2>3. PICK filled \in BOOLEAN : filled = \E t \in Threads : filed[t] = n
            OBVIOUS
      <2>4. PICK op : op = [Tree!Idle EXCEPT !.at = "leaf", !.target = n, !.into = d,
                                             !.hung = hung, !.filled = filled]
            OBVIOUS
      <2>5. Tree!Step(e, op)
            BY <2>1, <2>2, <2>3, <2>4, Zenon DEF Tree!DeleteReads
      <2>6. op.at = "leaf"
            BY <2>4 DEF Tree!Idle
      <2>.  QED BY <1>2, <1>3, <2>5, <2>6 DEF AddSteps
<1>.  QED BY <1>7, <1>8, <1>9, <1>10, <1>11, <1>12, <1>13 DEF Tree!EdgeRequests

\* The seeding's looks, and the root, which the cap leaves out.
LEMMA SeedRoom ==
    ASSUME TreeSizes, TreeInv, TreeRoom, NEW e \in Editors, OthersKeep(e),
           \/ Tree!SeedLooksForRoot(e) \/ Tree!SeedAddsRoot(e) \/ Tree!SeedLooksForCatchAll(e)
    PROVE  TreeRoom'
<1>1. role \in [Tree!Nodes -> Roles]
      BY DEF TreeInv, TreeTyped
<1>2. ops[e].at \in AddSteps
      <2>1. ops[e].at = "wiped" \/ ops[e].at = "rootless" \/ ops[e].at = "rooted"
            BY Zenon DEF Tree!SeedLooksForRoot, Tree!SeedAddsRoot, Tree!SeedLooksForCatchAll
      <2>.  QED BY <2>1 DEF AddSteps
<1>3. Tree!NonRoot' \subseteq Tree!NonRoot
      <2>1. CASE Tree!SeedAddsRoot(e)
            <3>1. PICK r \in Tree!Unborn : role' = [role EXCEPT ![r] = "root"]
                  BY <2>1, Zenon DEF Tree!SeedAddsRoot
            <3>.  QED BY <1>1, <3>1 DEF Tree!NonRoot, Tree!Live
      <2>2. CASE Tree!SeedLooksForRoot(e) \/ Tree!SeedLooksForCatchAll(e)
            <3>1. UNCHANGED role
                  BY <2>2, Zenon DEF Tree!SeedLooksForRoot, Tree!SeedLooksForCatchAll
            <3>.  QED BY <3>1 DEF Tree!NonRoot, Tree!Live
      <2>.  QED BY <2>1, <2>2
<1>.  QED BY <1>2, <1>3, RoomStays

\* A request that counted the nodes creates one folder.
LEMMA AddsRoom ==
    ASSUME TreeSizes, TreeInv, TreeRoom, NEW e \in Editors, OthersKeep(e), Tree!AddsFolder(e)
    PROVE  TreeRoom'
<1>1. role \in [Tree!Nodes -> Roles] /\ ops \in [Editors -> TreeOps]
      BY DEF TreeInv, TreeTyped
<1>2. PICK n \in Tree!Unborn : role' = [role EXCEPT ![n] = "folder"]
      BY Zenon DEF Tree!AddsFolder
<1>3. Tree!NonRoot' = Tree!NonRoot \cup {n}
      BY <1>1, <1>2 DEF Tree!NonRoot, Tree!Live, Tree!Unborn
<1>4. ops[e].at \in AddSteps
      BY DEF Tree!AddsFolder, AddSteps
<1>5. ops'[e] = Tree!Idle
      BY <1>1 DEF Tree!AddsFolder, Tree!Step
<1>6. ops'[e].at \notin AddSteps
      BY <1>5, IdleIs DEF AddSteps
<1>.  QED BY <1>3, <1>4, <1>6, RoomTaken

\* The seeding creates one catch-all, or none when its root is gone.
LEMMA CatchAllRoom ==
    ASSUME TreeSizes, TreeInv, TreeRoom, NEW e \in Editors, OthersKeep(e),
           Tree!SeedAddsCatchAll(e)
    PROVE  TreeRoom'
<1>1. role \in [Tree!Nodes -> Roles] /\ ops \in [Editors -> TreeOps]
      BY DEF TreeInv, TreeTyped
<1>2. ops[e].at \in AddSteps
      BY DEF Tree!SeedAddsCatchAll, AddSteps
<1>3. ops'[e] = Tree!Idle
      BY <1>1 DEF Tree!SeedAddsCatchAll, Tree!Step, Tree!TreeWritten
<1>4. ops'[e].at \notin AddSteps
      BY <1>3, IdleIs DEF AddSteps
<1>5. CASE \E c \in Tree!Unborn : role' = [role EXCEPT ![c] = "catchall"]
      <2>1. PICK c \in Tree!Unborn : role' = [role EXCEPT ![c] = "catchall"]
            BY <1>5
      <2>2. Tree!NonRoot' = Tree!NonRoot \cup {c}
            BY <1>1, <2>1 DEF Tree!NonRoot, Tree!Live, Tree!Unborn
      <2>.  QED BY <1>2, <1>4, <2>2, RoomTaken
<1>6. CASE UNCHANGED role
      <2>1. Tree!NonRoot' \subseteq Tree!NonRoot
            BY <1>6 DEF Tree!NonRoot, Tree!Live
      <2>.  QED BY <1>4, <2>1, RoomStays
<1>7. (\E c \in Tree!Unborn : role' = [role EXCEPT ![c] = "catchall"]) \/ UNCHANGED role
      BY Zenon DEF Tree!SeedAddsCatchAll
<1>.  QED BY <1>5, <1>6, <1>7

\* A request counts the nodes, and finds room for one more.
LEMMA CountRoom ==
    ASSUME TreeSizes, TreeInv, TreeRoom, NEW e \in Editors, OthersKeep(e),
           Tree!CountsFolders(e)
    PROVE  TreeRoom'
<1>1. /\ IsFiniteSet(Tree!NonRoot) /\ Cardinality(Tree!NonRoot) \in Nat
      /\ Cardinality(Adding) \in Nat /\ Cardinality(Editors) \in Nat /\ Cap \in Nat
      /\ e \notin Adding => Cardinality(Adding) < Cardinality(Editors)
      BY RoomFinite
<1>2. Tree!NonRoot' = Tree!NonRoot
      BY DEF Tree!CountsFolders, Tree!NonRoot, Tree!Live
<1>3. Cardinality(Tree!NonRoot) < Cap
      <2>1. Tree!Cardinality(Tree!NonRoot) < Cap
            BY DEF Tree!CountsFolders
      <2>.  QED BY <2>1, TreeCount
<1>4. Cardinality(Adding') \in Nat /\ Cardinality(Adding') <= Cardinality(Editors)
      BY AddingMoves
<1>5. Cardinality(Tree!NonRoot') + Cardinality(Adding') <= Cap + Cardinality(Editors) - 1
      BY <1>1, <1>2, <1>3, <1>4
<1>.  QED BY <1>5 DEF TreeRoom

\* A reset leaves nothing to count.
LEMMA ResetRoom ==
    ASSUME TreeSizes, TreeInv, TreeRoom, NEW e \in Editors, OthersKeep(e), Tree!ResetWipes(e)
    PROVE  TreeRoom'
<1>1. Cardinality(Editors) \in Nat /\ Cap \in Nat /\ Cap > 0
      BY RoomFinite
<1>2. role' = [n \in Tree!Nodes |-> IF n \in Tree!Live THEN "gone" ELSE role[n]]
      BY Zenon DEF Tree!ResetWipes
<1>3. Tree!NonRoot' = {}
      BY <1>2 DEF Tree!NonRoot, Tree!Live
<1>4. Cardinality(Tree!NonRoot') = 0
      BY <1>3, FS_EmptySet
<1>5. Cardinality(Adding') \in Nat /\ Cardinality(Adding') <= Cardinality(Editors)
      BY AddingMoves
<1>6. Cardinality(Tree!NonRoot') + Cardinality(Adding') <= Cap + Cardinality(Editors) - 1
      BY <1>1, <1>4, <1>5
<1>.  QED BY <1>6 DEF TreeRoom

\* An import fills the cap, while another request may have counted before it.
LEMMA ImportRoom ==
    ASSUME TreeSizes, TreeInv, TreeRoom, NEW e \in Editors, OthersKeep(e),
           NEW r \in Tree!Live, NEW N, N \subseteq Tree!Unborn, NEW c \in N, NEW E,
           Tree!Import(e, r, N, E, c)
    PROVE  TreeRoom'
<1>1. /\ IsFiniteSet(Tree!NonRoot) /\ Cardinality(Adding) \in Nat
      /\ Cardinality(Editors) \in Nat /\ Cap \in Nat
      /\ e \notin Adding => Cardinality(Adding) < Cardinality(Editors)
      BY RoomFinite
<1>2. role' = [n \in Tree!Nodes |-> CASE n = c -> "catchall" [] n \in N \ {c} -> "folder"
                                      [] n \in Tree!NonRoot -> "gone" [] OTHER -> role[n]]
      BY Zenon DEF Tree!Import
<1>3. Tree!NonRoot' \subseteq N
      BY <1>2 DEF Tree!NonRoot, Tree!Live
<1>4. IsFiniteSet(N) /\ Cardinality(N) \in Nat
      <2>1. N \subseteq Tree!Nodes
            BY DEF Tree!Unborn
      <2>.  QED BY <2>1, NodesFinite, FS_Subset, FS_CardinalityType
<1>5. Cardinality(N) <= Cap
      <2>1. Tree!Cardinality(N) <= Cap
            BY Zenon DEF Tree!Import
      <2>.  QED BY <2>1, TreeCount
<1>6. IsFiniteSet(Tree!NonRoot') /\ Cardinality(Tree!NonRoot') <= Cardinality(N)
      BY <1>3, <1>4, FS_Subset
<1>7. Cardinality(Tree!NonRoot') \in Nat
      BY <1>6, FS_CardinalityType
<1>8. ops[e].at \notin AddSteps /\ ops'[e].at \notin AddSteps
      <2>1. ops[e].at = "idle"
            BY Zenon DEF Tree!Import
      <2>2. Tree!TreeWritten(e, edges, Tree!Idle)
            BY Zenon DEF Tree!Import
      <2>3. ops'[e] = Tree!Idle
            BY <2>2 DEF Tree!TreeWritten
      <2>.  QED BY <2>1, <2>3, IdleIs DEF AddSteps
<1>9. Cardinality(Adding') = Cardinality(Adding)
      BY <1>8, AddingMoves
<1>10. Cardinality(Adding) < Cardinality(Editors)
       BY <1>1, <1>8 DEF Adding
<1>11. Cardinality(Tree!NonRoot') + Cardinality(Adding') <= Cap + Cardinality(Editors) - 1
       BY <1>1, <1>4, <1>5, <1>6, <1>7, <1>9, <1>10
<1>.  QED BY <1>11 DEF TreeRoom

\* The folder cap (MAX_TAXONOMY_NON_ROOT_NODES) is passed by no more than the other requests
\* under way: each of them has counted the nodes and is to create one
\* (taxonomy-nodes.ts counts, then creates, in statements of their own).
THEOREM FoldersCapped ==
    ASSUME TreeSizes
    PROVE  Tree!Spec => []Tree!FolderCapOvershootBounded
<1>1. Tree!Init => TreeRoom
      <2>1. SUFFICES ASSUME Tree!Init PROVE TreeRoom
            OBVIOUS
      <2>2. Tree!NonRoot = {CatchAll} \cup Folders
            <3>1. /\ role[Inbox] = "root" /\ role[CatchAll] = "catchall"
                  /\ \A n \in Folders : role[n] = "folder"
                  /\ \A n \in Fresh : role[n] = "unborn"
                  BY <2>1 DEF Tree!Init, TreeSizes, Tree!Nodes
            <3>.  QED BY <3>1 DEF Tree!NonRoot, Tree!Live, Tree!Nodes, TreeSizes
      <2>3. Adding = {}
            <3>1. \A e \in Editors : ops[e].at = "idle"
                  BY <2>1, IdleIs DEF Tree!Init
            <3>.  QED BY <3>1 DEF Adding, AddSteps
      <2>4. Cardinality(Adding) = 0
            BY <2>3, FS_EmptySet
      <2>5. Cardinality(Tree!NonRoot) \in Nat /\ Cardinality(Editors) \in Nat /\ Cap \in Nat
            BY RoomFinite
      <2>6. Cardinality(Editors) # 0 /\ Cardinality(Tree!NonRoot) <= Cap
            BY <2>2, FS_EmptySet DEF TreeSizes
      <2>7. Cardinality(Tree!NonRoot) + Cardinality(Adding) <= Cap + Cardinality(Editors) - 1
            BY <2>4, <2>5, <2>6
      <2>.  QED BY <2>7 DEF TreeRoom
<1>2. TreeInv /\ TreeRoom /\ [Tree!Next]_Tree!vars => TreeRoom'
      <2>1. SUFFICES ASSUME TreeInv, TreeRoom, [Tree!Next]_Tree!vars PROVE TreeRoom'
            OBVIOUS
      <2>2. CASE UNCHANGED Tree!vars
            BY <2>1, <2>2 DEF Tree!vars, TreeRoom, Adding, Tree!NonRoot, Tree!Live
      <2>3. ASSUME NEW t \in Threads, NEW n \in Tree!Nodes, Tree!Files(t, n) PROVE TreeRoom'
            <3>1. UNCHANGED role
                  BY <2>3, Zenon DEF Tree!Files
            <3>2. \A x \in Editors : Keeps(x)
                  BY <2>1, <2>3, FilesInv
            <3>3. Tree!NonRoot' = Tree!NonRoot /\ Adding' = Adding
                  BY <3>1, <3>2 DEF Tree!NonRoot, Tree!Live, Adding, Keeps
            <3>.  QED BY <2>1, <3>3 DEF TreeRoom
      <2>4. ASSUME NEW e \in Editors, \/ Tree!EdgeRequests(e) \/ Tree!NodeRequests(e)
                                      \/ Tree!TreeRequests(e) \/ Tree!Crash(e)
            PROVE  TreeRoom'
            <3>1. OthersKeep(e)
                  BY <2>1, <2>4, RequestInv
            <3>2. CASE \/ Tree!EdgeRequests(e) \/ Tree!Crash(e)
                       \/ \E n \in Tree!Nodes, d \in Tree!Nodes \cup {NoNode} :
                             Tree!DeleteReads(e, n, d)
                       \/ Tree!DeleteMovesThreads(e) \/ Tree!DeleteCutsParents(e)
                       \/ Tree!DeleteRemoves(e)
                  BY <2>1, <3>1, <3>2, NoneAdds, RoomStays
            <3>3. CASE Tree!CountsFolders(e) \/ Tree!AddsFolder(e)
                  BY <2>1, <3>1, <3>3, CountRoom, AddsRoom
            <3>4. CASE Tree!TreeRequests(e)
                  BY <2>1, <3>1, <3>4, ImportRoom, ResetRoom, SeedRoom, CatchAllRoom
                     DEF Tree!TreeRequests
            <3>.  QED BY <2>4, <3>2, <3>3, <3>4 DEF Tree!NodeRequests
      <2>.  QED BY <2>1, <2>2, <2>3, <2>4 DEF Tree!Next
<1>3. TreeRoom => Tree!FolderCapOvershootBounded
      <2>1. SUFFICES ASSUME TreeRoom PROVE Tree!FolderCapOvershootBounded
            OBVIOUS
      <2>2. /\ Cardinality(Tree!NonRoot) \in Nat /\ Cardinality(Adding) \in Nat
            /\ Cardinality(Editors) \in Nat /\ Cap \in Nat
            BY RoomFinite
      <2>3. Cardinality(Tree!NonRoot) < Cap + Cardinality(Editors)
            BY <2>1, <2>2 DEF TreeRoom
      <2>.  QED BY <2>3, TreeCount DEF Tree!FolderCapOvershootBounded
<1>.  QED BY <1>1, <1>2, <1>3, TreeBegins, TreeStep, PTL DEF Tree!Spec

-----------------------------------------------------------------------------
(* The way down from the root.                                               *)

OneParent(E) == \A x, y \in E : x[2] = y[2] => x = y

\* No edge leads to a root.
RootsAlone == \A x \in edges : role[x[2]] # "root"

\* One race gives a folder two parents or closes a cycle, and never both.
OneFlaw == races <= 1 => OneParent(edges) \/ Tree!Acyclic(edges)

\* What a request still knows after a race.
AimSteps == {"parentless", "connecting", "unmoved", "moving"}

Aims(x) ==
    /\ ops[x].at \in AimSteps => role[ops[x].target] # "root"
    /\ ops[x].at \in {"parentless", "connecting"} /\ ops[x].raced = 0 =>
          ~Tree!HasParent(edges, ops[x].target)
    /\ ops[x].at = "connecting" /\ ops[x].raced = 0 =>
          ops[x].source \notin Tree!Below(edges, ops[x].target)
    /\ ops[x].at = "connecting" /\ ops[x].raced <= 1 /\ ops[x].raced <= MaxRaces =>
          \/ ~Tree!HasParent(edges, ops[x].target)
          \/ ops[x].source \notin Tree!Below(edges, ops[x].target)
    /\ ops[x].at \in {"unmoved", "moving"} /\ ~ops[x].gone =>
          <<ops[x].source, ops[x].target>> \in edges
    /\ ops[x].at = "moving" /\ ops[x].raced = 0 =>
          ops[x].into \notin Tree!Below(edges, ops[x].target)

DescentInv == RootsAlone /\ OneFlaw /\ \A x \in Editors : Aims(x)

\* Where every folder has one parent and the root none, the root leads to no cycle: the
\* parents of a cycle's folders lie on it.
LEMMA NoWayIntoCycle ==
    ASSUME NEW E, NEW r \in Tree!Nodes, IsFiniteSet(Tree!Nodes),
           E \subseteq Tree!Nodes \X Tree!Nodes, OneParent(E), \A x \in E : x[2] # r
    PROVE  Tree!Acyclic({x \in E : x[1] \in Tree!Below(E, r)})
<1>.  DEFINE B == Tree!Below(E, r)
             D == {x \in E : x[1] \in B}
<1>1. SUFFICES ASSUME NEW x \in D, x[1] \in Tree!Below(D, x[2]) PROVE FALSE
      BY DEF Tree!Acyclic
<1>2. PICK v \in Tree!Nodes : v = x[2]
      OBVIOUS
<1>3. PICK C : C = Tree!Below(D, v)
      OBVIOUS
<1>4. D \subseteq E /\ D \subseteq Tree!Nodes \X Tree!Nodes /\ x \in E /\ x[1] \in B
      OBVIOUS
<1>5. r \in B /\ Closed(E, B)
      BY BelowCloses
<1>.  HIDE DEF D, B
<1>6. v \in C /\ C \subseteq Tree!Nodes /\ Closed(D, C)
      BY <1>3, <1>4, BelowCloses
<1>7. \A y \in E : y[2] \in C => y[1] \in C
      <2>1. PICK K : K = {n \in C : \A y \in E : y[2] = n => y[1] \in C}
            OBVIOUS
      <2>2. v \in K
            BY <1>1, <1>2, <1>3, <1>4, <1>6, <2>1 DEF OneParent
      <2>3. Closed(D, K)
            BY <1>4, <1>6, <2>1 DEF OneParent, Closed
      <2>4. C \subseteq K
            BY <1>3, <2>2, <2>3, BelowStays
      <2>.  QED BY <2>1, <2>4
<1>8. r \notin C
      <2>1. PICK K : K = Tree!Nodes \ {r}
            OBVIOUS
      <2>2. v \in K
            BY <1>2, <1>4, <2>1
      <2>3. Closed(D, K)
            BY <1>4, <2>1 DEF Closed
      <2>4. C \subseteq K
            BY <1>3, <2>2, <2>3, BelowStays
      <2>.  QED BY <2>1, <2>4
<1>9. B \subseteq B \ C
      <2>1. PICK K : K = B \ C
            OBVIOUS
      <2>2. r \in K /\ Closed(E, K)
            BY <1>5, <1>7, <1>8, <2>1 DEF Closed
      <2>3. B \subseteq K
            BY <2>2, BelowStays DEF B
      <2>.  QED BY <2>1, <2>3
<1>.  QED BY <1>1, <1>2, <1>3, <1>4, <1>9

\* One edge more does not give a node its first parent and a way to another node at once.
LEMMA OneEdgeMore ==
    ASSUME NEW E, NEW D, NEW u, NEW v, IsFiniteSet(Tree!Nodes),
           E \subseteq Tree!Nodes \X Tree!Nodes, D \subseteq E \cup {<<u, v>>},
           NEW s, NEW t \in Tree!Nodes, ~Tree!HasParent(E, t), s \notin Tree!Below(E, t)
    PROVE  ~Tree!HasParent(D, t) \/ s \notin Tree!Below(D, t)
<1>1. CASE v # t
      BY <1>1 DEF Tree!HasParent
<1>2. CASE v = t
      <2>1. t \in Tree!Below(E, t) /\ Closed(E, Tree!Below(E, t))
            BY BelowCloses
      <2>2. Closed(D, Tree!Below(E, t))
            BY <1>2, <2>1 DEF Closed
      <2>3. Tree!Below(D, t) \subseteq Tree!Below(E, t)
            BY <2>1, <2>2, BelowStays
      <2>.  QED BY <2>3
<1>.  QED BY <1>1, <1>2

\* Of a write, what WrittenOps leaves out.
LEMMA WrittenRaces ==
    ASSUME TreeSizes, TreeTyped, NEW e \in Editors, NEW op \in TreeOps, NEW removed,
           Tree!TreeWritten(e, removed, op)
    PROVE  /\ races \in Nat /\ ops[e].raced \in Nat
           /\ races' = races + ops[e].raced /\ races' <= MaxRaces
           /\ \A x \in Editors \ {e} : ops[x].at # "idle" =>
                 /\ ops'[x].raced \in Nat /\ ops'[x].raced > 0
                 /\ ops'[x].raced <= 1 /\ ops'[x].raced <= MaxRaces => ops[x].raced = 0
                 /\ ~ops'[x].gone => /\ ~ops[x].gone
                                     /\ <<ops[x].source, ops[x].target>> \notin removed
<1>1. ops' = [x \in Editors |-> IF x = e THEN op ELSE Tree!After(ops[x], removed)]
      BY DEF Tree!TreeWritten
<1>2. /\ races \in Nat /\ MaxRaces \in Nat /\ ops[e].raced \in Nat
      /\ races' = races + ops[e].raced /\ races' <= MaxRaces
      BY DEF Tree!TreeWritten, TreeTyped, TreeSizes, TreeOps
<1>3. ASSUME NEW x \in Editors \ {e}, ops[x].at # "idle"
      PROVE  /\ ops'[x].raced \in Nat /\ ops'[x].raced > 0
             /\ ops'[x].raced <= 1 /\ ops'[x].raced <= MaxRaces => ops[x].raced = 0
             /\ ~ops'[x].gone => /\ ~ops[x].gone
                                 /\ <<ops[x].source, ops[x].target>> \notin removed
      <2>1. ops[x] \in TreeOps /\ ops'[x] = Tree!After(ops[x], removed)
            BY <1>1 DEF TreeTyped
      <2>2. PICK raced : raced = IF ops[x].raced > MaxRaces THEN ops[x].raced
                                 ELSE ops[x].raced + 1
            OBVIOUS
      <2>3. PICK gone \in BOOLEAN :
                gone <=> (ops[x].gone \/ <<ops[x].source, ops[x].target>> \in removed)
            OBVIOUS
      <2>4. ops[x].raced \in Nat
            BY <2>1 DEF TreeOps
      <2>5. raced \in Nat /\ raced > 0 /\ (raced <= 1 /\ raced <= MaxRaces => ops[x].raced = 0)
            BY <1>2, <2>2, <2>4
      <2>6. gone = (ops[x].gone \/ <<ops[x].source, ops[x].target>> \in removed)
            BY <2>3
      <2>7. ops'[x] = [ops[x] EXCEPT !.raced = raced, !.gone = gone]
            BY <1>3, <2>1, <2>2, <2>6 DEF Tree!After
      <2>8. ops'[x].raced = raced /\ ops'[x].gone = gone
            BY <2>1, <2>7 DEF TreeOps
      <2>.  QED BY <2>3, <2>5, <2>8
<1>.  QED BY <1>2, <1>3

\* The nodes a request names have been there, and no root comes to them.
LEMMA NamesBorn ==
    ASSUME NEW x \in Editors, Knows(x), Aging, ops[x].at \in AimSteps,
           role[ops[x].target] # "root"
    PROVE  /\ ops[x].source \in Tree!Nodes /\ ops[x].target \in Tree!Nodes
           /\ Born(ops[x].source) /\ Born(ops[x].target)
           /\ ops[x].at \in {"unmoved", "moving"} => ops[x].into \in Tree!Nodes
           /\ role'[ops[x].target] # "root"
BY DEF AimSteps, Knows, Connects, Moves, Born, Aging

LEMMA QuietAims ==
    ASSUME TreeSizes, TreeTyped, NEW x \in Editors, Knows(x), Aims(x), Aging,
           edges' \subseteq edges, Keeps(x), ops'[x].raced = ops[x].raced,
           ~ops'[x].gone => /\ ~ops[x].gone
                            /\ <<ops[x].source, ops[x].target>> \in edges =>
                                  <<ops[x].source, ops[x].target>> \in edges'
    PROVE  Aims(x)'
<1>1. CASE ops[x].at \notin AimSteps
      BY <1>1 DEF AimSteps, Aims, Keeps
<1>2. CASE ops[x].at \in AimSteps
      <2>1. PICK s, t, i : s = ops[x].source /\ t = ops[x].target /\ i = ops[x].into
            OBVIOUS
      <2>2. t \in Tree!Nodes /\ role[t] # "root" /\ role'[t] # "root"
            BY <1>2, <2>1, NamesBorn DEF Aims
      <2>3. Tree!Below(edges', t) \subseteq Tree!Below(edges, t)
            BY <2>2, NodesFinite, FewerBelow DEF TreeTyped
      <2>4. Tree!HasParent(edges', t) => Tree!HasParent(edges, t)
            BY DEF Tree!HasParent
      <2>.  QED BY <2>1, <2>2, <2>3, <2>4 DEF Aims, Keeps
<1>.  QED BY <1>1, <1>2

LEMMA RacedAims ==
    ASSUME NEW x \in Editors, Knows(x), Aims(x), Aging, Keeps(x),
           ops[x].at # "idle" =>
               /\ ops'[x].raced \in Nat /\ ops'[x].raced > 0
               /\ ops'[x].raced <= 1 /\ ops'[x].raced <= MaxRaces => ops[x].raced = 0
               /\ ~ops'[x].gone => /\ ~ops[x].gone
                                   /\ <<ops[x].source, ops[x].target>> \in edges =>
                                         <<ops[x].source, ops[x].target>> \in edges',
           \A s, t \in Tree!Nodes :
               /\ Born(t) /\ ~Tree!HasParent(edges, t) /\ s \notin Tree!Below(edges, t)
               => ~Tree!HasParent(edges', t) \/ s \notin Tree!Below(edges', t)
    PROVE  Aims(x)'
<1>1. CASE ops[x].at \notin AimSteps
      BY <1>1 DEF AimSteps, Aims, Keeps
<1>2. CASE ops[x].at \in AimSteps
      <2>1. PICK s, t, i : s = ops[x].source /\ t = ops[x].target /\ i = ops[x].into
            OBVIOUS
      <2>2. s \in Tree!Nodes /\ t \in Tree!Nodes /\ Born(t) /\ role'[t] # "root"
            BY <1>2, <2>1, NamesBorn DEF Aims
      <2>3. ops[x].at # "idle"
            BY <1>2 DEF AimSteps
      <2>4. /\ ops'[x].at = ops[x].at /\ ops'[x].source = s /\ ops'[x].target = t
            /\ ops'[x].into = i /\ ops'[x].raced # 0
            BY <2>1, <2>3 DEF Keeps
      <2>5. ops[x].at = "connecting" /\ ops'[x].raced <= 1 /\ ops'[x].raced <= MaxRaces =>
                ~Tree!HasParent(edges', t) \/ s \notin Tree!Below(edges', t)
            BY <2>1, <2>2, <2>3 DEF Aims
      <2>6. ops[x].at \in {"unmoved", "moving"} /\ ~ops'[x].gone => <<s, t>> \in edges'
            BY <2>1, <2>3 DEF Aims
      <2>.  QED BY <2>2, <2>4, <2>5, <2>6 DEF Aims
<1>.  QED BY <1>1, <1>2

\* A request that aims at nothing.
LEMMA AimsAtNothing ==
    ASSUME NEW x, ops[x].at \notin AimSteps
    PROVE  Aims(x)
BY DEF AimSteps, Aims

LEMMA DescentQuiet ==
    ASSUME TreeSizes, TreeInv, DescentInv, NEW S, S \subseteq Editors, Aging,
           edges' \subseteq edges, races' = races,
           \A x \in Editors \ S : Aims(x)',
           \A x \in S : /\ Keeps(x) /\ ops'[x].raced = ops[x].raced
                        /\ ~ops'[x].gone => /\ ~ops[x].gone
                                            /\ <<ops[x].source, ops[x].target>> \in edges =>
                                                  <<ops[x].source, ops[x].target>> \in edges'
    PROVE  DescentInv'
<1>1. TreeTyped /\ \A x \in Editors : Knows(x)
      BY DEF TreeInv
<1>2. \A x \in S : Aims(x)'
      BY <1>1, QuietAims DEF DescentInv
<1>3. RootsAlone'
      <2>1. \A x \in edges : x[2] \in Tree!Nodes /\ role[x[2]] # "unborn"
            BY <1>1 DEF TreeTyped, Tree!Live
      <2>.  QED BY <2>1 DEF DescentInv, RootsAlone, Aging
<1>4. OneFlaw'
      <2>1. OneParent(edges) => OneParent(edges')
            BY DEF OneParent
      <2>2. Tree!Acyclic(edges) => Tree!Acyclic(edges')
            BY <1>1, NodesFinite, FewerAcyclic DEF TreeTyped
      <2>.  QED BY <2>1, <2>2 DEF DescentInv, OneFlaw
<1>.  QED BY <1>2, <1>3, <1>4 DEF DescentInv

\* A request that only reads, or writes nodes only.
LEMMA DescentStep ==
    ASSUME TreeSizes, TreeInv, DescentInv, NEW e \in Editors, NEW op \in TreeOps,
           Tree!Step(e, op), Aging, edges' = edges,
           ops'[e] = op /\ races' = races => Aims(e)'
    PROVE  DescentInv'
<1>1. /\ ops'[e] = op /\ races' = races
      /\ \A x \in Editors \ {e} : ops'[x] = ops[x] /\ Keeps(x)
      BY StepOps DEF TreeInv
<1>2. PICK S : S = Editors \ {e}
      OBVIOUS
<1>3. \A x \in Editors \ S : Aims(x)'
      <2>1. Aims(e)'
            BY <1>1
      <2>2. \A x \in Editors \ S : x = e
            BY <1>2
      <2>.  QED BY <2>1, <2>2
<1>4. \A x \in S : /\ Keeps(x) /\ ops'[x].raced = ops[x].raced
                   /\ ~ops'[x].gone => /\ ~ops[x].gone
                                       /\ <<ops[x].source, ops[x].target>> \in edges =>
                                             <<ops[x].source, ops[x].target>> \in edges'
      BY <1>1, <1>2
<1>.  QED BY <1>1, <1>2, <1>3, <1>4, DescentQuiet

LEMMA DescentIdle ==
    ASSUME TreeSizes, TreeInv, DescentInv, NEW e \in Editors, Tree!Step(e, Tree!Idle),
           Aging, edges' = edges
    PROVE  DescentInv'
<1>1. ASSUME ops'[e] = Tree!Idle PROVE Aims(e)'
      <2>1. ops'[e].at = "idle"
            BY <1>1, IdleIs
      <2>.  QED BY <2>1 DEF AimSteps, Aims
<1>.  QED BY <1>1, IdleIs, DescentStep

\* A request that removes edges.
LEMMA DescentRemoval ==
    ASSUME TreeSizes, TreeInv, DescentInv, NEW e \in Editors, NEW op \in TreeOps, NEW removed,
           Tree!EdgesRemoved(e, removed, op), Aging, op.at \notin AimSteps
    PROVE  DescentInv'
<1>1. /\ ops'[e] = op /\ races' = races /\ edges' = edges \ removed
      /\ \A x \in Editors \ {e} :
            /\ Keeps(x) /\ ops'[x].raced = ops[x].raced
            /\ ~ops'[x].gone => /\ ~ops[x].gone
                                /\ <<ops[x].source, ops[x].target>> \notin removed
      BY RemovedOps DEF TreeInv
<1>2. PICK S : S = Editors \ {e}
      OBVIOUS
<1>3. \A x \in Editors \ S : Aims(x)'
      <2>1. Aims(e)'
            <3>1. ops'[e].at \notin AimSteps
                  BY <1>1
            <3>.  QED BY <3>1 DEF AimSteps, Aims
      <2>2. \A x \in Editors \ S : x = e
            BY <1>2
      <2>.  QED BY <2>1, <2>2
<1>4. \A x \in S : /\ Keeps(x) /\ ops'[x].raced = ops[x].raced
                   /\ ~ops'[x].gone => /\ ~ops[x].gone
                                       /\ <<ops[x].source, ops[x].target>> \in edges =>
                                             <<ops[x].source, ops[x].target>> \in edges'
      BY <1>1, <1>2
<1>.  QED BY <1>1, <1>2, <1>3, <1>4, DescentQuiet

\* A request that writes the tree.
LEMMA DescentWritten ==
    ASSUME TreeSizes, TreeInv, DescentInv, NEW e \in Editors, NEW op \in TreeOps, NEW removed,
           Tree!TreeWritten(e, removed, op), Aging, op.at \notin AimSteps,
           edges \ removed \subseteq edges', RootsAlone', OneFlaw',
           \A s, t \in Tree!Nodes :
               /\ Born(t) /\ ~Tree!HasParent(edges, t) /\ s \notin Tree!Below(edges, t)
               => ~Tree!HasParent(edges', t) \/ s \notin Tree!Below(edges', t)
    PROVE  DescentInv'
<1>1. ops'[e] = op /\ \A x \in Editors \ {e} : Keeps(x)
      BY WrittenOps DEF TreeInv
<1>2. \A x \in Editors \ {e} : ops[x].at # "idle" =>
        /\ ops'[x].raced \in Nat /\ ops'[x].raced > 0
        /\ ops'[x].raced <= 1 /\ ops'[x].raced <= MaxRaces => ops[x].raced = 0
        /\ ~ops'[x].gone => /\ ~ops[x].gone
                            /\ <<ops[x].source, ops[x].target>> \notin removed
      BY WrittenRaces DEF TreeInv
<1>3. \A x \in Editors \ {e} : ops[x].at # "idle" =>
        /\ ops'[x].raced \in Nat /\ ops'[x].raced > 0
        /\ ops'[x].raced <= 1 /\ ops'[x].raced <= MaxRaces => ops[x].raced = 0
        /\ ~ops'[x].gone => /\ ~ops[x].gone
                            /\ <<ops[x].source, ops[x].target>> \in edges =>
                                  <<ops[x].source, ops[x].target>> \in edges'
      BY <1>2
<1>4. \A x \in Editors \ {e} : Aims(x)'
      BY <1>1, <1>3, RacedAims DEF TreeInv, DescentInv
<1>5. Aims(e)'
      <2>1. ops'[e].at \notin AimSteps
            BY <1>1
      <2>.  QED BY <2>1 DEF AimSteps, Aims
<1>.  QED BY <1>4, <1>5 DEF DescentInv

LEMMA DescentConnectReads ==
    ASSUME TreeSizes, TreeInv, DescentInv, NEW e \in Editors, NEW s \in Tree!Nodes,
           NEW t \in Tree!Nodes, Tree!ConnectReads(e, s, t)
    PROVE  DescentInv'
<1>1. PICK op : op = [Tree!Idle EXCEPT !.at = "parentless", !.source = s, !.target = t]
      OBVIOUS
<1>2. op \in TreeOps /\ op.at = "parentless" /\ op.source = s /\ op.target = t
      BY <1>1 DEF Tree!Idle, TreeOps
<1>3. /\ Tree!Step(e, op) /\ UNCHANGED <<role, edges, filed>>
      /\ role[t] # "root" /\ ~Tree!HasParent(edges, t)
      BY <1>1 DEF Tree!ConnectReads
<1>4. ASSUME ops'[e] = op PROVE Aims(e)'
      <2>1. ops'[e].at = "parentless" /\ ops'[e].target = t
            BY <1>2, <1>4
      <2>2. role'[t] # "root" /\ ~Tree!HasParent(edges', t)
            BY <1>3
      <2>.  QED BY <2>1, <2>2 DEF AimSteps, Aims
<1>5. Aging
      BY <1>3 DEF Aging
<1>.  QED BY <1>2, <1>3, <1>4, <1>5, DescentStep

LEMMA DescentMoveReads ==
    ASSUME TreeSizes, TreeInv, DescentInv, NEW e \in Editors, NEW x \in edges,
           NEW s \in Tree!Nodes, Tree!MoveReads(e, x, s)
    PROVE  DescentInv'
<1>1. PICK u, t : x = <<u, t>> /\ u \in Tree!Nodes /\ t \in Tree!Nodes
      BY DEF TreeInv, TreeTyped, Tree!Live
<1>2. PICK op : op = [Tree!Idle EXCEPT !.at = "unmoved", !.source = u, !.target = t,
                                       !.into = s]
      OBVIOUS
<1>3. op \in TreeOps /\ op.at = "unmoved" /\ op.source = u /\ op.target = t
      BY <1>1, <1>2 DEF Tree!Idle, TreeOps
<1>4. Tree!Step(e, op) /\ UNCHANGED <<role, edges, filed>>
      BY <1>1, <1>2 DEF Tree!MoveReads
<1>5. role[t] # "root"
      BY <1>1 DEF DescentInv, RootsAlone
<1>6. ASSUME ops'[e] = op PROVE Aims(e)'
      <2>1. ops'[e].at = "unmoved" /\ ops'[e].target = t /\ ops'[e].source = u
            BY <1>3, <1>6
      <2>2. role'[t] # "root" /\ <<u, t>> \in edges'
            BY <1>1, <1>4, <1>5
      <2>.  QED BY <2>1, <2>2 DEF AimSteps, Aims
<1>7. Aging
      BY <1>4 DEF Aging
<1>.  QED BY <1>3, <1>4, <1>6, <1>7, DescentStep

LEMMA DescentChecks ==
    ASSUME TreeSizes, TreeInv, DescentInv, NEW e \in Editors,
           Tree!ConnectChecksCycle(e) \/ Tree!MoveChecksCycle(e)
    PROVE  DescentInv'
<1>1. /\ role' = role /\ edges' = edges /\ Aims(e) /\ ops[e] \in TreeOps
      BY DEF Tree!ConnectChecksCycle, Tree!MoveChecksCycle, DescentInv, TreeInv, TreeTyped
<1>2. Aging
      BY <1>1 DEF Aging
<1>3. CASE Tree!Step(e, Tree!Idle)
      BY <1>1, <1>2, <1>3, DescentIdle
<1>4. CASE Tree!ConnectChecksCycle(e) /\ ~Tree!Step(e, Tree!Idle)
      <2>1. PICK op : op = [ops[e] EXCEPT !.at = "connecting"]
            OBVIOUS
      <2>2. /\ Tree!Step(e, op) /\ ops[e].at = "parentless"
            /\ ops[e].source \notin Tree!Below(edges, ops[e].target)
            BY <1>4, <2>1 DEF Tree!ConnectChecksCycle, Tree!HasCycle
      <2>3. /\ op \in TreeOps /\ op.at = "connecting" /\ op.source = ops[e].source
            /\ op.target = ops[e].target /\ op.raced = ops[e].raced
            BY <1>1, <2>1 DEF TreeOps
      <2>4. ASSUME ops'[e] = op PROVE Aims(e)'
            <3>1. /\ ops'[e].at = "connecting" /\ ops'[e].source = ops[e].source
                  /\ ops'[e].target = ops[e].target /\ ops'[e].raced = ops[e].raced
                  BY <2>3, <2>4
            <3>.  QED BY <1>1, <2>2, <3>1 DEF AimSteps, Aims
      <2>.  QED BY <1>1, <1>2, <2>2, <2>3, <2>4, DescentStep
<1>5. CASE Tree!MoveChecksCycle(e) /\ ~Tree!Step(e, Tree!Idle)
      <2>1. PICK op : op = [ops[e] EXCEPT !.at = "moving"]
            OBVIOUS
      <2>2. /\ Tree!Step(e, op) /\ ops[e].at = "unmoved"
            /\ ops[e].into \notin Tree!Below(edges, ops[e].target)
            BY <1>5, <2>1 DEF Tree!MoveChecksCycle, Tree!HasCycle
      <2>3. /\ op \in TreeOps /\ op.at = "moving" /\ op.source = ops[e].source
            /\ op.target = ops[e].target /\ op.into = ops[e].into
            /\ op.raced = ops[e].raced /\ op.gone = ops[e].gone
            BY <1>1, <2>1 DEF TreeOps
      <2>4. ASSUME ops'[e] = op PROVE Aims(e)'
            <3>1. /\ ops'[e].at = "moving" /\ ops'[e].source = ops[e].source
                  /\ ops'[e].target = ops[e].target /\ ops'[e].into = ops[e].into
                  /\ ops'[e].raced = ops[e].raced /\ ops'[e].gone = ops[e].gone
                  BY <2>3, <2>4
            <3>.  QED BY <1>1, <2>2, <3>1 DEF AimSteps, Aims
      <2>.  QED BY <1>1, <1>2, <2>2, <2>3, <2>4, DescentStep
<1>.  QED BY <1>3, <1>4, <1>5

\* The edge the request adds was checked before at most one write.
LEMMA DescentConnects ==
    ASSUME TreeSizes, TreeInv, DescentInv, NEW e \in Editors, Tree!ConnectWrites(e)
    PROVE  DescentInv'
<1>1. PICK s, t : s = ops[e].source /\ t = ops[e].target
      OBVIOUS
<1>2. ops[e].at = "connecting" /\ role' = role
      BY DEF Tree!ConnectWrites
<1>3. Aging
      BY <1>2 DEF Aging
<1>4. CASE ~Tree!Insertable(edges, <<s, t>>)
      BY <1>1, <1>3, <1>4, DescentIdle DEF Tree!ConnectWrites
<1>5. CASE Tree!Insertable(edges, <<s, t>>)
      <2>1. edges' = edges \cup {<<s, t>>} /\ Tree!TreeWritten(e, {}, Tree!Idle)
            BY <1>1, <1>5 DEF Tree!ConnectWrites
      <2>2. s \in Tree!Nodes /\ t \in Tree!Nodes
            BY <1>5 DEF Tree!Insertable, Tree!Live
      <2>3. edges \subseteq Tree!Nodes \X Tree!Nodes /\ IsFiniteSet(Tree!Nodes)
            BY NodesFinite DEF TreeInv, TreeTyped
      <2>4. Aims(e) /\ RootsAlone /\ OneFlaw
            BY DEF DescentInv
      <2>5. RootsAlone'
            BY <1>1, <1>2, <2>1, <2>4 DEF RootsAlone, Aims, AimSteps
      <2>6. OneFlaw'
            <3>1. SUFFICES ASSUME races' <= 1
                           PROVE  OneParent(edges') \/ Tree!Acyclic(edges')
                  BY DEF OneFlaw
            <3>2. /\ races \in Nat /\ ops[e].raced \in Nat
                  /\ races' = races + ops[e].raced /\ races' <= MaxRaces
                  BY <2>1, IdleIs, WrittenRaces DEF TreeInv
            <3>3. ~Tree!HasParent(edges, t) /\ OneParent(edges) => OneParent(edges')
                  BY <2>1 DEF Tree!HasParent, OneParent
            <3>4. s \notin Tree!Below(edges, t) /\ Tree!Acyclic(edges) => Tree!Acyclic(edges')
                  BY <2>1, <2>2, <2>3, EdgeAcyclic
            <3>5. CASE ops[e].raced = 0
                  <4>1. /\ ~Tree!HasParent(edges, t) /\ s \notin Tree!Below(edges, t)
                        /\ OneParent(edges) \/ Tree!Acyclic(edges)
                        BY <1>1, <1>2, <2>4, <3>1, <3>2, <3>5 DEF Aims, OneFlaw
                  <4>.  QED BY <3>3, <3>4, <4>1
            <3>6. CASE ops[e].raced # 0
                  <4>1. races = 0 /\ ops[e].raced <= 1 /\ ops[e].raced <= MaxRaces
                        BY <3>1, <3>2, <3>6 DEF TreeSizes
                  <4>2. OneParent(edges) /\ Tree!Acyclic(edges)
                        BY <4>1 DEF TreeInv, TreeShape, OneParent
                  <4>3. ~Tree!HasParent(edges, t) \/ s \notin Tree!Below(edges, t)
                        BY <1>1, <1>2, <2>4, <4>1 DEF Aims
                  <4>.  QED BY <3>3, <3>4, <4>2, <4>3
            <3>.  QED BY <3>5, <3>6
      <2>7. \A m, n \in Tree!Nodes :
                Born(n) /\ ~Tree!HasParent(edges, n) /\ m \notin Tree!Below(edges, n)
                => ~Tree!HasParent(edges', n) \/ m \notin Tree!Below(edges', n)
            BY <2>1, <2>3, OneEdgeMore
      <2>8. edges \ {} \subseteq edges' /\ Tree!Idle.at \notin AimSteps
            BY <2>1, IdleIs DEF AimSteps
      <2>.  QED BY <1>3, <2>1, <2>5, <2>6, <2>7, <2>8, IdleIs, DescentWritten
<1>.  QED BY <1>4, <1>5

\* The edge the request replaces is still there, and with one parent for a folder it is
\* the only one.
LEMMA DescentMoves ==
    ASSUME TreeSizes, TreeInv, DescentInv, NEW e \in Editors, Tree!MoveWrites(e)
    PROVE  DescentInv'
<1>1. PICK u, s, t : u = ops[e].source /\ t = ops[e].target /\ s = ops[e].into
      OBVIOUS
<1>2. ops[e].at = "moving" /\ role' = role
      BY DEF Tree!MoveWrites
<1>3. Aging
      BY <1>2 DEF Aging
<1>4. CASE ops[e].gone \/ ~Tree!Insertable(edges, <<s, t>>)
      BY <1>1, <1>3, <1>4, DescentIdle DEF Tree!MoveWrites
<1>5. CASE ~ops[e].gone /\ Tree!Insertable(edges, <<s, t>>)
      <2>1. /\ edges' = (edges \ {<<u, t>>}) \cup {<<s, t>>}
            /\ Tree!TreeWritten(e, {<<u, t>>}, Tree!Idle)
            BY <1>1, <1>5 DEF Tree!MoveWrites
      <2>2. s \in Tree!Nodes /\ t \in Tree!Nodes
            BY <1>5 DEF Tree!Insertable, Tree!Live
      <2>3. edges \subseteq Tree!Nodes \X Tree!Nodes /\ IsFiniteSet(Tree!Nodes)
            BY NodesFinite DEF TreeInv, TreeTyped
      <2>4. Aims(e) /\ RootsAlone /\ OneFlaw
            BY DEF DescentInv
      <2>5. <<u, t>> \in edges
            BY <1>1, <1>2, <1>5, <2>4 DEF Aims
      <2>6. RootsAlone'
            BY <1>2, <2>1, <2>4, <2>5 DEF RootsAlone
      <2>7. OneFlaw'
            <3>1. SUFFICES ASSUME races' <= 1
                           PROVE  OneParent(edges') \/ Tree!Acyclic(edges')
                  BY DEF OneFlaw
            <3>2. /\ races \in Nat /\ ops[e].raced \in Nat
                  /\ races' = races + ops[e].raced /\ races' <= MaxRaces
                  BY <2>1, IdleIs, WrittenRaces DEF TreeInv
            <3>3. OneParent(edges) => OneParent(edges')
                  BY <2>1, <2>5 DEF OneParent
            <3>4. s \notin Tree!Below(edges, t) /\ Tree!Acyclic(edges) => Tree!Acyclic(edges')
                  <4>1. SUFFICES ASSUME s \notin Tree!Below(edges, t), Tree!Acyclic(edges)
                                 PROVE  Tree!Acyclic(edges')
                        OBVIOUS
                  <4>2. PICK E : E = edges \ {<<u, t>>}
                        OBVIOUS
                  <4>3. E \subseteq edges /\ E \subseteq Tree!Nodes \X Tree!Nodes
                        BY <2>3, <4>2
                  <4>4. Tree!Acyclic(E) /\ s \notin Tree!Below(E, t)
                        BY <2>2, <2>3, <4>1, <4>3, FewerAcyclic, FewerBelow
                  <4>5. Tree!Acyclic(E \cup {<<s, t>>})
                        BY <2>2, <2>3, <4>3, <4>4, EdgeAcyclic
                  <4>.  QED BY <2>1, <4>2, <4>5
            <3>5. CASE ops[e].raced = 0
                  <4>1. /\ s \notin Tree!Below(edges, t)
                        /\ OneParent(edges) \/ Tree!Acyclic(edges)
                        BY <1>1, <1>2, <2>4, <3>1, <3>2, <3>5 DEF Aims, OneFlaw
                  <4>.  QED BY <3>3, <3>4, <4>1
            <3>6. CASE ops[e].raced # 0
                  <4>1. races = 0
                        BY <3>1, <3>2, <3>6
                  <4>2. OneParent(edges)
                        BY <4>1 DEF TreeInv, TreeShape, OneParent
                  <4>.  QED BY <3>3, <4>2
            <3>.  QED BY <3>5, <3>6
      <2>8. \A m, n \in Tree!Nodes :
                Born(n) /\ ~Tree!HasParent(edges, n) /\ m \notin Tree!Below(edges, n)
                => ~Tree!HasParent(edges', n) \/ m \notin Tree!Below(edges', n)
            <3>1. edges' \subseteq edges \cup {<<s, t>>}
                  BY <2>1
            <3>.  QED BY <2>3, <3>1, OneEdgeMore
      <2>9. edges \ {<<u, t>>} \subseteq edges' /\ Tree!Idle.at \notin AimSteps
            BY <2>1, IdleIs DEF AimSteps
      <2>.  QED BY <1>3, <2>1, <2>6, <2>7, <2>8, <2>9, IdleIs, DescentWritten
<1>.  QED BY <1>4, <1>5

LEMMA DescentNodes ==
    ASSUME TreeSizes, TreeInv, DescentInv, NEW e \in Editors,
           \/ Tree!CountsFolders(e) \/ Tree!AddsFolder(e)
           \/ Tree!DeleteRemoves(e) \/ Tree!Crash(e)
    PROVE  DescentInv'
<1>1. role \in [Tree!Nodes -> Roles]
      BY DEF TreeInv, TreeTyped
<1>2. CASE Tree!CountsFolders(e)
      <2>1. PICK op : op = [Tree!Idle EXCEPT !.at = "counted"]
            OBVIOUS
      <2>2. op \in TreeOps /\ op.at = "counted"
            BY <2>1 DEF Tree!Idle, TreeOps
      <2>3. Tree!Step(e, op) /\ UNCHANGED <<role, edges, filed>>
            BY <1>2, <2>1, Zenon DEF Tree!CountsFolders
      <2>4. Aging
            BY <2>3 DEF Aging
      <2>5. ASSUME ops'[e] = op PROVE Aims(e)'
            <3>1. ops'[e].at = "counted"
                  BY <2>2, <2>5
            <3>.  QED BY <3>1 DEF AimSteps, Aims
      <2>.  QED BY <2>2, <2>3, <2>4, <2>5, DescentStep
<1>3. CASE Tree!AddsFolder(e)
      <2>1. Tree!Step(e, Tree!Idle) /\ UNCHANGED <<edges, filed>>
            BY <1>3, Zenon DEF Tree!AddsFolder
      <2>2. PICK n \in Tree!Unborn : role' = [role EXCEPT ![n] = "folder"]
            BY <1>3, Zenon DEF Tree!AddsFolder
      <2>3. Aging
            BY <1>1, <2>2 DEF Aging, Tree!Unborn
      <2>.  QED BY <2>1, <2>3, DescentIdle
<1>4. CASE Tree!DeleteRemoves(e)
      <2>1. Tree!Step(e, Tree!Idle) /\ UNCHANGED edges
            BY <1>4, Zenon DEF Tree!DeleteRemoves
      <2>2. UNCHANGED role \/ role' = [role EXCEPT ![ops[e].target] = "gone"]
            BY <1>4, Zenon DEF Tree!DeleteRemoves
      <2>3. Aging
            BY <1>1, <2>2 DEF Aging
      <2>.  QED BY <2>1, <2>3, DescentIdle
<1>5. CASE Tree!Crash(e)
      <2>1. Tree!Step(e, Tree!Idle) /\ UNCHANGED <<role, edges, filed>>
            BY <1>5, Zenon DEF Tree!Crash
      <2>2. Aging
            BY <2>1 DEF Aging
      <2>.  QED BY <2>1, <2>2, DescentIdle
<1>.  QED BY <1>2, <1>3, <1>4, <1>5

LEMMA DescentDeleteReads ==
    ASSUME TreeSizes, TreeInv, DescentInv, NEW e \in Editors, NEW n \in Tree!Nodes,
           NEW d \in Tree!Nodes \cup {NoNode}, Tree!DeleteReads(e, n, d)
    PROVE  DescentInv'
<1>1. PICK hung \in BOOLEAN : hung <=> Tree!HasParent(edges, n)
      OBVIOUS
<1>2. PICK filled \in BOOLEAN : filled <=> \E t \in Threads : filed[t] = n
      OBVIOUS
<1>3. /\ hung = Tree!HasParent(edges, n)
      /\ filled = \E t \in Threads : filed[t] = n
      BY <1>1, <1>2 DEF Tree!HasParent
<1>4. PICK op : op = [Tree!Idle EXCEPT !.at = "leaf", !.target = n, !.into = d,
                                       !.hung = hung, !.filled = filled]
      OBVIOUS
<1>5. op \in TreeOps /\ op.at = "leaf"
      BY <1>4 DEF Tree!Idle, TreeOps
<1>6. Tree!Step(e, op) /\ UNCHANGED <<role, edges, filed>>
      BY <1>3, <1>4 DEF Tree!DeleteReads
<1>7. Aging
      BY <1>6 DEF Aging
<1>8. ASSUME ops'[e] = op PROVE Aims(e)'
      <2>1. ops'[e].at = "leaf"
            BY <1>5, <1>8
      <2>.  QED BY <2>1 DEF AimSteps, Aims
<1>.  QED BY <1>5, <1>6, <1>7, <1>8, DescentStep

\* Threads that arrive change nothing the edges depend on.
LEMMA DescentArrivals ==
    ASSUME TreeSizes, TreeInv, DescentInv, NEW S, S \subseteq Editors, NEW T, T \subseteq Threads,
           NEW n, \A x \in S : ops'[x] = Tree!Arrive(ops[x], T, n),
           \A x \in Editors \ S : Aims(x)', role' = role, edges' = edges, races' = races
    PROVE  DescentInv'
<1>1. Aging
      BY DEF Aging
<1>2. \A x \in S : /\ Keeps(x) /\ ops'[x].raced = ops[x].raced
                   /\ ~ops'[x].gone => /\ ~ops[x].gone
                                       /\ <<ops[x].source, ops[x].target>> \in edges =>
                                             <<ops[x].source, ops[x].target>> \in edges'
      BY ArriveKeeps DEF TreeInv
<1>.  QED BY <1>1, <1>2, DescentQuiet

LEMMA DescentFiles ==
    ASSUME TreeSizes, TreeInv, DescentInv, NEW t \in Threads, NEW n \in Tree!Nodes,
           Tree!Files(t, n)
    PROVE  DescentInv'
<1>1. PICK T : T = {t}
      OBVIOUS
<1>2. /\ \A x \in Editors : ops'[x] = Tree!Arrive(ops[x], T, n)
      /\ role' = role /\ edges' = edges /\ races' = races
      BY <1>1 DEF Tree!Files
<1>3. T \subseteq Threads
      BY <1>1
<1>.  QED BY <1>2, <1>3, DescentArrivals

LEMMA DescentDeleteMoves ==
    ASSUME TreeSizes, TreeInv, DescentInv, NEW e \in Editors, Tree!DeleteMovesThreads(e)
    PROVE  DescentInv'
<1>1. PICK d, moved : /\ d = ops[e].into
                      /\ moved = {t \in Threads : filed[t] = ops[e].target /\ ops[e].filled}
      OBVIOUS
<1>2. UNCHANGED <<role, edges>> /\ ops[e] \in TreeOps
      BY DEF Tree!DeleteMovesThreads, TreeInv, TreeTyped
<1>3. CASE moved # {} /\ d \notin Tree!Live \cup {NoNode}
      <2>1. Tree!Step(e, Tree!Idle)
            BY <1>1, <1>3 DEF Tree!DeleteMovesThreads
      <2>2. Aging
            BY <1>2 DEF Aging
      <2>.  QED BY <1>2, <2>1, <2>2, DescentIdle
<1>4. CASE moved = {} \/ d \in Tree!Live \cup {NoNode}
      <2>1. moved = {t \in Threads : filed[t] = ops[e].target /\ ops[e].filled}
            BY <1>1
      <2>2. PICK op : op = [ops[e] EXCEPT !.at = "emptied"]
            OBVIOUS
      <2>3. /\ ops' = [x \in Editors |-> IF x = e THEN op ELSE Tree!Arrive(ops[x], moved, d)]
            /\ races' = races
            BY <1>1, <1>4, <2>1, <2>2 DEF Tree!DeleteMovesThreads
      <2>4. op.at = "emptied" /\ moved \subseteq Threads
            BY <1>2, <2>1, <2>2 DEF TreeOps
      <2>5. PICK S : S = Editors \ {e}
            OBVIOUS
      <2>6. \A x \in S : ops'[x] = Tree!Arrive(ops[x], moved, d)
            BY <2>3, <2>5
      <2>7. Aims(e)'
            <3>1. ops'[e].at = "emptied"
                  BY <2>3, <2>4
            <3>.  QED BY <3>1 DEF AimSteps, Aims
      <2>8. \A x \in Editors \ S : x = e
            BY <2>5
      <2>9. \A x \in Editors \ S : Aims(x)'
            BY <2>7, <2>8
      <2>10. role' = role /\ edges' = edges /\ S \subseteq Editors
            BY <1>2, <2>5
      <2>.  QED BY <2>3, <2>4, <2>6, <2>9, <2>10, DescentArrivals
<1>.  QED BY <1>3, <1>4

LEMMA DescentRemovals ==
    ASSUME TreeSizes, TreeInv, DescentInv, NEW e \in Editors,
           \/ \E x \in edges : Tree!Disconnect(e, x)
           \/ Tree!DeleteCutsParents(e) \/ Tree!ResetWipes(e)
    PROVE  DescentInv'
<1>1. ops[e] \in TreeOps /\ role \in [Tree!Nodes -> Roles]
      BY Zenon DEF TreeInv, TreeTyped
<1>2. ASSUME NEW x \in edges, Tree!Disconnect(e, x) PROVE DescentInv'
      <2>1. Tree!EdgesRemoved(e, {x}, Tree!Idle) /\ UNCHANGED <<role, filed>>
            BY <1>2, Zenon DEF Tree!Disconnect
      <2>2. Aging
            BY <2>1 DEF Aging
      <2>3. Tree!Idle \in TreeOps /\ Tree!Idle.at \notin AimSteps
            BY IdleIs DEF AimSteps
      <2>.  QED BY <2>1, <2>2, <2>3, DescentRemoval
<1>3. CASE Tree!DeleteCutsParents(e)
      <2>1. PICK removed :
                removed = IF ops[e].hung THEN {x \in edges : x[2] = ops[e].target} ELSE {}
            OBVIOUS
      <2>2. PICK op : op = [ops[e] EXCEPT !.at = "cut"]
            OBVIOUS
      <2>3. op \in TreeOps /\ op.at = "cut"
            BY <1>1, <2>2 DEF TreeOps
      <2>4. Tree!EdgesRemoved(e, removed, op) /\ UNCHANGED <<role, filed>>
            BY <1>3, <2>1, <2>2, Zenon DEF Tree!DeleteCutsParents
      <2>5. Aging /\ op.at \notin AimSteps
            BY <2>3, <2>4 DEF Aging, AimSteps
      <2>.  QED BY <2>3, <2>4, <2>5, DescentRemoval
<1>4. CASE Tree!ResetWipes(e)
      <2>1. PICK op : op = [Tree!Idle EXCEPT !.at = "wiped"]
            OBVIOUS
      <2>2. op \in TreeOps /\ op.at = "wiped"
            BY <2>1 DEF Tree!Idle, TreeOps
      <2>3. /\ Tree!EdgesRemoved(e, edges, op)
            /\ role' = [n \in Tree!Nodes |-> IF n \in Tree!Live THEN "gone" ELSE role[n]]
            BY <1>4, <2>1, Zenon DEF Tree!ResetWipes
      <2>4. Aging /\ op.at \notin AimSteps
            BY <2>2, <2>3 DEF Aging, AimSteps
      <2>.  QED BY <2>2, <2>3, <2>4, DescentRemoval
<1>.  QED BY <1>2, <1>3, <1>4

LEMMA DescentLooks ==
    ASSUME TreeSizes, TreeInv, DescentInv, NEW e \in Editors,
           Tree!SeedLooksForRoot(e) \/ Tree!SeedLooksForCatchAll(e)
    PROVE  DescentInv'
<1>1. ops[e] \in TreeOps
      <2>1. ops \in [Editors -> TreeOps]
            BY Zenon DEF TreeInv, TreeTyped
      <2>.  QED BY <2>1, Zenon
<1>2. UNCHANGED <<role, edges, filed>>
      BY Zenon DEF Tree!SeedLooksForRoot, Tree!SeedLooksForCatchAll
<1>3. Aging
      BY <1>2 DEF Aging
<1>4. ASSUME NEW op \in TreeOps, op.at \notin AimSteps, Tree!Step(e, op)
      PROVE  DescentInv'
      <2>1. ASSUME ops'[e] = op PROVE Aims(e)'
            <3>1. ops'[e].at \notin AimSteps
                  BY <1>4, <2>1
            <3>.  QED BY <3>1 DEF AimSteps, Aims
      <2>.  QED BY <1>2, <1>3, <1>4, <2>1, DescentStep
<1>5. CASE \E r \in Tree!Live : Tree!Step(e, [ops[e] EXCEPT !.at = "rooted", !.into = r])
      <2>1. PICK r \in Tree!Live : Tree!Step(e, [ops[e] EXCEPT !.at = "rooted", !.into = r])
            BY <1>5, Zenon
      <2>2. PICK op : op = [ops[e] EXCEPT !.at = "rooted", !.into = r]
            OBVIOUS
      <2>3. r \in Tree!Nodes
            BY DEF Tree!Live
      <2>4. op \in TreeOps /\ op.at = "rooted"
            BY <1>1, <2>2, <2>3 DEF TreeOps
      <2>5. op.at \notin AimSteps
            BY <2>4 DEF AimSteps
      <2>6. Tree!Step(e, op)
            BY <2>1, <2>2, Zenon
      <2>.  QED BY <1>4, <2>4, <2>5, <2>6
<1>6. CASE Tree!Step(e, [ops[e] EXCEPT !.at = "rootless"])
      <2>1. PICK op : op = [ops[e] EXCEPT !.at = "rootless"]
            OBVIOUS
      <2>2. op \in TreeOps /\ op.at \notin AimSteps
            BY <1>1, <2>1 DEF TreeOps, AimSteps
      <2>3. Tree!Step(e, op)
            BY <1>6, <2>1, Zenon
      <2>.  QED BY <1>4, <2>2, <2>3
<1>7. CASE Tree!Step(e, [ops[e] EXCEPT !.at = "catchless"])
      <2>1. PICK op : op = [ops[e] EXCEPT !.at = "catchless"]
            OBVIOUS
      <2>2. op \in TreeOps /\ op.at \notin AimSteps
            BY <1>1, <2>1 DEF TreeOps, AimSteps
      <2>3. Tree!Step(e, op)
            BY <1>7, <2>1, Zenon
      <2>.  QED BY <1>4, <2>2, <2>3
<1>8. CASE Tree!Step(e, Tree!Idle)
      BY <1>2, <1>3, <1>8, DescentIdle
<1>9. CASE Tree!SeedLooksForRoot(e)
      <2>1. \/ \E r \in Tree!Live : Tree!Step(e, [ops[e] EXCEPT !.at = "rooted", !.into = r])
            \/ Tree!Step(e, [ops[e] EXCEPT !.at = "rootless"])
            BY <1>9, Zenon DEF Tree!SeedLooksForRoot
      <2>.  QED BY <1>5, <1>6, <2>1, Zenon
<1>10. CASE Tree!SeedLooksForCatchAll(e)
      <2>1. CASE \E c \in Tree!Live : role[c] = "catchall"
            BY <1>8, <1>10, <2>1 DEF Tree!SeedLooksForCatchAll
      <2>2. CASE ~ \E c \in Tree!Live : role[c] = "catchall"
            BY <1>7, <1>10, <2>2 DEF Tree!SeedLooksForCatchAll
      <2>.  QED BY <2>1, <2>2
<1>.  QED BY <1>9, <1>10

LEMMA DescentAddsRoot ==
    ASSUME TreeSizes, TreeInv, DescentInv, NEW e \in Editors, Tree!SeedAddsRoot(e)
    PROVE  DescentInv'
<1>1. PICK r \in Tree!Unborn :
          /\ role' = [role EXCEPT ![r] = "root"]
          /\ Tree!TreeWritten(e, {}, [ops[e] EXCEPT !.at = "rooted", !.into = r])
      BY Zenon DEF Tree!SeedAddsRoot
<1>2. edges' = edges
      BY Zenon DEF Tree!SeedAddsRoot
<1>3. PICK op : op = [ops[e] EXCEPT !.at = "rooted", !.into = r]
      OBVIOUS
<1>4. /\ r \in Tree!Nodes /\ role[r] = "unborn" /\ role \in [Tree!Nodes -> Roles]
      /\ ops[e] \in TreeOps
      BY <1>1 DEF Tree!Unborn, TreeInv, TreeTyped
<1>5. op \in TreeOps /\ op.at = "rooted"
      BY <1>3, <1>4 DEF TreeOps
<1>6. Tree!TreeWritten(e, {}, op)
      BY <1>1, <1>3
<1>7. Aging /\ op.at \notin AimSteps
      BY <1>1, <1>4, <1>5 DEF Aging, AimSteps
<1>8. RootsAlone'
      <2>1. \A x \in edges : x[2] \in Tree!Nodes /\ x[2] # r /\ role[x[2]] # "root"
            BY <1>4 DEF DescentInv, RootsAlone, TreeInv, TreeTyped, Tree!Live
      <2>2. \A n \in Tree!Nodes : n # r => role'[n] = role[n]
            BY <1>1, <1>4
      <2>.  QED BY <1>2, <2>1, <2>2 DEF RootsAlone
<1>9. OneFlaw'
      <2>1. races \in Nat /\ ops[e].raced \in Nat /\ races' = races + ops[e].raced
            BY <1>5, <1>6, WrittenRaces DEF TreeInv
      <2>2. races' <= 1 => races <= 1
            BY <2>1
      <2>.  QED BY <1>2, <2>2 DEF DescentInv, OneFlaw
<1>10. edges \ {} \subseteq edges'
      BY <1>2
<1>11. \A s, t \in Tree!Nodes :
         Born(t) /\ ~Tree!HasParent(edges, t) /\ s \notin Tree!Below(edges, t)
         => ~Tree!HasParent(edges', t) \/ s \notin Tree!Below(edges', t)
      BY <1>2
<1>.  QED BY <1>5, <1>6, <1>7, <1>8, <1>9, <1>10, <1>11, DescentWritten

LEMMA DescentAddsCatchAll ==
    ASSUME TreeSizes, TreeInv, DescentInv, NEW e \in Editors, Tree!SeedAddsCatchAll(e)
    PROVE  DescentInv'
<1>1. CASE ops[e].into \notin Tree!Live
      <2>1. Tree!Step(e, Tree!Idle) /\ UNCHANGED <<role, edges>>
            BY <1>1 DEF Tree!SeedAddsCatchAll
      <2>2. Aging
            BY <2>1 DEF Aging
      <2>.  QED BY <2>1, <2>2, DescentIdle
<1>2. CASE ops[e].into \in Tree!Live
      <2>1. PICK r \in Tree!Live : r = ops[e].into
            BY <1>2
      <2>2. PICK c \in Tree!Unborn : /\ role' = [role EXCEPT ![c] = "catchall"]
                                     /\ edges' = edges \cup {<<r, c>>}
            BY <1>2, <2>1 DEF Tree!SeedAddsCatchAll
      <2>3. Tree!TreeWritten(e, {}, Tree!Idle)
            BY <1>2 DEF Tree!SeedAddsCatchAll
      <2>4. /\ c \in Tree!Nodes /\ role[c] = "unborn" /\ role \in [Tree!Nodes -> Roles]
            /\ r \in Tree!Nodes /\ r # c
            BY <2>2 DEF Tree!Unborn, TreeInv, TreeTyped, Tree!Live
      <2>5. Aging
            BY <2>2, <2>4 DEF Aging
      <2>6. edges \subseteq Tree!Nodes \X Tree!Nodes /\ IsFiniteSet(Tree!Nodes)
            BY NodesFinite DEF TreeInv, TreeTyped
      <2>7. \A x \in edges : x[1] # c /\ x[2] # c
            BY <2>4 DEF TreeInv, TreeTyped, Tree!Live
      <2>8. RootsAlone'
            <3>1. \A x \in edges : role'[x[2]] = role[x[2]]
                  BY <2>2, <2>4, <2>6, <2>7
            <3>2. role'[c] # "root"
                  BY <2>2, <2>4
            <3>.  QED BY <2>2, <3>1, <3>2 DEF DescentInv, RootsAlone
      <2>9. OneFlaw'
            <3>1. races \in Nat /\ ops[e].raced \in Nat /\ races' = races + ops[e].raced
                  BY <2>3, IdleIs, WrittenRaces DEF TreeInv
            <3>2. races' <= 1 => races <= 1
                  BY <3>1
            <3>3. OneParent(edges) => OneParent(edges')
                  BY <2>2, <2>7 DEF OneParent
            <3>4. r \notin Tree!Below(edges, c)
                  <4>1. Closed(edges, {c})
                        BY <2>7 DEF Closed
                  <4>2. Tree!Below(edges, c) \subseteq {c}
                        BY <2>6, <4>1, BelowStays
                  <4>.  QED BY <2>4, <4>2
            <3>5. Tree!Acyclic(edges) => Tree!Acyclic(edges')
                  BY <2>2, <2>4, <2>6, <3>4, EdgeAcyclic
            <3>.  QED BY <3>2, <3>3, <3>5 DEF DescentInv, OneFlaw
      <2>10. \A s, t \in Tree!Nodes :
               Born(t) /\ ~Tree!HasParent(edges, t) /\ s \notin Tree!Below(edges, t)
               => ~Tree!HasParent(edges', t) \/ s \notin Tree!Below(edges', t)
            <3>1. edges' \subseteq edges \cup {<<r, c>>}
                  BY <2>2
            <3>.  QED BY <2>6, <3>1, OneEdgeMore
      <2>11. edges \ {} \subseteq edges' /\ Tree!Idle.at \notin AimSteps
            BY <2>2, IdleIs DEF AimSteps
      <2>.  QED BY <2>3, <2>5, <2>8, <2>9, <2>10, <2>11, IdleIs, DescentWritten
<1>.  QED BY <1>1, <1>2

LEMMA DescentImports ==
    ASSUME TreeSizes, TreeInv, DescentInv, NEW e \in Editors, NEW r \in Tree!Live, NEW N,
           N \subseteq Tree!Unborn, NEW c \in N, NEW E, E \subseteq (N \cup {r}) \X N,
           Tree!Import(e, r, N, E, c)
    PROVE  DescentInv'
<1>1. /\ Tree!ValidTransfer(E, r, c) /\ edges' = E
      /\ Tree!TreeWritten(e, edges, Tree!Idle)
      BY DEF Tree!Import
<1>2. role' = [n \in Tree!Nodes |-> CASE n = c -> "catchall" [] n \in N \ {c} -> "folder"
                  [] n \in Tree!NonRoot -> "gone" [] OTHER -> role[n]]
      BY DEF Tree!Import
<1>3. N \subseteq Tree!Nodes /\ \A n \in N : role[n] = "unborn"
      BY DEF Tree!Unborn
<1>4. /\ \A n \in N : role'[n] # "root"
      /\ \A n \in Tree!Nodes \ N : role'[n] \in {role[n], "gone"}
      BY <1>2, <1>3
<1>5. Aging
      BY <1>3, <1>4 DEF Aging
<1>6. RootsAlone'
      BY <1>1, <1>4 DEF RootsAlone
<1>7. OneFlaw'
      BY <1>1 DEF OneFlaw, OneParent, Tree!ValidTransfer
<1>8. \A s, t \in Tree!Nodes :
        Born(t) /\ ~Tree!HasParent(edges, t) /\ s \notin Tree!Below(edges, t)
        => ~Tree!HasParent(edges', t) \/ s \notin Tree!Below(edges', t)
      <2>1. \A t : Born(t) => ~Tree!HasParent(edges', t)
            BY <1>1, <1>3 DEF Born, Tree!HasParent
      <2>.  QED BY <2>1
<1>9. edges \ edges \subseteq edges' /\ Tree!Idle.at \notin AimSteps
      BY IdleIs DEF AimSteps
<1>.  QED BY <1>1, <1>5, <1>6, <1>7, <1>8, <1>9, IdleIs, DescentWritten

LEMMA DescentBegins ==
    ASSUME TreeSizes, Tree!Init
    PROVE  DescentInv
<1>1. TreeInv
      BY TreeBegins
<1>2. races = 0 /\ \A x \in Editors : ops[x].at = "idle"
      BY IdleIs DEF Tree!Init
<1>3. RootsAlone
      <2>1. \A x \in edges : MayHold(x[1], x[2])
            BY <1>1, <1>2 DEF TreeInv, TreeShape
      <2>.  QED BY <2>1 DEF RootsAlone, MayHold
<1>4. OneFlaw
      BY <1>1, <1>2 DEF TreeInv, TreeShape, OneFlaw, OneParent
<1>5. \A x \in Editors : Aims(x)
      BY <1>2, AimsAtNothing DEF AimSteps
<1>.  QED BY <1>3, <1>4, <1>5 DEF DescentInv

LEMMA DescentNext ==
    ASSUME TreeSizes, TreeInv, DescentInv, [Tree!Next]_Tree!vars
    PROVE  DescentInv'
<1>1. CASE UNCHANGED Tree!vars
      BY <1>1 DEF Tree!vars, DescentInv, RootsAlone, OneFlaw, Aims
<1>2. ASSUME NEW e \in Editors, Tree!EdgeRequests(e)
      PROVE  DescentInv'
      BY <1>2, DescentConnectReads, DescentMoveReads, DescentChecks, DescentConnects,
         DescentMoves, DescentRemovals DEF Tree!EdgeRequests
<1>3. ASSUME NEW e \in Editors, Tree!NodeRequests(e)
      PROVE  DescentInv'
      BY <1>3, DescentNodes, DescentDeleteReads, DescentDeleteMoves, DescentRemovals
         DEF Tree!NodeRequests
<1>4. ASSUME NEW e \in Editors, Tree!TreeRequests(e)
      PROVE  DescentInv'
      <2>1. CASE \E r \in Tree!Live, N \in SUBSET Tree!Unborn : \E c \in N :
                 \E E \in SUBSET ((N \cup {r}) \X N) : Tree!Import(e, r, N, E, c)
            <3>1. PICK r \in Tree!Live, N \in SUBSET Tree!Unborn : \E c \in N :
                      \E E \in SUBSET ((N \cup {r}) \X N) : Tree!Import(e, r, N, E, c)
                  BY <2>1
            <3>2. PICK c \in N, E \in SUBSET ((N \cup {r}) \X N) : Tree!Import(e, r, N, E, c)
                  BY <3>1
            <3>3. N \subseteq Tree!Unborn /\ E \subseteq (N \cup {r}) \X N
                  OBVIOUS
            <3>.  QED BY <3>2, <3>3, DescentImports
      <2>.  QED BY <1>4, <2>1, DescentRemovals, DescentLooks, DescentAddsRoot,
                   DescentAddsCatchAll DEF Tree!TreeRequests
<1>5. ASSUME NEW e \in Editors, Tree!Crash(e)
      PROVE  DescentInv'
      BY <1>5, DescentNodes
<1>6. ASSUME NEW t \in Threads, NEW n \in Tree!Nodes, Tree!Files(t, n)
      PROVE  DescentInv'
      BY <1>6, DescentFiles
<1>.  QED BY <1>1, <1>2, <1>3, <1>4, <1>5, <1>6 DEF Tree!Next

\* The sorter's walk down from a root comes to an end, though one pair of edits overlaps: a
\* folder may then have two parents, or a cycle be cut off from the roots, and never both
\* (sorter.ts descends with no set of visited nodes).
THEOREM DescentAlwaysEnds ==
    ASSUME TreeSizes
    PROVE  Tree!Spec => []Tree!DescentEnds
<1>1. ASSUME TreeInv, DescentInv
      PROVE  Tree!DescentEnds
      <2>1. SUFFICES ASSUME races <= 1, NEW r \in Tree!Live, role[r] = "root"
                     PROVE  Tree!Acyclic({x \in edges : x[1] \in Tree!Below(edges, r)})
            BY DEF Tree!DescentEnds
      <2>2. edges \subseteq Tree!Nodes \X Tree!Nodes /\ IsFiniteSet(Tree!Nodes) /\ r \in Tree!Nodes
            BY <1>1, NodesFinite DEF TreeInv, TreeTyped, Tree!Live
      <2>3. CASE OneParent(edges)
            <3>1. \A x \in edges : x[2] # r
                  BY <1>1, <2>1 DEF DescentInv, RootsAlone
            <3>.  QED BY <2>2, <2>3, <3>1, NoWayIntoCycle
      <2>4. CASE Tree!Acyclic(edges)
            <3>1. {x \in edges : x[1] \in Tree!Below(edges, r)} \subseteq edges
                  OBVIOUS
            <3>.  QED BY <2>2, <2>4, <3>1, FewerAcyclic
      <2>.  QED BY <1>1, <2>1, <2>3, <2>4 DEF DescentInv, OneFlaw
<1>2. Tree!Init => DescentInv
      BY DescentBegins
<1>3. TreeInv /\ DescentInv /\ [Tree!Next]_Tree!vars => DescentInv'
      BY DescentNext
<1>.  QED BY <1>1, <1>2, <1>3, TreeBegins, TreeStep, PTL DEF Tree!Spec

-----------------------------------------------------------------------------
(* The sorter's decision (Placement): numbers, powers and sums.              *)

\* Finitely many numbers have a greatest and a least one.
LEMMA GreatestOf ==
    ASSUME NEW N, IsFiniteSet(N), N # {}, NEW v \in [N -> Int]
    PROVE  \E m \in N : \A k \in N : v[k] <= v[m]
<1>.  DEFINE Tops(M)  == \E m \in M : \A k \in M : v[k] <= v[m]
             Sizes == {c \in Nat : \E M \in SUBSET N : M # {} /\ Cardinality(M) = c /\ ~Tops(M)}
<1>1. SUFFICES ASSUME ~Tops(N) PROVE FALSE
      OBVIOUS
<1>2. Cardinality(N) \in Sizes
      BY <1>1, FS_CardinalityType
<1>3. PICK c \in Sizes : \A d \in Sizes : c <= d
      <2>1. Sizes \subseteq Nat /\ Sizes # {}
            BY <1>2
      <2>.  QED BY <2>1, LeastNumber
<1>4. PICK M \in SUBSET N : M # {} /\ Cardinality(M) = c /\ ~Tops(M)
      BY <1>3
<1>5. PICK x \in M : TRUE
      BY <1>4
<1>6. PICK y \in M : ~(v[y] <= v[x])
      BY <1>4, <1>5
<1>7. /\ IsFiniteSet(M) /\ IsFiniteSet(M \ {x}) /\ Cardinality(M \ {x}) = c - 1
      /\ c \in Nat /\ Cardinality(M \ {x}) \in Nat
      BY <1>4, <1>5, FS_Subset, FS_RemoveElement, FS_CardinalityType
<1>8. v[x] \in Int /\ v[y] \in Int /\ y # x /\ M \ {x} # {} /\ M \ {x} \in SUBSET N
      BY <1>4, <1>5, <1>6
<1>9. Tops(M \ {x})
      <2>1. SUFFICES ASSUME ~Tops(M \ {x}) PROVE FALSE
            OBVIOUS
      <2>2. c - 1 \in Sizes
            BY <1>7, <1>8, <2>1
      <2>3. c <= c - 1
            BY <1>3, <2>2
      <2>.  QED BY <1>7, <2>3
<1>10. PICK m \in M \ {x} : \A k \in M \ {x} : v[k] <= v[m]
      BY <1>9
<1>11. v[x] <= v[m]
      <2>1. v[y] <= v[m] /\ v[m] \in Int
            BY <1>4, <1>6, <1>8, <1>10
      <2>.  QED BY <1>6, <1>8, <2>1
<1>.  QED BY <1>4, <1>10, <1>11

LEMMA LeastOf ==
    ASSUME NEW N, IsFiniteSet(N), N # {}, NEW v \in [N -> Int]
    PROVE  \E m \in N : \A k \in N : v[m] <= v[k]
<1>1. PICK u : u = [k \in N |-> -v[k]]
      OBVIOUS
<1>2. u \in [N -> Int]
      BY <1>1
<1>3. PICK m \in N : \A k \in N : u[k] <= u[m]
      BY <1>2, GreatestOf
<1>4. \A k \in N : v[m] <= v[k]
      <2>1. SUFFICES ASSUME NEW k \in N PROVE v[m] <= v[k]
            OBVIOUS
      <2>2. -v[k] <= -v[m] /\ v[k] \in Int /\ v[m] \in Int
            BY <1>1, <1>3
      <2>.  QED BY <2>2
<1>.  QED BY <1>4

LEMMA MaxIs ==
    ASSUME NEW S, NEW a \in S, S \subseteq Int, \A b \in S : b <= a
    PROVE  /\ Placing!Max(S) \in S
           /\ \A b \in S : b <= Placing!Max(S)
<1>1. \A b \in S : a >= b
      OBVIOUS
<1>2. /\ Placing!Max(S) \in S
      /\ \A b \in S : Placing!Max(S) >= b
      BY <1>1 DEF Placing!Max
<1>.  QED BY <1>2

LEMMA MinIs ==
    ASSUME NEW S, NEW a \in S, \A b \in S : a <= b
    PROVE  /\ Placing!Min(S) \in S
           /\ \A b \in S : Placing!Min(S) <= b
BY DEF Placing!Min

\* A set of b things has more subsets than one of fewer.
LEMMA PowersGrow ==
    ASSUME NEW a \in Nat, NEW b \in Nat, a <= b
    PROVE  2 ^ a \in Nat /\ 2 ^ b \in Nat /\ 2 ^ a <= 2 ^ b
<1>1. /\ IsFiniteSet(1 .. a) /\ Cardinality(1 .. a) = a
      /\ IsFiniteSet(1 .. b) /\ Cardinality(1 .. b) = b
      BY FS_Interval
<1>2. /\ IsFiniteSet(SUBSET (1 .. a)) /\ Cardinality(SUBSET (1 .. a)) = 2 ^ a
      /\ IsFiniteSet(SUBSET (1 .. b)) /\ Cardinality(SUBSET (1 .. b)) = 2 ^ b
      BY <1>1, FS_SUBSET
<1>3. SUBSET (1 .. a) \in SUBSET (SUBSET (1 .. b))
      OBVIOUS
<1>4. Cardinality(SUBSET (1 .. a)) <= Cardinality(SUBSET (1 .. b))
      BY <1>2, <1>3, FS_Subset
<1>5. Cardinality(SUBSET (1 .. a)) \in Nat /\ Cardinality(SUBSET (1 .. b)) \in Nat
      BY <1>2, FS_CardinalityType
<1>.  QED BY <1>2, <1>4, <1>5

LEMMA PlacingCount == \A S : Placing!Cardinality(S) = Cardinality(S)
BY DEF Placing!Cardinality, Cardinality, Placing!IsFiniteSet, IsFiniteSet

\* What softmax weights add up to.
Weigh(low, x) == 2 ^ (Placing!Score(x) - low)
Mass(S, low)  == Placing!MapThenSumSet(LAMBDA x : Weigh(low, x), S)
Sums(S, low)  ==
    CHOOSE iter : iter = [s \in SUBSET S |->
        IF s = {} THEN 0
        ELSE Weigh(low, CHOOSE x \in s : TRUE) + iter[s \ {CHOOSE x \in s : TRUE}]]

Chosen(s)     == CHOOSE x \in s : TRUE

LEMMA MassIs == ASSUME NEW S, NEW low PROVE Mass(S, low) = Sums(S, low)[S]
BY DEF Mass, Sums, Placing!MapThenSumSet, Placing!MapThenFoldSet

LEMMA SumsExist ==
    ASSUME NEW S, IsFiniteSet(S), NEW low
    PROVE  \A s \in SUBSET S : Sums(S, low)[s] =
              IF s = {} THEN 0
              ELSE Weigh(low, Chosen(s)) + Sums(S, low)[s \ {Chosen(s)}]
<1>.  DEFINE pick(s) == CHOOSE x \in s : TRUE
             Small(n) == {s \in SUBSET S : Cardinality(s) <= n}
             Starts(n) == \E g : g = [s \in Small(n) |->
                             IF s = {} THEN 0 ELSE Weigh(low, pick(s)) + g[s \ {pick(s)}]]
             Bad == {n \in Nat : ~Starts(n)}
<1>1. ASSUME NEW s \in SUBSET S
      PROVE  /\ Cardinality(s) \in Nat /\ (Cardinality(s) = 0 <=> s = {})
             /\ s # {} => s \ {pick(s)} \in SUBSET S /\ Cardinality(s \ {pick(s)}) = Cardinality(s) - 1
      <2>1. IsFiniteSet(s)
            BY FS_Subset
      <2>2. s # {} => pick(s) \in s
            OBVIOUS
      <2>.  QED BY <2>1, <2>2, FS_CardinalityType, FS_EmptySet, FS_RemoveElement
<1>.  HIDE DEF pick
<1>2. Bad = {}
      <2>1. SUFFICES ASSUME Bad # {} PROVE FALSE
            OBVIOUS
      <2>2. PICK n \in Bad : \A d \in Bad : n <= d
            <3>1. Bad \subseteq Nat
                  OBVIOUS
            <3>.  QED BY <2>1, <3>1, LeastNumber
      <2>3. n \in Nat
            BY <2>2
      <2>4. CASE n = 0
            <3>1. \A s \in Small(0) : s = {}
                  <4>1. SUFFICES ASSUME NEW s \in Small(0) PROVE s = {}
                        OBVIOUS
                  <4>2. s \in SUBSET S /\ Cardinality(s) <= 0
                        OBVIOUS
                  <4>3. Cardinality(s) \in Nat /\ (Cardinality(s) = 0 <=> s = {})
                        BY <1>1, <4>2
                  <4>.  QED BY <4>2, <4>3
            <3>2. PICK g : g = [s \in Small(0) |-> 0]
                  OBVIOUS
            <3>3. g = [s \in Small(0) |-> IF s = {} THEN 0 ELSE Weigh(low, pick(s)) + g[s \ {pick(s)}]]
                  BY <3>1, <3>2
            <3>.  QED BY <2>2, <2>4, <3>3
      <2>5. CASE n # 0
            <3>1. n - 1 \in Nat /\ ~(n <= n - 1)
                  BY <2>3, <2>5
            <3>2. Starts(n - 1)
                  BY <2>2, <3>1
            <3>3. PICK g : g = [s \in Small(n - 1) |->
                              IF s = {} THEN 0 ELSE Weigh(low, pick(s)) + g[s \ {pick(s)}]]
                  BY <3>2
            <3>4. PICK h : h = [s \in Small(n) |->
                              IF s = {} THEN 0 ELSE Weigh(low, pick(s)) + g[s \ {pick(s)}]]
                  OBVIOUS
            <3>5. ASSUME NEW s \in Small(n - 1)
                  PROVE  s \in Small(n) /\ h[s] = g[s]
                  <4>1. s \in Small(n)
                        <5>1. s \in SUBSET S /\ Cardinality(s) <= n - 1
                              OBVIOUS
                        <5>2. Cardinality(s) \in Nat
                              BY <1>1, <5>1
                        <5>3. Cardinality(s) <= n
                              BY <2>3, <5>1, <5>2
                        <5>.  QED BY <5>1, <5>3
                  <4>2. g[s] = IF s = {} THEN 0 ELSE Weigh(low, pick(s)) + g[s \ {pick(s)}]
                        BY <3>3
                  <4>3. h[s] = IF s = {} THEN 0 ELSE Weigh(low, pick(s)) + g[s \ {pick(s)}]
                        BY <3>4, <4>1
                  <4>.  QED BY <4>1, <4>2, <4>3
            <3>6. ASSUME NEW s \in Small(n), s # {}
                  PROVE  h[s \ {pick(s)}] = g[s \ {pick(s)}]
                  <4>1. s \ {pick(s)} \in Small(n - 1)
                        <5>1. s \in SUBSET S /\ Cardinality(s) <= n
                              OBVIOUS
                        <5>2. /\ Cardinality(s) \in Nat /\ s \ {pick(s)} \in SUBSET S
                              /\ Cardinality(s \ {pick(s)}) = Cardinality(s) - 1
                              BY <1>1, <3>6, <5>1
                        <5>3. Cardinality(s \ {pick(s)}) <= n - 1
                              BY <2>3, <5>1, <5>2
                        <5>.  QED BY <5>2, <5>3
                  <4>.  QED BY <3>5, <4>1
            <3>7. ASSUME NEW s \in Small(n)
                  PROVE  (IF s = {} THEN 0 ELSE Weigh(low, pick(s)) + g[s \ {pick(s)}])
                         = IF s = {} THEN 0 ELSE Weigh(low, pick(s)) + h[s \ {pick(s)}]
                  BY <3>6
            <3>8. h = [s \in Small(n) |-> IF s = {} THEN 0 ELSE Weigh(low, pick(s)) + h[s \ {pick(s)}]]
                  BY <3>4, <3>7
            <3>.  QED BY <2>2, <3>8
      <2>.  QED BY <2>4, <2>5
<1>3. Cardinality(S) \in Nat
      BY FS_CardinalityType
<1>4. Starts(Cardinality(S))
      BY <1>2, <1>3
<1>5. Small(Cardinality(S)) = SUBSET S
      <2>1. \A s \in SUBSET S : Cardinality(s) <= Cardinality(S)
            BY FS_Subset
      <2>.  QED BY <2>1
<1>6. \E g : g = [s \in SUBSET S |-> IF s = {} THEN 0 ELSE Weigh(low, pick(s)) + g[s \ {pick(s)}]]
      BY <1>4, <1>5
<1>7. Sums(S, low) = [s \in SUBSET S |->
          IF s = {} THEN 0 ELSE Weigh(low, pick(s)) + Sums(S, low)[s \ {pick(s)}]]
      BY <1>6 DEF Sums, pick
<1>8. \A s \in SUBSET S : Sums(S, low)[s] =
          IF s = {} THEN 0 ELSE Weigh(low, pick(s)) + Sums(S, low)[s \ {pick(s)}]
      BY <1>7
<1>.  QED BY <1>8 DEF Chosen, pick

LEMMA MassCounts ==
    ASSUME NEW S, IsFiniteSet(S), NEW low, \A x \in S : Weigh(low, x) \in Nat
    PROVE  Mass(S, low) \in Nat
<1>.  DEFINE sum == Sums(S, low)
             Bad == {n \in Nat : \E s \in SUBSET S : Cardinality(s) = n /\ sum[s] \notin Nat}
<1>0. \A s \in SUBSET S : sum[s] =
          IF s = {} THEN 0 ELSE Weigh(low, Chosen(s)) + sum[s \ {Chosen(s)}]
      BY SumsExist
<1>.  HIDE DEF sum
<1>1. Bad = {}
      <2>1. SUFFICES ASSUME Bad # {} PROVE FALSE
            OBVIOUS
      <2>2. PICK n \in Bad : \A d \in Bad : n <= d
            <3>1. Bad \subseteq Nat
                  OBVIOUS
            <3>.  QED BY <2>1, <3>1, LeastNumber
      <2>3. PICK s \in SUBSET S : Cardinality(s) = n /\ sum[s] \notin Nat
            BY <2>2
      <2>4. PICK y : y = Chosen(s)
            OBVIOUS
      <2>5. sum[s] = IF s = {} THEN 0 ELSE Weigh(low, y) + sum[s \ {y}]
            BY <1>0, <2>4
      <2>6. s # {} /\ y \in s
            BY <2>3, <2>4, <2>5 DEF Chosen
      <2>7. Cardinality(s \ {y}) = n - 1 /\ Cardinality(s \ {y}) \in Nat /\ s \ {y} \in SUBSET S
            BY <2>3, <2>6, FS_Subset, FS_RemoveElement, FS_CardinalityType
      <2>8. sum[s \ {y}] \in Nat
            <3>1. ~(n <= n - 1)
                  BY <2>2
            <3>.  QED BY <2>2, <2>7, <3>1
      <2>9. Weigh(low, y) + sum[s \ {y}] \in Nat
            BY <2>6, <2>8
      <2>.  QED BY <2>3, <2>5, <2>6, <2>9
<1>2. Cardinality(S) \in Nat
      BY FS_CardinalityType
<1>.  QED BY <1>1, <1>2, MassIs DEF sum

-----------------------------------------------------------------------------
(* What lies below a folder.                                                 *)

PlacementSizes ==
    Last \in Nat /\ Sims \subseteq Int /\ ThetaMin \in Int /\ ThetaMin > 0

Places == 0 .. Last

ThreadTyped ==
    /\ parent \in [1 .. Last -> Places] /\ \A f \in 1 .. Last : parent[f] < f
    /\ sim \in [1 .. Last -> Sims] /\ automated \in BOOLEAN
    /\ catchAll \in {-1} \cup 1 .. Last

Deepen(N) == UNION {{m} \cup Placing!Children(m) : m \in N}

Levels(n) == CHOOSE below : below = [d \in Places |-> IF d = 0 THEN {n} ELSE Deepen(below[d - 1])]

LEMMA SubtreeIs == ASSUME NEW n PROVE Placing!Subtree(n) = Levels(n)[Last]
BY DEF Placing!Subtree, Levels, Deepen, Places

LEMMA LevelsExist ==
    ASSUME NEW n, Last \in Nat
    PROVE  Levels(n) = [d \in Places |-> IF d = 0 THEN {n} ELSE Deepen(Levels(n)[d - 1])]
<1>.  DEFINE Starts(m) ==
                 \E g : g = [d \in 0 .. m |-> IF d = 0 THEN {n} ELSE Deepen(g[d - 1])]
             Bad == {m \in Nat : ~Starts(m)}
<1>1. Bad = {}
      <2>1. SUFFICES ASSUME Bad # {} PROVE FALSE
            OBVIOUS
      <2>2. PICK m \in Bad : \A d \in Bad : m <= d
            <3>1. Bad \subseteq Nat
                  OBVIOUS
            <3>.  QED BY <2>1, <3>1, LeastNumber
      <2>3. m \in Nat
            BY <2>2
      <2>4. CASE m = 0
            <3>1. PICK g : g = [d \in 0 .. 0 |-> {n}]
                  OBVIOUS
            <3>2. g = [d \in 0 .. 0 |-> IF d = 0 THEN {n} ELSE Deepen(g[d - 1])]
                  BY <3>1
            <3>.  QED BY <2>2, <2>4, <3>2
      <2>5. CASE m # 0
            <3>1. m - 1 \in Nat /\ ~(m <= m - 1)
                  BY <2>3, <2>5
            <3>2. PICK g : g = [d \in 0 .. m - 1 |-> IF d = 0 THEN {n} ELSE Deepen(g[d - 1])]
                  BY <2>2, <3>1
            <3>3. PICK h : h = [d \in 0 .. m |-> IF d = m THEN Deepen(g[m - 1]) ELSE g[d]]
                  OBVIOUS
            <3>4. ASSUME NEW d \in 0 .. m
                  PROVE  h[d] = IF d = 0 THEN {n} ELSE Deepen(h[d - 1])
                  <4>1. CASE d = m
                        <5>1. m - 1 \in 0 .. m /\ m - 1 # m
                              BY <2>3, <3>1
                        <5>2. h[d] = Deepen(g[m - 1]) /\ h[m - 1] = g[m - 1]
                              BY <3>3, <4>1, <5>1
                        <5>.  QED BY <2>5, <4>1, <5>2
                  <4>2. CASE d # m
                        <5>1. d \in 0 .. m - 1 /\ h[d] = g[d]
                              BY <2>3, <3>3, <4>2
                        <5>2. g[d] = IF d = 0 THEN {n} ELSE Deepen(g[d - 1])
                              BY <3>2, <5>1
                        <5>3. d # 0 => d - 1 \in 0 .. m /\ d - 1 # m
                              BY <2>3, <5>1
                        <5>4. d # 0 => h[d - 1] = g[d - 1]
                              BY <3>3, <5>3
                        <5>.  QED BY <5>1, <5>2, <5>4
                  <4>.  QED BY <4>1, <4>2
            <3>5. h = [d \in 0 .. m |-> IF d = 0 THEN {n} ELSE Deepen(h[d - 1])]
                  BY <3>3, <3>4
            <3>.  QED BY <2>2, <3>5
      <2>.  QED BY <2>4, <2>5
<1>2. Starts(Last)
      BY <1>1
<1>.  QED BY <1>2 DEF Levels, Places

\* Children of what is in N are in N.
Downward(N) == \A m \in N : Placing!Children(m) \subseteq N

LEMMA SubtreeLeast ==
    ASSUME NEW n, Last \in Nat, NEW N, n \in N, Downward(N)
    PROVE  Placing!Subtree(n) \subseteq N
<1>.  DEFINE Bad == {d \in Places : ~(Levels(n)[d] \subseteq N)}
<1>1. Bad = {}
      <2>1. SUFFICES ASSUME Bad # {} PROVE FALSE
            OBVIOUS
      <2>2. PICK d \in Bad : \A e \in Bad : d <= e
            <3>1. Bad \subseteq Nat
                  BY DEF Places
            <3>.  QED BY <2>1, <3>1, LeastNumber
      <2>3. Levels(n)[d] = IF d = 0 THEN {n} ELSE Deepen(Levels(n)[d - 1])
            BY <2>2, LevelsExist
      <2>4. d # 0
            BY <2>2, <2>3
      <2>5. d - 1 \in Places /\ ~(d <= d - 1)
            BY <2>2, <2>4 DEF Places
      <2>6. Levels(n)[d - 1] \subseteq N
            BY <2>2, <2>5
      <2>.  QED BY <2>2, <2>3, <2>4, <2>6 DEF Deepen, Downward
<1>2. Last \in Places
      BY DEF Places
<1>.  QED BY <1>1, <1>2, SubtreeIs

LEMMA ChildrenAre ==
    ASSUME PlacementSizes, ThreadTyped, NEW m, NEW c \in Placing!Children(m)
    PROVE  c \in 1 .. Last /\ c # catchAll /\ parent[c] = m /\ m < c /\ m \in Places
BY DEF PlacementSizes, ThreadTyped, Placing!Children, Placing!Routable, Placing!Folders

\* Levels only grow.
LEMMA LevelsGrow ==
    ASSUME Last \in Nat, NEW n, NEW d \in Places, NEW e \in Places, d <= e
    PROVE  Levels(n)[d] \subseteq Levels(n)[e]
<1>.  DEFINE Bad == {k \in d .. Last : ~(Levels(n)[d] \subseteq Levels(n)[k])}
<1>1. Bad = {}
      <2>1. SUFFICES ASSUME Bad # {} PROVE FALSE
            OBVIOUS
      <2>2. PICK k \in Bad : \A j \in Bad : k <= j
            <3>1. Bad \subseteq Nat
                  BY DEF Places
            <3>.  QED BY <2>1, <3>1, LeastNumber
      <2>3. k \in Places /\ k # 0 /\ k - 1 \in d .. Last /\ ~(k <= k - 1)
            BY <2>2 DEF Places
      <2>4. Levels(n)[d] \subseteq Levels(n)[k - 1]
            BY <2>2, <2>3
      <2>5. Levels(n)[k] = Deepen(Levels(n)[k - 1])
            BY <2>3, LevelsExist
      <2>.  QED BY <2>2, <2>4, <2>5 DEF Deepen
<1>2. e \in d .. Last
      BY DEF Places
<1>.  QED BY <1>1, <1>2

\* A folder is found at the depth of its number, so that the deepest level has all.
LEMMA SubtreeHolds ==
    ASSUME PlacementSizes, ThreadTyped, NEW n \in Places
    PROVE  /\ n \in Placing!Subtree(n) /\ Placing!Subtree(n) \subseteq Places
           /\ Downward(Placing!Subtree(n))
<1>.  DEFINE L(d) == Levels(n)[d]
             Early(d) == L(d) \subseteq Places /\ \A m \in L(d) : m < d => m \in L(m)
             Bad == {d \in Places : ~Early(d)}
<1>1. Last \in Nat
      BY DEF PlacementSizes
<1>2. \A d \in Places : L(d) = IF d = 0 THEN {n} ELSE Deepen(L(d - 1))
      BY <1>1, LevelsExist
<1>3. \A d, e \in Places : d <= e => L(d) \subseteq L(e)
      BY <1>1, LevelsGrow
<1>.  HIDE DEF L
<1>4. Bad = {}
      <2>1. SUFFICES ASSUME Bad # {} PROVE FALSE
            OBVIOUS
      <2>2. PICK d \in Bad : \A e \in Bad : d <= e
            <3>1. Bad \subseteq Nat
                  BY DEF Places
            <3>.  QED BY <2>1, <3>1, LeastNumber
      <2>3. d # 0
            <3>1. SUFFICES ASSUME d = 0 PROVE FALSE
                  OBVIOUS
            <3>2. L(d) = {n} /\ ~(n < d)
                  BY <1>2, <2>2, <3>1 DEF Places
            <3>3. Early(d)
                  BY <3>2
            <3>.  QED BY <2>2, <3>3
      <2>4. d - 1 \in Places /\ ~(d <= d - 1) /\ d \in Places /\ d \in Nat
            <3>1. d \in 0 .. Last
                  BY <2>2 DEF Places
            <3>.  QED BY <1>1, <2>3, <3>1 DEF Places
      <2>5. Early(d - 1)
            BY <2>2, <2>4
      <2>6. L(d) = Deepen(L(d - 1))
            BY <1>2, <2>2, <2>3
      <2>7. L(d) \subseteq Places
            <3>1. \A m \in L(d - 1) : \A c \in Placing!Children(m) : c \in Places
                  BY ChildrenAre DEF Places
            <3>.  QED BY <2>5, <2>6, <3>1 DEF Deepen
      <2>8. ASSUME NEW m \in L(d), m < d PROVE m \in L(m)
            <3>1. m \in Nat
                  BY <2>7 DEF Places
            <3>2. CASE m \in L(d - 1)
                  <4>1. CASE m < d - 1
                        BY <2>5, <3>2, <4>1
                  <4>2. CASE m = d - 1
                        BY <3>2, <4>2
                  <4>.  QED BY <2>4, <2>8, <3>1, <4>1, <4>2
            <3>3. CASE m \notin L(d - 1)
                  <4>1. PICK p \in L(d - 1) : m \in Placing!Children(p)
                        BY <2>6, <3>3 DEF Deepen
                  <4>2. p < m /\ p \in Places /\ m \in Places /\ m - 1 \in Places /\ m # 0 /\ p <= m - 1
                        <5>1. m \in 1 .. Last /\ p < m /\ p \in 0 .. Last
                              BY <4>1, ChildrenAre DEF Places
                        <5>.  QED BY <1>1, <5>1 DEF Places
                  <4>3. p < d - 1
                        BY <2>4, <2>8, <3>1, <4>2 DEF Places
                  <4>4. p \in L(m - 1)
                        BY <1>3, <2>5, <4>1, <4>2, <4>3
                  <4>5. L(m) = Deepen(L(m - 1))
                        BY <1>2, <4>2
                  <4>.  QED BY <4>1, <4>4, <4>5 DEF Deepen
            <3>.  QED BY <3>2, <3>3
      <2>.  QED BY <2>2, <2>7, <2>8
<1>5. Last \in Places /\ 0 \in Places /\ Early(Last)
      BY <1>1, <1>4 DEF Places
<1>6. n \in L(Last)
      <2>1. n \in L(0) /\ 0 <= Last
            BY <1>1, <1>2, <1>5
      <2>.  QED BY <1>3, <1>5, <2>1
<1>7. ASSUME NEW m \in L(Last), NEW c \in Placing!Children(m)
      PROVE  c \in L(Last)
      <2>1. /\ m < c /\ c <= Last /\ c \in Places /\ m \in Places
            /\ c - 1 \in Places /\ c # 0 /\ m <= c - 1
            BY <1>1, ChildrenAre DEF Places
      <2>2. m \in L(m)
            BY <1>1, <1>5, <2>1 DEF Places
      <2>3. m \in L(c - 1)
            BY <1>3, <2>1, <2>2
      <2>4. c \in L(c)
            BY <1>2, <2>1, <2>3 DEF Deepen
      <2>.  QED BY <1>3, <1>5, <2>1, <2>4
<1>8. Placing!Subtree(n) = L(Last)
      BY SubtreeIs DEF L
<1>.  QED BY <1>5, <1>6, <1>7, <1>8 DEF Downward

\* The subtree of a folder is the folder and the subtrees of its children.
LEMMA SubtreeSplits ==
    ASSUME PlacementSizes, ThreadTyped, NEW n \in Places, NEW m \in Placing!Subtree(n), m # n
    PROVE  \E c \in Placing!Children(n) : m \in Placing!Subtree(c)
<1>.  DEFINE N == {n} \cup UNION {Placing!Subtree(c) : c \in Placing!Children(n)}
<1>1. \A c \in Placing!Children(n) : c \in Places
      BY ChildrenAre DEF PlacementSizes, Places
<1>2. Downward(N)
      <2>1. SUFFICES ASSUME NEW k \in N, NEW d \in Placing!Children(k) PROVE d \in N
            BY DEF Downward
      <2>2. CASE k = n
            <3>1. d \in Placing!Subtree(d)
                  BY <1>1, <2>2, SubtreeHolds
            <3>.  QED BY <2>2, <3>1
      <2>3. CASE k # n
            <3>1. PICK c \in Placing!Children(n) : k \in Placing!Subtree(c)
                  BY <2>3
            <3>2. d \in Placing!Subtree(c)
                  BY <1>1, <3>1, SubtreeHolds DEF Downward
            <3>.  QED BY <3>2
      <2>.  QED BY <2>2, <2>3
<1>3. Placing!Subtree(n) \subseteq N
      BY <1>2, SubtreeLeast DEF PlacementSizes
<1>.  QED BY <1>3

LEMMA SubtreeNests ==
    ASSUME PlacementSizes, ThreadTyped, NEW n \in Places, NEW m \in Placing!Subtree(n)
    PROVE  m \in Places /\ Placing!Subtree(m) \subseteq Placing!Subtree(n)
BY SubtreeHolds, SubtreeLeast DEF PlacementSizes

LEMMA ChildBelow ==
    ASSUME PlacementSizes, ThreadTyped, NEW n \in Places, NEW m \in Placing!Subtree(n),
           NEW c \in Placing!Children(m)
    PROVE  c \in Placing!Subtree(n) /\ c \in Places
BY SubtreeHolds DEF Downward

\* A folder's score is the best similarity at or below it.
LEMMA ScoreIs ==
    ASSUME PlacementSizes, ThreadTyped, NEW n \in Places
    PROVE  /\ Placing!Score(n) \in Int
           /\ \E m \in Placing!Subtree(n) : Placing!Sim(m) = Placing!Score(n)
           /\ \A m \in Placing!Subtree(n) : Placing!Sim(m) <= Placing!Score(n)
<1>.  DEFINE N == Placing!Subtree(n)
             S == {Placing!Sim(m) : m \in N}
<1>1. N \subseteq Places /\ n \in N
      BY SubtreeHolds
<1>2. IsFiniteSet(N)
      <2>1. IsFiniteSet(0 .. Last)
            BY FS_Interval DEF PlacementSizes
      <2>.  QED BY <1>1, <2>1, FS_Subset DEF Places
<1>3. \A m \in N : Placing!Sim(m) \in Int
      <2>1. SUFFICES ASSUME NEW m \in N, m # 0 PROVE sim[m] \in Int
            BY DEF Placing!Sim, Placing!Root
      <2>2. m \in 1 .. Last
            BY <1>1, <2>1 DEF Places, PlacementSizes
      <2>.  QED BY <2>2 DEF ThreadTyped, PlacementSizes
<1>.  HIDE DEF N
<1>4. PICK v : v = [m \in N |-> Placing!Sim(m)]
      OBVIOUS
<1>5. PICK m \in N : \A k \in N : v[k] <= v[m]
      <2>1. v \in [N -> Int] /\ N # {}
            BY <1>1, <1>3, <1>4
      <2>.  QED BY <1>2, <2>1, GreatestOf
<1>6. \A b \in S : b <= Placing!Sim(m)
      BY <1>4, <1>5
<1>7. Placing!Sim(m) \in S /\ S \subseteq Int
      BY <1>3
<1>8. Placing!Max(S) \in S /\ \A b \in S : b <= Placing!Max(S)
      BY <1>6, <1>7, MaxIs
<1>9. Placing!Score(n) = Placing!Max(S)
      BY DEF Placing!Score, N
<1>.  QED BY <1>7, <1>8, <1>9 DEF N

\* What is in the way of the softmax's spread.
LowOf(S)   == Placing!Min({Placing!Score(s) : s \in S})
Lead(S, c) == Placing!Max({Weigh(LowOf(S), s) : s \in S \ {c}})
Wide(S)    == Placing!Max({3, Placing!Cardinality(S)})

LEMMA SpreadIs ==
    ASSUME NEW c
    PROVE  LET S == Placing!Children(here) IN
           Placing!SpreadOk(c) =
              (10 * Wide(S) * (Weigh(LowOf(S), c) - Lead(S, c)) > (Wide(S) - 1) * Mass(S, LowOf(S)))
BY DEF Placing!SpreadOk, Wide, Lead, LowOf, Weigh, Mass

LEMMA NoSpread ==
    ASSUME NEW k \in Int, k >= 3, NEW a \in Int, NEW b \in Int, a <= b, NEW m \in Nat
    PROVE  ~(10 * k * (a - b) > (k - 1) * m)
<1>1. (k - 1) * m >= 0
      OBVIOUS
<1>2. 10 * k * (a - b) <= 0
      <2>1. k * (b - a) >= 0
            OBVIOUS
      <2>2. 10 * k * (a - b) = -(10 * (k * (b - a)))
            OBVIOUS
      <2>.  QED BY <2>1, <2>2
<1>3. 10 * k * (a - b) \in Int /\ (k - 1) * m \in Int
      OBVIOUS
<1>.  QED BY <1>1, <1>2, <1>3

\* A child whose spread is wide enough beats its siblings.
LEMMA SpreadBeats ==
    ASSUME PlacementSizes, ThreadTyped, here \in Places, NEW c \in Placing!Children(here),
           Placing!SpreadOk(c), NEW s \in Placing!Children(here) \ {c}
    PROVE  Placing!Score(s) < Placing!Score(c)
<1>.  DEFINE S == Placing!Children(here)
             low == LowOf(S)
<1>1. S \subseteq 1 .. Last /\ S \subseteq Places /\ IsFiniteSet(S)
      <2>1. S \subseteq 1 .. Last
            BY ChildrenAre
      <2>2. IsFiniteSet(1 .. Last)
            BY FS_Interval DEF PlacementSizes
      <2>.  QED BY <2>1, <2>2, FS_Subset DEF PlacementSizes, Places
<1>2. \A x \in S : Placing!Score(x) \in Int
      BY <1>1, ScoreIs
<1>.  HIDE DEF S
<1>3. low \in Int /\ \A x \in S : low <= Placing!Score(x)
      <2>1. PICK v : v = [x \in S |-> Placing!Score(x)]
            OBVIOUS
      <2>2. v \in [S -> Int] /\ S # {}
            BY <1>2, <2>1 DEF S
      <2>3. PICK l \in S : \A x \in S : v[l] <= v[x]
            BY <1>1, <2>2, LeastOf
      <2>.  DEFINE V == {Placing!Score(x) : x \in S}
      <2>4. Placing!Score(l) \in V /\ \A y \in V : Placing!Score(l) <= y
            BY <2>1, <2>3
      <2>5. Placing!Min(V) \in V /\ \A y \in V : Placing!Min(V) <= y
            BY <2>4, MinIs
      <2>.  QED BY <1>2, <2>5 DEF LowOf
<1>.  HIDE DEF low
<1>4. \A x \in S : Placing!Score(x) - low \in Nat /\ Weigh(low, x) \in Nat
      <2>1. SUFFICES ASSUME NEW x \in S
                     PROVE  Placing!Score(x) - low \in Nat /\ Weigh(low, x) \in Nat
            OBVIOUS
      <2>2. Placing!Score(x) - low \in Nat
            BY <1>2, <1>3
      <2>3. 2 ^ (Placing!Score(x) - low) \in Nat
            BY <2>2, PowersGrow
      <2>.  QED BY <2>2, <2>3 DEF Weigh
<1>5. Mass(S, low) \in Nat
      BY <1>1, <1>4, MassCounts
<1>6. Lead(S, c) \in Int /\ Weigh(low, s) <= Lead(S, c)
      <2>.  DEFINE R == S \ {c}
                   V == {Weigh(low, x) : x \in R}
      <2>1. PICK v : v = [x \in R |-> Weigh(low, x)]
            OBVIOUS
      <2>2. v \in [R -> Int] /\ s \in R /\ IsFiniteSet(R)
            BY <1>1, <1>4, <2>1, FS_Subset DEF S
      <2>3. PICK m \in R : \A x \in R : v[x] <= v[m]
            BY <2>2, GreatestOf
      <2>4. Weigh(low, m) \in V /\ \A y \in V : y <= Weigh(low, m)
            BY <2>1, <2>3
      <2>5. V \subseteq Int
            BY <1>4
      <2>6. Placing!Max(V) \in V /\ \A y \in V : y <= Placing!Max(V)
            BY <2>4, <2>5, MaxIs
      <2>7. Lead(S, c) = Placing!Max(V)
            BY DEF Lead, low
      <2>.  QED BY <2>2, <2>5, <2>6, <2>7
<1>7. Wide(S) \in Int /\ Wide(S) >= 3
      <2>1. Placing!Cardinality(S) \in Nat
            BY <1>1, PlacingCount, FS_CardinalityType
      <2>2. PICK z \in {3, Placing!Cardinality(S)} : \A b \in {3, Placing!Cardinality(S)} : b <= z
            BY <2>1
      <2>3. {3, Placing!Cardinality(S)} \subseteq Int
            BY <2>1
      <2>4. /\ Wide(S) \in {3, Placing!Cardinality(S)}
            /\ \A b \in {3, Placing!Cardinality(S)} : b <= Wide(S)
            BY <2>2, <2>3, MaxIs DEF Wide
      <2>.  QED BY <2>1, <2>4
<1>8. 10 * Wide(S) * (Weigh(low, c) - Lead(S, c)) > (Wide(S) - 1) * Mass(S, low)
      BY SpreadIs DEF S, low
<1>9. c \in S /\ s \in S
      BY DEF S
<1>10. ~(Weigh(low, c) <= Lead(S, c))
      <2>1. Weigh(low, c) \in Int
            BY <1>4, <1>9
      <2>.  QED BY <1>5, <1>6, <1>7, <1>8, <2>1, NoSpread
<1>11. SUFFICES ASSUME ~(Placing!Score(s) < Placing!Score(c)) PROVE FALSE
      OBVIOUS
<1>12. Placing!Score(c) - low <= Placing!Score(s) - low
      BY <1>2, <1>3, <1>9, <1>11
<1>13. Weigh(low, c) <= Weigh(low, s)
      BY <1>4, <1>9, <1>12, PowersGrow DEF Weigh
<1>.  QED BY <1>4, <1>6, <1>9, <1>10, <1>13

-----------------------------------------------------------------------------
(* A placement, from the gate to the filed thread.                           *)

Reached  == Placing!Subtree(0)
Phases   == {"gate", "branches", "descent", "decided", "thrown", "filed"}
Results  == [node : {-1} \cup Places,
             source : {"none", "inbox_fallback", "embedding_inbox", "embedding_auto", "llm",
                       "automated_bulk"},
             cause : {"none", "embedding_failed", "quality_gate", "llm_declined", "llm_error"},
             status : {"PENDING", "UNCLASSIFIED", "NEEDS_REVIEW", "SORTED"}]
Matching == {"llm", "embedding_auto", "embedding_inbox"}

\* Nothing the sorter can reach matches better than m.
Best(m) == m \in Reached /\ m # 0 /\ \A k \in Reached : k # 0 => sim[k] <= sim[m]

\* n lies on the line of every best match.
OnLine(n) == \A m \in Reached : Best(m) => m \in Placing!Subtree(n) \/ n \in Placing!Subtree(m)

\* What is decided rests on the gate, and on who may be asked.
Founded(r) ==
    /\ r.source \in Matching => Placing!Score(0) >= ThetaMin
    /\ r.cause = "quality_gate" => Placing!Score(0) < ThetaMin
    /\ automated => r.source # "llm" /\ r.cause \notin {"llm_declined", "llm_error"}
    /\ r.source = "embedding_auto" => r.node = here /\ here # 0

PlaceInv ==
    /\ ThreadTyped /\ phase \in Phases /\ result \in Results
    /\ here \in Reached /\ OnLine(here) /\ Founded(result)
    /\ phase \in {"gate", "branches"} => here = 0
    /\ phase \in {"branches", "descent"} => Placing!Score(0) >= ThetaMin
    /\ phase # "filed" => result.status = "PENDING" /\ result.node \in {-1} \cup Reached
    /\ phase \in {"gate", "branches", "descent", "thrown"} => result.source = "none"
    /\ phase = "filed" =>
          /\ result.status # "PENDING" /\ result.node \in {-1} \cup Reached \cup {catchAll}
          /\ catchAll # -1 => (result.node = catchAll => automated)
                              /\ (automated => result.status = "SORTED")

LEMMA NoResultIs ==
    /\ Placing!NoResult \in Results
    /\ Placing!NoResult = [node |-> -1, source |-> "none", cause |-> "none", status |-> "PENDING"]
BY DEF Placing!NoResult, Placing!None, Results, Places

LEMMA ThreadKeeps ==
    ASSUME UNCHANGED Placing!thread
    PROVE  /\ \A n : Placing!Subtree(n)' = Placing!Subtree(n)
           /\ \A n : Placing!Score(n)' = Placing!Score(n)
           /\ Reached' = Reached /\ ThreadTyped' = ThreadTyped
           /\ \A m : Best(m)' = Best(m)
           /\ sim' = sim /\ automated' = automated /\ catchAll' = catchAll
BY DEF Placing!thread, Placing!Subtree, Placing!Children, Placing!Routable, Placing!Score,
       Placing!Sim, ThreadTyped, Reached, Best

LEMMA ReachedIs ==
    ASSUME PlacementSizes, ThreadTyped
    PROVE  /\ 0 \in Places /\ 0 \in Reached /\ Reached \subseteq Places
           /\ \A m \in Reached : m # 0 => m \in 1 .. Last /\ m # catchAll
           /\ \A m \in Reached : m # catchAll /\ m # -1
           /\ \A m \in Reached : Placing!Subtree(m) \subseteq Reached
<1>1. 0 \in Places
      BY DEF Places, PlacementSizes
<1>2. 0 \in Reached /\ Reached \subseteq Places
      BY <1>1, SubtreeHolds DEF Reached
<1>3. \A m \in Reached : Placing!Subtree(m) \subseteq Reached
      BY <1>1, SubtreeNests DEF Reached
<1>4. ASSUME NEW m \in Reached, m # 0
      PROVE  m \in 1 .. Last /\ m # catchAll
      <2>1. PICK c \in Placing!Children(0) : m \in Placing!Subtree(c)
            BY <1>1, <1>4, SubtreeSplits DEF Reached
      <2>2. m \in 1 .. Last
            BY <1>2, <1>4 DEF Places, PlacementSizes
      <2>.  DEFINE N == Placing!Routable
      <2>3. c \in N /\ Downward(N) /\ c \in Places
            BY <2>1, ChildrenAre DEF Placing!Children, Downward, Places, PlacementSizes
      <2>4. m \in N
            BY <2>1, <2>3, SubtreeLeast DEF PlacementSizes
      <2>.  QED BY <2>2, <2>4 DEF Placing!Routable
<1>5. \A m \in Reached : m # catchAll /\ m # -1
      <2>1. catchAll # 0
            BY DEF ThreadTyped, PlacementSizes
      <2>2. \A m \in Places : m # -1
            BY DEF Places, PlacementSizes
      <2>.  QED BY <1>2, <1>4, <2>1, <2>2
<1>.  QED BY <1>1, <1>2, <1>3, <1>4, <1>5

\* A step that leaves the thread and the place alone and ends with a founded result, or none.
LEMMA EndsFounded ==
    ASSUME PlacementSizes, PlaceInv, phase \in {"gate", "branches", "descent"},
           NEW node \in {-1} \cup Reached,
           NEW source \in {"inbox_fallback", "embedding_inbox", "embedding_auto", "llm"},
           NEW cause \in {"none", "embedding_failed", "quality_gate", "llm_declined", "llm_error"},
           Placing!Ends(node, source, cause),
           Founded([node |-> node, source |-> source, cause |-> cause, status |-> "PENDING"])
    PROVE  PlaceInv'
<1>.  DEFINE r == [node |-> node, source |-> source, cause |-> cause, status |-> "PENDING"]
<1>1. /\ result' = r /\ phase' = "decided" /\ here' = here /\ UNCHANGED Placing!thread
      BY NoResultIs DEF Placing!Ends
<1>2. node \in {-1} \cup Places
      BY ReachedIs DEF PlaceInv
<1>3. r \in Results
      BY <1>2 DEF Results
<1>4. /\ ThreadTyped' /\ Reached' = Reached /\ OnLine(here)' /\ Founded(r)'
      BY <1>1, ThreadKeeps DEF PlaceInv, OnLine, Founded
<1>.  QED BY <1>1, <1>3, <1>4 DEF PlaceInv, Phases, Founded, Results, Places

LEMMA ThrowKeeps ==
    ASSUME PlaceInv, phase \in {"gate", "branches", "descent"}, Placing!Throw
    PROVE  PlaceInv'
<1>1. result' = result /\ phase' = "thrown" /\ here' = here /\ UNCHANGED Placing!thread
      BY DEF Placing!Throw
<1>2. ThreadTyped' /\ Reached' = Reached /\ OnLine(here)' /\ Founded(result)'
      BY <1>1, ThreadKeeps DEF PlaceInv, OnLine, Founded
<1>.  QED BY <1>1, <1>2 DEF PlaceInv, Phases, Results, Places

LEMMA FallbackKeeps ==
    ASSUME PlacementSizes, PlaceInv, phase \in {"gate", "branches", "descent"},
           NEW cause \in {"embedding_failed", "quality_gate", "llm_declined", "llm_error"},
           cause = "quality_gate" => Placing!Score(0) < ThetaMin,
           cause \in {"llm_declined", "llm_error"} => ~automated,
           Placing!Fallback(cause)
    PROVE  PlaceInv'
<1>1. Placing!Ends(-1, "inbox_fallback", cause)
      BY DEF Placing!Fallback, Placing!None
<1>2. Founded([node |-> -1, source |-> "inbox_fallback", cause |-> cause, status |-> "PENDING"])
      BY DEF Founded, Matching
<1>.  QED BY <1>1, <1>2, EndsFounded

LEMMA StopKeeps ==
    ASSUME PlacementSizes, PlaceInv, phase = "descent", Placing!Stop
    PROVE  PlaceInv'
<1>.  DEFINE source == IF here = 0 THEN "embedding_inbox" ELSE "embedding_auto"
<1>1. Placing!Ends(here, source, "none")
      BY DEF Placing!Stop, Placing!Root
<1>2. Founded([node |-> here, source |-> source, cause |-> "none", status |-> "PENDING"])
      BY DEF Founded, Matching, PlaceInv
<1>3. here \in Reached
      BY DEF PlaceInv
<1>.  QED BY <1>1, <1>2, <1>3, EndsFounded

LEMMA NoAnswerKeeps ==
    ASSUME PlacementSizes, PlaceInv, phase \in {"branches", "descent"}, ~automated,
           Placing!NoAnswer
    PROVE  PlaceInv'
BY FallbackKeeps, ThrowKeeps DEF Placing!NoAnswer

\* The model is offered leaves that can be reached.
LEMMA AskKeeps ==
    ASSUME PlacementSizes, PlaceInv, phase \in {"branches", "descent"}, ~automated,
           NEW branches, branches \subseteq Placing!Children(here), Placing!AskForLeaf(branches)
    PROVE  PlaceInv'
<1>1. CASE Placing!NoAnswer
      BY <1>1, NoAnswerKeeps
<1>2. CASE \E f \in UNION {Placing!Leaves(b) : b \in branches} : Placing!Ends(f, "llm", "none")
      <2>1. PICK b \in branches : \E f \in Placing!Leaves(b) : Placing!Ends(f, "llm", "none")
            BY <1>2
      <2>2. PICK f \in Placing!Leaves(b) : Placing!Ends(f, "llm", "none")
            BY <2>1
      <2>3. b \in Reached
            BY ReachedIs, ChildBelow DEF Reached, PlaceInv
      <2>4. f \in Reached
            BY <2>2, <2>3, ReachedIs DEF Placing!Leaves, PlaceInv
      <2>5. Founded([node |-> f, source |-> "llm", cause |-> "none", status |-> "PENDING"])
            BY DEF Founded, Matching, PlaceInv
      <2>.  QED BY <2>2, <2>4, <2>5, EndsFounded
<1>.  QED BY <1>1, <1>2 DEF Placing!AskForLeaf, Placing!Top, Placing!kSubset

\* The best matches below a folder are below the child that is entered: it has no sibling,
\* or scores higher than each of them.
LEMMA DescendKeeps ==
    ASSUME PlacementSizes, PlaceInv, phase = "descent", NEW c \in Placing!Children(here),
           \A s \in Placing!Children(here) \ {c} : Placing!Score(s) < Placing!Score(c),
           Placing!Descend(c)
    PROVE  PlaceInv'
<1>1. here' = c /\ UNCHANGED Placing!thread /\ phase' = phase /\ result' = result
      BY DEF Placing!Descend
<1>2. ThreadTyped /\ here \in Reached /\ here \in Places /\ c \in Reached /\ c \in Places
      BY ReachedIs, ChildBelow DEF PlaceInv, Reached
<1>3. ASSUME NEW m \in Reached, Best(m)
      PROVE  m \in Placing!Subtree(c) \/ c \in Placing!Subtree(m)
      <2>1. m \in Places
            BY <1>2, ReachedIs
      <2>2. CASE here \in Placing!Subtree(m)
            <3>1. c \in Placing!Subtree(m)
                  BY <1>2, <2>1, <2>2, ChildBelow
            <3>.  QED BY <3>1
      <2>3. CASE here \notin Placing!Subtree(m)
            <3>1. m \in Placing!Subtree(here) /\ m # here
                  BY <1>2, <1>3, <2>1, <2>3, SubtreeHolds DEF PlaceInv, OnLine
            <3>2. PICK s \in Placing!Children(here) : m \in Placing!Subtree(s)
                  BY <1>2, <3>1, SubtreeSplits
            <3>3. SUFFICES ASSUME s # c PROVE FALSE
                  BY <3>2
            <3>4. s \in Places /\ Placing!Score(s) < Placing!Score(c)
                  <4>1. s \in 1 .. Last
                        BY <1>2, <3>2, ChildrenAre
                  <4>.  QED BY <3>2, <3>3, <4>1 DEF Places, PlacementSizes
            <3>5. PICK k \in Placing!Subtree(c) : Placing!Sim(k) = Placing!Score(c)
                  BY <1>2, ScoreIs
            <3>6. Placing!Sim(m) <= Placing!Score(s)
                  BY <1>2, <3>2, <3>4, ScoreIs
            <3>7. /\ Placing!Score(s) \in Int /\ Placing!Score(c) \in Int
                  BY <1>2, <3>4, ScoreIs
            <3>8. k \in Reached /\ k # 0
                  <4>1. k \in Reached
                        BY <1>2, <3>5, ReachedIs
                  <4>2. c > 0 /\ c \in Int
                        BY <1>2, ChildrenAre DEF PlacementSizes
                  <4>.  DEFINE N == c .. Last
                  <4>3. c \in N /\ Downward(N)
                        <5>1. c \in 1 .. Last
                              BY <1>2, ChildrenAre
                        <5>2. ASSUME NEW x \in N, NEW y \in Placing!Children(x) PROVE y \in N
                              <6>1. x < y /\ y \in 1 .. Last
                                    BY <1>2, <5>2, ChildrenAre
                              <6>.  QED BY <5>1, <6>1 DEF PlacementSizes
                        <5>3. c \in N
                              BY <5>1 DEF PlacementSizes
                        <5>4. Downward(N)
                              BY <5>2 DEF Downward
                        <5>.  QED BY <5>3, <5>4
                  <4>4. k \in N
                        BY <3>5, <4>3, SubtreeLeast DEF PlacementSizes
                  <4>.  QED BY <4>1, <4>2, <4>4
            <3>9. sim[k] <= sim[m] /\ sim[k] = Placing!Sim(k) /\ sim[m] = Placing!Sim(m)
                  BY <1>3, <3>8 DEF Best, Placing!Sim, Placing!Root
            <3>10. sim[m] \in Int /\ sim[k] \in Int
                  BY <1>2, <1>3, <3>8, ReachedIs DEF Best, ThreadTyped, PlacementSizes
            <3>.  QED BY <3>4, <3>5, <3>6, <3>7, <3>9, <3>10
      <2>.  QED BY <2>2, <2>3
<1>4. OnLine(c)' /\ ThreadTyped' /\ Reached' = Reached
      BY <1>1, <1>2, <1>3, ThreadKeeps DEF OnLine
<1>5. Founded(result)'
      BY <1>1, ThreadKeeps DEF PlaceInv, Founded, Matching
<1>.  QED BY <1>1, <1>2, <1>4, <1>5, ThreadKeeps DEF PlaceInv

LEMMA PlacementBegins ==
    ASSUME PlacementSizes, Placing!Init
    PROVE  PlaceInv
<1>1. ThreadTyped
      BY DEF Placing!Init, ThreadTyped, Placing!Folders, Placing!Root, Placing!None, Places,
             PlacementSizes
<1>2. /\ result = Placing!NoResult /\ phase = "gate" /\ here = 0
      BY DEF Placing!Init, Placing!Root
<1>3. 0 \in Reached /\ \A m \in Reached : m \in Placing!Subtree(0)
      BY <1>1, ReachedIs DEF Reached
<1>.  QED BY <1>1, <1>2, <1>3, NoResultIs DEF PlaceInv, OnLine, Founded, Matching, Phases

\* Whether a thread is passed on to the comparison of branches, or to the descent.
LEMMA PassKeeps ==
    ASSUME PlaceInv, phase \in {"gate", "branches"}, NEW p \in {"branches", "descent"},
           phase' = p, UNCHANGED <<Placing!thread, here, result>>,
           Placing!Score(0) >= ThetaMin
    PROVE  PlaceInv'
<1>1. here' = here /\ result' = result /\ UNCHANGED Placing!thread
      OBVIOUS
<1>2. here = 0
      BY DEF PlaceInv
<1>3. ThreadTyped' /\ Reached' = Reached /\ OnLine(here)' /\ Founded(result)'
      BY <1>1, ThreadKeeps DEF PlaceInv, OnLine, Founded
<1>.  QED BY <1>1, <1>2, <1>3, ThreadKeeps DEF PlaceInv, Phases, Results, Places

LEMMA FileKeeps ==
    ASSUME PlacementSizes, PlaceInv, Placing!File
    PROVE  PlaceInv'
<1>.  DEFINE bulk == automated /\ catchAll # -1 /\ result.source # "embedding_auto"
             node == IF bulk THEN catchAll ELSE result.node
             source == IF bulk THEN "automated_bulk" ELSE result.source
             status == IF node = 0 THEN "UNCLASSIFIED"
                       ELSE IF node = -1 THEN "NEEDS_REVIEW" ELSE "SORTED"
             r == [node |-> node, source |-> source, cause |-> result.cause, status |-> status]
<1>1. phase = "decided" /\ phase' = "filed" /\ here' = here /\ UNCHANGED Placing!thread
      BY DEF Placing!File
<1>2. result \in Results
      BY DEF PlaceInv
<1>3. result' = r
      BY <1>2 DEF Placing!File, Placing!Root, Placing!None, Results
<1>4. ThreadTyped' /\ Reached' = Reached /\ OnLine(here)' /\ here' \in Reached
      BY <1>1, ThreadKeeps DEF PlaceInv, OnLine
<1>5. /\ result.node \in {-1} \cup Reached /\ catchAll \in {-1} \cup 1 .. Last
      /\ Reached \subseteq Places /\ \A m \in Reached : m # catchAll /\ m # -1
      BY <1>1, ReachedIs DEF PlaceInv, ThreadTyped
<1>6. r \in Results
      BY <1>2, <1>5 DEF Results, Places, PlacementSizes
<1>7. Founded(r)
      BY <1>1 DEF PlaceInv, Founded, Matching
<1>8. /\ result'.source \in Matching => Placing!Score(0) >= ThetaMin
      /\ result'.cause = "quality_gate" => Placing!Score(0) < ThetaMin
      /\ automated => result'.source # "llm" /\ result'.cause \notin {"llm_declined", "llm_error"}
      /\ result'.source = "embedding_auto" => result'.node = here /\ here # 0
      BY <1>3, <1>7 DEF Founded
<1>9. status # "PENDING" /\ node \in {-1} \cup Reached \cup {catchAll}
      BY <1>5
<1>10. ASSUME catchAll # -1
       PROVE  (node = catchAll => automated) /\ (automated => status = "SORTED")
       <2>1. catchAll # 0 /\ catchAll \in Places
             BY <1>5, <1>10 DEF Places, PlacementSizes
       <2>2. node = catchAll => automated
             BY <1>5, <1>10
       <2>3. ASSUME automated PROVE status = "SORTED"
             <3>1. CASE result.source = "embedding_auto"
                   <4>1. node = here /\ here # 0 /\ here # -1
                         BY <1>5, <3>1 DEF PlaceInv, Founded
                   <4>.  QED BY <4>1
             <3>2. CASE result.source # "embedding_auto"
                   BY <1>10, <2>1, <2>3, <3>2
             <3>.  QED BY <3>1, <3>2
       <2>.  QED BY <2>2, <2>3
<1>11. catchAll' = catchAll /\ automated' = automated
       BY <1>1, ThreadKeeps
<1>.  HIDE DEF node, source, status
<1>12. /\ result'.node = node /\ result'.status = status
       BY <1>3
<1>13. result' \in Results' /\ Founded(result)'
       <2>1. result' \in Results /\ Results' = Results
             BY <1>3, <1>6 DEF Results, Places
       <2>2. Placing!Score(0)' = Placing!Score(0)
             BY <1>1, ThreadKeeps
       <2>3. Founded(result)'
             BY <1>1, <1>8, <1>11, <2>2 DEF Founded, Matching
       <2>.  QED BY <2>1, <2>3
<1>.  QED BY <1>1, <1>4, <1>9, <1>10, <1>11, <1>12, <1>13 DEF PlaceInv, Phases

LEMMA PlacementStep ==
    ASSUME PlacementSizes, PlaceInv, [Placing!Next]_Placing!vars
    PROVE  PlaceInv'
<1>1. CASE UNCHANGED Placing!vars
      <2>1. /\ UNCHANGED Placing!thread
            /\ phase' = phase /\ here' = here /\ result' = result
            BY <1>1 DEF Placing!vars, Placing!thread
      <2>2. OnLine(here)' /\ Founded(result)'
            BY <2>1, ThreadKeeps DEF PlaceInv, OnLine, Founded
      <2>.  QED BY <2>1, <2>2, ThreadKeeps DEF PlaceInv, Results, Places
<1>2. CASE Placing!EmbedFails
      BY <1>2, ThrowKeeps, FallbackKeeps DEF Placing!EmbedFails
<1>3. CASE Placing!Gate
      <2>1. Placing!Score(0) \in Int
            BY ScoreIs, ReachedIs DEF PlaceInv
      <2>2. CASE Placing!Score(0) < ThetaMin
            BY <1>3, <2>2, FallbackKeeps DEF Placing!Gate, Placing!Root
      <2>3. CASE ~(Placing!Score(0) < ThetaMin)
            <3>1. Placing!Score(0) >= ThetaMin
                  BY <2>1, <2>3 DEF PlacementSizes
            <3>.  QED BY <1>3, <2>3, <3>1, PassKeeps DEF Placing!Gate, Placing!Root
      <2>.  QED BY <2>2, <2>3
<1>4. CASE Placing!CompareBranches
      <2>1. phase = "branches" /\ here = 0 /\ Placing!Score(0) >= ThetaMin
            BY <1>4 DEF Placing!CompareBranches, PlaceInv
      <2>2. CASE Placing!CrossBranchAmbiguous /\ ~automated
            <3>1. PICK branches \in Placing!Top(Placing!Children(0), Placing!Score) :
                     Placing!AskForLeaf(branches)
                  BY <1>4, <2>2 DEF Placing!CompareBranches, Placing!Root
            <3>2. branches \subseteq Placing!Children(0)
                  BY <3>1 DEF Placing!Top, Placing!kSubset
            <3>.  QED BY <2>1, <2>2, <3>1, <3>2, AskKeeps
      <2>3. CASE ~(Placing!CrossBranchAmbiguous /\ ~automated)
            <3>1. phase' = "descent" /\ UNCHANGED <<Placing!thread, here, result>>
                  BY <1>4, <2>3 DEF Placing!CompareBranches
            <3>.  QED BY <2>1, <3>1, PassKeeps
      <2>.  QED BY <2>2, <2>3
<1>5. CASE Placing!StopAtLeaf
      BY <1>5, StopKeeps DEF Placing!StopAtLeaf
<1>6. CASE Placing!EnterSoleChild
      <2>1. PICK c \in Placing!Children(here) :
               /\ phase = "descent" /\ Placing!Children(here) = {c}
               /\ \/ Placing!Descend(c) \/ Placing!Stop
                  \/ ~automated /\ Placing!NoAnswer
            BY <1>6 DEF Placing!EnterSoleChild
      <2>2. \A s \in Placing!Children(here) \ {c} : Placing!Score(s) < Placing!Score(c)
            BY <2>1
      <2>.  QED BY <2>1, <2>2, DescendKeeps, StopKeeps, NoAnswerKeeps
<1>7. CASE Placing!EnterBestChild
      <2>1. PICK c \in Placing!Children(here) :
               /\ phase = "descent" /\ Placing!SpreadOk(c)
               /\ \/ Placing!Descend(c)
                  \/ ~automated /\ Placing!AskForLeaf({c} \cup Placing!MidAmbiguous(c))
            BY <1>7 DEF Placing!EnterBestChild
      <2>2. here \in Places /\ ThreadTyped
            BY ReachedIs DEF PlaceInv
      <2>3. \A s \in Placing!Children(here) \ {c} : Placing!Score(s) < Placing!Score(c)
            BY <2>1, <2>2, SpreadBeats
      <2>4. {c} \cup Placing!MidAmbiguous(c) \subseteq Placing!Children(here)
            BY DEF Placing!MidAmbiguous
      <2>.  QED BY <2>1, <2>3, <2>4, DescendKeeps, AskKeeps
<1>8. CASE Placing!StopUndecided
      BY <1>8, StopKeeps DEF Placing!StopUndecided
<1>9. CASE Placing!File
      BY <1>9, FileKeeps
<1>.  QED BY <1>1, <1>2, <1>3, <1>4, <1>5, <1>6, <1>7, <1>8, <1>9 DEF Placing!Next

\* Whatever the tree and the similarities: a thread that embeddings place is placed on the
\* line of its best match, a thread is sent away for want of a match only if no folder that
\* can be reached matches, and bulk mail asks nobody (sorter.ts, classify-thread.ts).
THEOREM EvidencePlaces ==
    PlacementSizes =>
        (Placing!Spec => [](/\ Placing!PlacementTypeOK /\ Placing!BestMatchOnTheWay
                            /\ Placing!GateOfReachable /\ Placing!BulkAsksNobody))
<1>.  SUFFICES ASSUME PlacementSizes
               PROVE  Placing!Spec => [](/\ Placing!PlacementTypeOK /\ Placing!BestMatchOnTheWay
                                         /\ Placing!GateOfReachable /\ Placing!BulkAsksNobody)
      OBVIOUS
<1>1. ASSUME PlaceInv
      PROVE  /\ Placing!PlacementTypeOK /\ Placing!BestMatchOnTheWay
             /\ Placing!GateOfReachable /\ Placing!BulkAsksNobody
      <2>1. Placing!Reachable = Reached \ {0}
            BY DEF Placing!Reachable, Placing!Root, Reached
      <2>2. ThreadTyped /\ here \in Reached /\ Founded(result) /\ OnLine(here)
            BY <1>1 DEF PlaceInv
      <2>3. /\ \A m \in Reached : m # catchAll /\ m # -1 /\ (m # 0 => sim[m] \in Int)
            /\ 0 \in Reached /\ 0 \in Places
            BY <2>2, ReachedIs DEF ThreadTyped, PlacementSizes
      <2>4. Placing!PlacementTypeOK
            BY <1>1, <2>1, <2>3 DEF PlaceInv, Placing!PlacementTypeOK, Placing!Root, Placing!None
      <2>5. Placing!BestMatchOnTheWay
            <3>.  DEFINE V == {sim[f] : f \in Placing!Reachable}
            <3>1. SUFFICES ASSUME phase = "filed", result.source = "embedding_auto",
                                  NEW m \in Placing!Reachable, sim[m] = Placing!Max(V)
                           PROVE  \/ m \in Placing!Subtree(result.node)
                                  \/ result.node \in Placing!Subtree(m)
                  BY DEF Placing!BestMatchOnTheWay
            <3>2. PICK v : v = [f \in Placing!Reachable |-> sim[f]]
                  OBVIOUS
            <3>3. v \in [Placing!Reachable -> Int] /\ IsFiniteSet(Placing!Reachable)
                  <4>1. IsFiniteSet(0 .. Last)
                        BY FS_Interval DEF PlacementSizes
                  <4>2. Placing!Reachable \in SUBSET (0 .. Last)
                        BY <2>1, <2>2, ReachedIs DEF Places
                  <4>3. \A f \in Placing!Reachable : sim[f] \in Int
                        BY <2>1, <2>3
                  <4>.  QED BY <3>2, <4>1, <4>2, <4>3, FS_Subset
            <3>4. PICK t \in Placing!Reachable : \A k \in Placing!Reachable : v[k] <= v[t]
                  BY <3>3, GreatestOf
            <3>5. sim[t] \in V /\ V \subseteq Int /\ \A b \in V : b <= sim[t]
                  BY <2>1, <2>3, <3>2, <3>4
            <3>6. \A b \in V : b <= Placing!Max(V)
                  BY <3>5, MaxIs
            <3>7. Best(m)
                  BY <2>1, <3>1, <3>6 DEF Best
            <3>8. result.node = here
                  BY <2>2, <3>1 DEF Founded
            <3>.  QED BY <2>1, <2>2, <3>7, <3>8 DEF OnLine
      <2>6. Placing!GateOfReachable
            <3>.  DEFINE matches == \E f \in Placing!Reachable : sim[f] >= ThetaMin
            <3>1. /\ Placing!Score(0) \in Int
                  /\ \E m \in Reached : Placing!Sim(m) = Placing!Score(0)
                  /\ \A m \in Reached : Placing!Sim(m) <= Placing!Score(0)
                  BY <2>2, <2>3, ScoreIs DEF Reached
            <3>2. \A m \in Reached : Placing!Sim(m) = IF m = 0 THEN 0 ELSE sim[m]
                  BY DEF Placing!Sim, Placing!Root
            <3>3. ASSUME Placing!Score(0) >= ThetaMin PROVE matches
                  <4>1. PICK m \in Reached : Placing!Sim(m) = Placing!Score(0)
                        BY <3>1
                  <4>2. m # 0
                        BY <3>1, <3>2, <3>3, <4>1 DEF PlacementSizes
                  <4>.  QED BY <2>1, <3>2, <3>3, <4>1, <4>2
            <3>4. ASSUME Placing!Score(0) < ThetaMin, matches PROVE FALSE
                  <4>1. PICK f \in Placing!Reachable : sim[f] >= ThetaMin
                        BY <3>4
                  <4>2. sim[f] <= Placing!Score(0) /\ sim[f] \in Int
                        BY <2>1, <2>3, <3>1, <3>2, <4>1
                  <4>.  QED BY <3>1, <3>4, <4>1, <4>2 DEF PlacementSizes
            <3>.  QED BY <2>2, <3>3, <3>4 DEF Founded, Matching, Placing!GateOfReachable
      <2>7. Placing!BulkAsksNobody
            BY <1>1, <2>2, <2>3 DEF PlaceInv, Founded, Placing!BulkAsksNobody, Placing!None
      <2>.  QED BY <2>4, <2>5, <2>6, <2>7
<1>.  QED BY <1>1, PlacementBegins, PlacementStep, PTL DEF Placing!Spec
=============================================================================
