------------------------------- MODULE Drafts -------------------------------
(***************************************************************************)
(* Draft replies (drafts.ts): a request claims a GENERATING row under the  *)
(* lock of the workspace, asks the model, proposes the draft, charges the  *)
(* inbox and supersedes the draft it replaces.  A row whose request died   *)
(* stays GENERATING until it is stale.                                     *)
(***************************************************************************)
EXTENDS Integers, FiniteSets, Sequences

CONSTANTS
    Threads,    \* threads with messages
    Requests,   \* requests that may be under way at once
    Limit,      \* drafts a month for the inbox
    MaxDrafts,  \* bound: Draft rows
    MaxFaults   \* bound: failed generations and writes, dead requests

VARIABLES
    draft,    \* the Draft rows in the order they were created
    req,      \* req[r]: the request r between its steps
    toggle,   \* the PATCH under way: its row and the status it writes
    used,     \* the inbox's DRAFT meter of the month
    made,     \* history: rows whose draft was generated
    toggled,  \* history: a user marked a draft as sent, or as unsent
    overran,  \* history: a request outlived its row's freshness
    faults

vars == <<draft, req, toggle, used, made, toggled, overran, faults>>

NoReq == [at |-> "idle", thread |-> CHOOSE t \in Threads : TRUE, force |-> FALSE,
          stale |-> {}, row |-> 0, old |-> 0]
NoToggle == [row |-> 0, to |-> "SENT"]

Init ==
    /\ draft = <<>>
    /\ req = [r \in Requests |-> NoReq]
    /\ toggle = NoToggle
    /\ used = 0 /\ made = {} /\ toggled = FALSE /\ overran = FALSE /\ faults = 0

Fault == faults < MaxFaults /\ faults' = faults + 1
Ends(r) == req' = [req EXCEPT ![r] = NoReq]
Rows == 1 .. Len(draft)
Becomes(d, status) == draft' = [draft EXCEPT ![d].status = status]

\* Rows of the thread that are proposed, or generated by a request that is not taken for
\* dead: stale is what was too old when the request began.
Existing(t, stale) ==
    {d \in Rows : /\ draft[d].thread = t
                  /\ \/ draft[d].status = "PROPOSED"
                     \/ draft[d].status = "GENERATING" /\ d \notin stale}

\* The newest of them, or none.
Newest(t, stale) ==
    IF Existing(t, stale) = {} THEN 0
    ELSE CHOOSE d \in Existing(t, stale) : \A e \in Existing(t, stale) : e <= d

StatusOf(d) == IF d = 0 THEN "none" ELSE draft[d].status

\* What is there already is answered: a generation, or a proposal unless force replaces it.
Answered(d, force) ==
    \/ StatusOf(d) = "GENERATING"
    \/ StatusOf(d) = "PROPOSED" /\ ~force

-----------------------------------------------------------------------------
\* The request reads the thread, fixes the time before which a row is stale, and looks
\* for a draft without the lock.
Ask(r, t, force) ==
    LET stale == {d \in Rows : draft[d].stale} IN
    /\ req[r].at = "idle"
    /\ ~Answered(Newest(t, stale), force)
    /\ req' = [req EXCEPT ![r] = [NoReq EXCEPT !.at = "claim", !.thread = t, !.force = force,
                                               !.stale = stale]]
    /\ UNCHANGED <<draft, toggle, used, made, toggled, overran, faults>>

ClaimUnchecked(r) ==   \* mutant: the draft is not looked for again under the lock
    /\ req[r].at = "claim"
    /\ IF used >= Limit
       THEN Ends(r) /\ UNCHANGED draft
       ELSE /\ Len(draft) < MaxDrafts
            /\ draft' = Append(draft, [thread |-> req[r].thread, status |-> "GENERATING",
                                       stale |-> FALSE])
            /\ req' = [req EXCEPT ![r].at = "generate", ![r].row = Len(draft) + 1,
                                  ![r].old = Newest(req[r].thread, req[r].stale)]
    /\ UNCHANGED <<toggle, used, made, toggled, overran, faults>>

\* The transaction under the lock: look again, ask the meter, create the placeholder.
Claim(r) ==
    LET d == Newest(req[r].thread, req[r].stale) IN
    /\ req[r].at = "claim"
    /\ IF Answered(d, req[r].force) \/ used >= Limit
       THEN Ends(r) /\ UNCHANGED draft
       ELSE /\ Len(draft) < MaxDrafts
            /\ draft' = Append(draft, [thread |-> req[r].thread, status |-> "GENERATING",
                                       stale |-> FALSE])
            /\ req' = [req EXCEPT ![r].at = "generate", ![r].row = Len(draft) + 1,
                                  ![r].old = d]
    /\ UNCHANGED <<toggle, used, made, toggled, overran, faults>>

\* The model answers, and the placeholder becomes the proposal.
Propose(r) ==
    /\ req[r].at = "generate"
    /\ Becomes(req[r].row, "PROPOSED")
    /\ made' = made \cup {req[r].row}
    /\ req' = [req EXCEPT ![r].at = "charge"]
    /\ UNCHANGED <<toggle, used, toggled, overran, faults>>

\* It throws, or its answer is invalid.
GenerationFails(r) ==
    /\ req[r].at = "generate"
    /\ Fault
    /\ Becomes(req[r].row, "FAILED")
    /\ Ends(r)
    /\ UNCHANGED <<toggle, used, made, toggled, overran>>

RecordUsage(r) ==
    /\ req[r].at = "charge"
    /\ used' = used + 1
    /\ IF req[r].old = 0 THEN Ends(r) ELSE req' = [req EXCEPT ![r].at = "supersede"]
    /\ UNCHANGED <<draft, toggle, made, toggled, overran, faults>>

\* Nobody waits for this write, and its failure is swallowed.
Supersede(r) ==
    /\ req[r].at = "supersede"
    /\ IF StatusOf(req[r].old) = "PROPOSED" THEN Becomes(req[r].old, "FAILED")
                                            ELSE UNCHANGED draft
    /\ Ends(r)
    /\ UNCHANGED <<toggle, used, made, toggled, overran, faults>>

\* The process dies, or a write throws.
Dies(r) ==
    /\ req[r].at \in {"generate", "charge", "supersede"}
    /\ Fault
    /\ Ends(r)
    /\ UNCHANGED <<draft, toggle, used, made, toggled, overran>>

\* A GENERATING row turns five minutes old.
GoesStale(d) ==
    /\ StatusOf(d) = "GENERATING" /\ ~draft[d].stale
    /\ draft' = [draft EXCEPT ![d].stale = TRUE]
    /\ overran' = (overran \/ \E r \in Requests : req[r].row = d)
    /\ UNCHANGED <<req, toggle, used, made, toggled, faults>>

\* PATCH: the draft is read, then marked as sent, or as proposed again.
ReadDraft(d, to) ==
    /\ toggle = NoToggle
    /\ StatusOf(d) \in {"PROPOSED", "SENT"}
    /\ toggle' = [row |-> d, to |-> to]
    /\ UNCHANGED <<draft, req, used, made, toggled, overran, faults>>

MarkDraft ==
    /\ toggle.row # 0
    /\ Becomes(toggle.row, toggle.to)
    /\ toggle' = NoToggle
    /\ toggled' = TRUE
    /\ UNCHANGED <<req, used, made, overran, faults>>

Next ==
    \/ \E r \in Requests :
          \/ \E t \in Threads, force \in BOOLEAN : Ask(r, t, force)
          \/ Claim(r) \/ Propose(r) \/ GenerationFails(r) \/ RecordUsage(r) \/ Supersede(r)
          \/ Dies(r)
    \/ \E d \in Rows : GoesStale(d) \/ \E to \in {"PROPOSED", "SENT"} : ReadDraft(d, to)
    \/ MarkDraft

Spec == Init /\ [][Next]_vars

-----------------------------------------------------------------------------
DraftsTypeOK ==
    /\ \A d \in Rows : draft[d].status \in {"GENERATING", "PROPOSED", "SENT", "FAILED"}
    /\ \A r \in Requests : req[r].at \in {"generate", "charge", "supersede"} => req[r].row \in Rows
    /\ toggle.row \in 0 .. Len(draft) /\ used \in Nat

\* Requests for one thread do not generate beside each other, unless one of them is taken
\* for dead (drafts.ts, the re-check under the lock).
OneGenerationPerThread ==
    \A d, e \in Rows :
        /\ draft[d].status = "GENERATING" /\ ~draft[d].stale
        /\ draft[e].status = "GENERATING" /\ ~draft[e].stale
        /\ draft[d].thread = draft[e].thread
        => d = e

\* However often a draft is generated again, one proposal is left in the end, unless a
\* user marked one, a step failed or a request outlived its row (drafts.ts, supersededId).
OneProposalAtRest ==
    ~toggled /\ ~overran /\ faults = 0 /\ (\A r \in Requests : req[r].at = "idle") =>
        \A d, e \in Rows :
            /\ draft[d].status = "PROPOSED" /\ draft[e].status = "PROPOSED"
            /\ draft[d].thread = draft[e].thread
            => d = e

\* The meter counts drafts that were generated; only a request that dies before its
\* charge leaves one out (drafts.ts, "a failed LLM call never burns allowance").
ChargedForDrafts ==
    /\ used <= Cardinality(made)
    /\ Cardinality(made) <= used + faults + Cardinality({r \in Requests : req[r].at = "charge"})

\* The gate counts no draft that is still generated, so that each request under way may
\* pass the limit, and no more than those (drafts.ts, quota check).
DraftOvershootBounded == used <= Limit + Cardinality(Requests) - 1
=============================================================================
