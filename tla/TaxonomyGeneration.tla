------------------------ MODULE TaxonomyGeneration ------------------------
(***************************************************************************)
(* A taxonomy is proposed from the inbox: the request that admits a        *)
(* generation (taxonomy-generate.ts), the job that checks again, asks the  *)
(* model and saves a proposal with its charge (generate-taxonomy.ts), and  *)
(* the limiter both of them ask (taxonomy-generation.ts).  The workspaces  *)
(* share one inbox, and so one meter.                                      *)
(***************************************************************************)
EXTENDS Integers, FiniteSets

CONSTANTS
    Workspaces,  \* workspaces connected to the inbox
    Requests,    \* requests that may be under way at once
    Cap,         \* generations a month for the inbox
    MaxStalls,   \* times BullMQ requeues a stalled job
    MaxMail,     \* bound: size of an inbox, in units of what a new generation takes
    MaxJobs,     \* bound: jobs of a workspace
    MaxFaults    \* bound: failed calls and dead processes

VARIABLES
    eligible,  \* eligible[w]: eligible threads of the workspace
    row,       \* row[w]: its TaxonomyGenerationState, of which updatedAt is an age
    post,      \* post[p]: the request p between its steps
    job,       \* job[w]: the workspace's job; its deduplication id allows for one
    failing,   \* workspaces whose terminal failure is being written
    used,      \* the inbox's TAXONOMY_GEN meter of the month
    tokens,    \* claimed idempotency tokens, each the id of a job
    saved,     \* history: jobs that saved a proposal
    faults

vars == <<eligible, row, post, job, failing, used, tokens, saved, faults>>

\* Ages: below the TTL of RUNNING, below the cooldown, beyond it.
Fresh == 0
Cooling == 1
Old == 2
Older(age) == IF age < Old THEN age + 1 ELSE Old

NoRow == [status |-> "IDLE", proposal |-> FALSE, outcome |-> "none", base |-> 0, age |-> Old]
NoPost == [at |-> "idle", ws |-> CHOOSE w \in Workspaces : TRUE, had |-> FALSE]
NoJob == [at |-> "idle", id |-> 0, stalls |-> 0, state |-> NoRow, count |-> 0]

Init ==
    /\ eligible \in [Workspaces -> 1 .. MaxMail]
    /\ row = [w \in Workspaces |-> NoRow]
    /\ post = [p \in Requests |-> NoPost]
    /\ job = [w \in Workspaces |-> NoJob]
    /\ failing = {} /\ used = 0 /\ tokens = {} /\ saved = {}
    /\ faults = 0

Fault == faults < MaxFaults /\ faults' = faults + 1

-----------------------------------------------------------------------------
(* The limiter: computeGenerationEligibility.                              *)

\* Its answer for a state that was read, the eligible threads and the meter.
Eligibility(state, count) ==
    CASE count = 0 -> "INBOX_TOO_SMALL"
      [] count > 0 /\ used >= Cap -> "MONTHLY_CAP"
      [] /\ count > 0 /\ used < Cap
         /\ state.outcome \in {"FAILED", "INSUFFICIENT"} /\ state.age < Old -> "COOLDOWN"
      [] /\ count > 0 /\ used < Cap
         /\ ~(state.outcome \in {"FAILED", "INSUFFICIENT"} /\ state.age < Old)
         /\ state.base > 0 /\ count <= state.base -> "NO_NEW_MAIL"
      [] OTHER -> "OK"

IsRunningFresh(state) == state.status = "RUNNING" /\ state.age = Fresh

\* A write of the row, which sets its updatedAt.
Write(w, new) == row' = [row EXCEPT ![w] = [new EXCEPT !.age = Fresh]]
WriteStatus(w, status) == Write(w, [row[w] EXCEPT !.status = status])

\* The status a skipped run goes back to, by the state it read before.
Prior(hadProposal) == IF hadProposal THEN "READY" ELSE "IDLE"

-----------------------------------------------------------------------------
(* The inbox and time.                                                     *)

\* Mail is imported, or leaves the eligible: trashed, blacklisted, hidden by settings.
InboxChanges(w) ==
    /\ \/ eligible[w] < MaxMail /\ eligible' = [eligible EXCEPT ![w] = @ + 1]
       \/ eligible[w] > 0 /\ eligible' = [eligible EXCEPT ![w] = @ - 1]
    /\ UNCHANGED <<row, post, job, failing, used, tokens, saved, faults>>

\* Time passes for the rows and for what was read of them.
Later ==
    /\ row' = [w \in Workspaces |-> [row[w] EXCEPT !.age = Older(@)]]
    /\ job' = [w \in Workspaces |-> [job[w] EXCEPT !.state.age = Older(@)]]
    /\ UNCHANGED <<eligible, post, failing, used, tokens, saved, faults>>

\* An import consumes the proposal, a reset deletes the row.
ConsumeProposal(w) ==
    /\ row[w].status = "READY"
    /\ Write(w, [row[w] EXCEPT !.status = "IDLE", !.proposal = FALSE])
    /\ UNCHANGED <<eligible, post, job, failing, used, tokens, saved, faults>>

Reset(w) ==
    /\ row' = [row EXCEPT ![w] = NoRow]
    /\ eligible' = [eligible EXCEPT ![w] = 0]
    /\ UNCHANGED <<post, job, failing, used, tokens, saved, faults>>

-----------------------------------------------------------------------------
(* POST taxonomy-generate.                                                 *)

\* What is under way, or denied by the limiter, is answered without a write.
Admit(p, w) ==
    /\ post[p].at = "idle"
    /\ ~IsRunningFresh(row[w]) /\ Eligibility(row[w], eligible[w]) = "OK"
    /\ post' = [post EXCEPT ![p] = [at |-> "mark", ws |-> w, had |-> row[w].proposal]]
    /\ UNCHANGED <<eligible, row, job, failing, used, tokens, saved, faults>>

MarkRunning(p) ==
    /\ post[p].at = "mark"
    /\ WriteStatus(post[p].ws, "RUNNING")
    /\ post' = [post EXCEPT ![p].at = "add"]
    /\ UNCHANGED <<eligible, job, failing, used, tokens, saved, faults>>

\* A job that is waiting or running absorbs the new one.
AddJob(p) ==
    LET w == post[p].ws IN
    /\ post[p].at = "add"
    /\ post' = [post EXCEPT ![p] = NoPost]
    /\ IF job[w].at = "idle"
       THEN /\ job[w].id < MaxJobs
            /\ job' = [job EXCEPT ![w] = [NoJob EXCEPT !.at = "queued", !.id = job[w].id + 1]]
       ELSE UNCHANGED job
    /\ UNCHANGED <<eligible, row, failing, used, tokens, saved, faults>>

AddFails(p) ==
    /\ post[p].at = "add"
    /\ Fault
    /\ WriteStatus(post[p].ws, Prior(post[p].had))
    /\ post' = [post EXCEPT ![p] = NoPost]
    /\ UNCHANGED <<eligible, job, failing, used, tokens, saved>>

-----------------------------------------------------------------------------
(* The job.                                                                *)

Goes(w, at) == job' = [job EXCEPT ![w].at = at]
Ends(w) == job' = [job EXCEPT ![w] = [NoJob EXCEPT !.id = job[w].id]]

ReadState(w) ==
    /\ job[w].at = "queued"
    /\ job' = [job EXCEPT ![w].at = "mark", ![w].state = row[w]]
    /\ UNCHANGED <<eligible, row, post, failing, used, tokens, saved, faults>>

JobMarksRunning(w) ==
    /\ job[w].at = "mark"
    /\ WriteStatus(w, "RUNNING")
    /\ Goes(w, "check")
    /\ UNCHANGED <<eligible, post, failing, used, tokens, saved, faults>>

\* The profile is built and the limiter is asked again, about the state read at first.
Check(w) ==
    LET answer == Eligibility(job[w].state, eligible[w]) IN
    /\ job[w].at = "check"
    /\ \/ /\ answer = "OK"
          /\ job' = [job EXCEPT ![w].at = "generate", ![w].count = eligible[w]]
          /\ UNCHANGED row
       \/ /\ answer = "INBOX_TOO_SMALL"
          /\ Write(w, [row[w] EXCEPT !.status = "INSUFFICIENT", !.outcome = "INSUFFICIENT"])
          /\ Ends(w)
       \/ /\ answer \notin {"OK", "INBOX_TOO_SMALL"}
          /\ WriteStatus(w, Prior(job[w].state.proposal))
          /\ Ends(w)
    /\ UNCHANGED <<eligible, post, failing, used, tokens, saved, faults>>

\* The model answers; an unusable answer falls back to the localized template.
Generate(w) ==
    /\ job[w].at = "generate"
    /\ Goes(w, "commit")
    /\ UNCHANGED <<eligible, row, post, failing, used, tokens, saved, faults>>

CommitUntokened(w) ==   \* mutant: every run that saves a proposal charges
    /\ job[w].at = "commit"
    /\ used' = used + 1
    /\ tokens' = tokens \cup {<<w, job[w].id>>}
    /\ Write(w, [row[w] EXCEPT !.status = "READY", !.proposal = TRUE, !.outcome = "SUCCESS",
                               !.base = job[w].count])
    /\ saved' = saved \cup {<<w, job[w].id>>}
    /\ Goes(w, "done")
    /\ UNCHANGED <<eligible, post, failing, faults>>

\* The charge, unless the job's token is claimed, and the proposal: one transaction.
Commit(w) ==
    LET token == <<w, job[w].id>> IN
    /\ job[w].at = "commit"
    /\ used' = IF token \in tokens THEN used ELSE used + 1
    /\ tokens' = tokens \cup {token}
    /\ Write(w, [row[w] EXCEPT !.status = "READY", !.proposal = TRUE, !.outcome = "SUCCESS",
                               !.base = job[w].count])
    /\ saved' = saved \cup {token}
    /\ Goes(w, "done")
    /\ UNCHANGED <<eligible, post, failing, faults>>

Return(w) ==
    /\ job[w].at = "done"
    /\ Ends(w)
    /\ UNCHANGED <<eligible, row, post, failing, used, tokens, saved, faults>>

\* A database call or the model throws. The only attempt is the last one, so that the
\* failed event writes FAILED, without being waited for.
Throw(w) ==
    /\ job[w].at \in {"mark", "check", "generate", "commit"}
    /\ Fault
    /\ Ends(w)
    /\ failing' = failing \cup {w}
    /\ UNCHANGED <<eligible, row, post, used, tokens, saved>>

WriteFailed(w) ==
    /\ w \in failing
    /\ failing' = failing \ {w}
    /\ Write(w, [row[w] EXCEPT !.status = "FAILED", !.outcome = "FAILED"])
    /\ UNCHANGED <<eligible, post, job, used, tokens, saved, faults>>

\* The worker dies. Its job is requeued, or given up, with or without a failed event that
\* counts as its last attempt.
Crash(w) ==
    /\ job[w].at \notin {"idle", "queued"}
    /\ Fault
    /\ IF job[w].stalls < MaxStalls
       THEN /\ job' = [job EXCEPT ![w] = [NoJob EXCEPT !.at = "queued", !.id = job[w].id,
                                                       !.stalls = job[w].stalls + 1]]
            /\ UNCHANGED failing
       ELSE /\ Ends(w)
            /\ failing' \in {failing, failing \cup {w}}
    /\ UNCHANGED <<eligible, row, post, used, tokens, saved>>

Next ==
    \/ Later
    \/ \E w \in Workspaces :
          \/ InboxChanges(w) \/ ConsumeProposal(w) \/ Reset(w)
          \/ ReadState(w) \/ JobMarksRunning(w) \/ Check(w) \/ Generate(w) \/ Commit(w)
          \/ Return(w) \/ Throw(w) \/ WriteFailed(w) \/ Crash(w)
    \/ \E p \in Requests :
          \/ \E w \in Workspaces : Admit(p, w)
          \/ MarkRunning(p) \/ AddJob(p) \/ AddFails(p)

Spec == Init /\ [][Next]_vars

-----------------------------------------------------------------------------
GenerationTypeOK ==
    /\ eligible \in [Workspaces -> 0 .. MaxMail]
    /\ \A w \in Workspaces :
          /\ row[w].status \in {"IDLE", "RUNNING", "READY", "INSUFFICIENT", "FAILED"}
          /\ row[w].base \in 0 .. MaxMail
          /\ row[w].outcome = "SUCCESS" => row[w].base > 0
          /\ job[w].at = "generate" => job[w].count > 0
    /\ used \in Nat /\ tokens \subseteq Workspaces \X (1 .. MaxJobs)

\* The meter counts the runs that saved a proposal, each once, also when a worker dies
\* after the save and the job runs again (generate-taxonomy.ts, the transaction).
ChargedForProposals == used = Cardinality(saved)

\* Requests that slip past the limiter together overshoot the cap by what can be past
\* the job's own check at once, one run for each other workspace of the inbox
\* (generate-taxonomy.ts, "a race cannot double-spend").
GenerationOvershootBounded == used <= Cap + Cardinality(Workspaces) - 1
=============================================================================
