----------------------------- MODULE Summaries -----------------------------
(***************************************************************************)
(* Thread summaries (thread-summary.ts): one row per thread caches the     *)
(* text for a set of messages and a language.  The request that finds no   *)
(* such text claims the row under the lock of the workspace, asks the      *)
(* model, saves the text and charges the inbox.  A claim whose request     *)
(* died is taken over once it is stale.                                    *)
(***************************************************************************)
EXTENDS Integers, FiniteSets

CONSTANTS
    Threads,      \* threads with messages that are not automated
    Requests,     \* requests that may be under way at once
    Limit,        \* summaries a month for the inbox
    MaxVersions,  \* bound: message sets and languages of a thread
    MaxClaims,    \* bound: claims of a row
    MaxFaults     \* bound: failed generations, dead requests

VARIABLES
    version,  \* version[t]: the thread's messages and language, which a signature names
    row,      \* row[t]: its ThreadSummary, and how often the row was claimed
    req,      \* req[r]: the request r between its steps
    used,     \* the inbox's THREAD_SUMMARY meter of the month
    texts,    \* history: texts that were saved
    overran,  \* history: threads a request of which outlived its claim's freshness
    faults

vars == <<version, row, req, used, texts, overran, faults>>

\* text is the version the text was made of.
NoRow == [status |-> "none", signature |-> 0, text |-> 0, claims |-> 0, stale |-> FALSE]
NoReq == [at |-> "idle", thread |-> CHOOSE t \in Threads : TRUE, force |-> FALSE,
          signature |-> 0, dead |-> 0, claim |-> 0]

Init ==
    /\ version = [t \in Threads |-> 1]
    /\ row = [t \in Threads |-> NoRow]
    /\ req = [r \in Requests |-> NoReq]
    /\ used = 0 /\ texts = 0 /\ overran = {} /\ faults = 0

Fault == faults < MaxFaults /\ faults' = faults + 1
Ends(r) == req' = [req EXCEPT ![r] = NoReq]

\* A cached text of these messages in this language.
IsHit(t, signature) ==
    row[t].status = "READY" /\ row[t].signature = signature /\ row[t].text # 0

\* A claim that is not taken for dead: dead is the one that was stale when the request
\* began.
IsGenerating(t, dead) == row[t].status = "GENERATING" /\ row[t].claims # dead

-----------------------------------------------------------------------------
\* Mail comes or goes, or the workspace's language changes.
VersionChanges(t) ==
    /\ version[t] < MaxVersions
    /\ version' = [version EXCEPT ![t] = @ + 1]
    /\ UNCHANGED <<row, req, used, texts, overran, faults>>

\* The request reads the thread and the row, without the lock.
Ask(r, t, force) ==
    LET dead == IF row[t].stale THEN row[t].claims ELSE 0 IN
    /\ req[r].at = "idle"
    /\ force \/ ~IsHit(t, version[t])
    /\ ~IsGenerating(t, dead)
    /\ req' = [req EXCEPT ![r] = [NoReq EXCEPT !.at = "claim", !.thread = t, !.force = force,
                                               !.signature = version[t], !.dead = dead]]
    /\ UNCHANGED <<version, row, used, texts, overran, faults>>

\* The transaction under the lock: look again, ask the meter, claim the row. The text of
\* an earlier generation stays.
Claim(r) ==
    LET t == req[r].thread IN
    /\ req[r].at = "claim"
    /\ IF \/ ~req[r].force /\ IsHit(t, req[r].signature)
          \/ IsGenerating(t, req[r].dead)
          \/ used >= Limit
       THEN Ends(r) /\ UNCHANGED row
       ELSE /\ row[t].claims < MaxClaims
            /\ row' = [row EXCEPT ![t].status = "GENERATING", ![t].stale = FALSE,
                                  ![t].signature = req[r].signature, ![t].claims = @ + 1]
            /\ req' = [req EXCEPT ![r].at = "generate", ![r].claim = row[t].claims + 1]
    /\ UNCHANGED <<version, used, texts, overran, faults>>

\* The model answers about the messages the request read, and the row of the thread takes
\* the text, whoever has claimed it since.
SaveSummary(r) ==
    LET t == req[r].thread IN
    /\ req[r].at = "generate"
    /\ row' = [row EXCEPT ![t].status = "READY", ![t].text = req[r].signature,
                          ![t].stale = FALSE]
    /\ texts' = texts + 1
    /\ req' = [req EXCEPT ![r].at = "charge"]
    /\ UNCHANGED <<version, used, overran, faults>>

\* It throws, or its answer is invalid.
MarkFailed(r) ==
    LET t == req[r].thread IN
    /\ req[r].at = "generate"
    /\ Fault
    /\ row' = [row EXCEPT ![t].status = "FAILED", ![t].stale = FALSE]
    /\ Ends(r)
    /\ UNCHANGED <<version, used, texts, overran>>

RecordUsage(r) ==
    /\ req[r].at = "charge"
    /\ used' = used + 1
    /\ Ends(r)
    /\ UNCHANGED <<version, row, texts, overran, faults>>

\* The process dies, or a write throws.
Dies(r) ==
    /\ req[r].at \in {"generate", "charge"}
    /\ Fault
    /\ Ends(r)
    /\ UNCHANGED <<version, row, used, texts, overran>>

\* A claim turns two minutes old.
GoesStale(t) ==
    /\ row[t].status = "GENERATING" /\ ~row[t].stale
    /\ row' = [row EXCEPT ![t].stale = TRUE]
    /\ overran' = IF \E r \in Requests : /\ req[r].at = "generate"
                                         /\ req[r].thread = t /\ req[r].claim = row[t].claims
                  THEN overran \cup {t} ELSE overran
    /\ UNCHANGED <<version, req, used, texts, faults>>

Next ==
    \/ \E t \in Threads : VersionChanges(t) \/ GoesStale(t)
    \/ \E r \in Requests :
          \/ \E t \in Threads, force \in BOOLEAN : Ask(r, t, force)
          \/ Claim(r) \/ SaveSummary(r) \/ MarkFailed(r) \/ RecordUsage(r) \/ Dies(r)

Spec == Init /\ [][Next]_vars

-----------------------------------------------------------------------------
SummariesTypeOK ==
    /\ \A t \in Threads : /\ row[t].status \in {"none", "GENERATING", "READY", "FAILED"}
                          /\ row[t].text <= version[t] /\ row[t].signature <= version[t]
                          /\ row[t].stale => row[t].status = "GENERATING"
    /\ \A r \in Requests : req[r].at \in {"idle", "claim", "generate", "charge"}
    /\ used \in Nat

\* A text that is served for a set of messages was made of it, whoever asks at once and
\* whatever arrives meanwhile, unless a request outlived its claim (thread-summary.ts).
ServedTextFits ==
    \A t \in Threads \ overran : row[t].status = "READY" => row[t].text = row[t].signature

\* One request at a time generates for a thread, unless one outlived its claim
\* (thread-summary.ts, the claim under the lock).
OneGenerationPerThread ==
    \A t \in Threads \ overran :
        Cardinality({r \in Requests : req[r].at = "generate" /\ req[r].thread = t}) <= 1

\* The meter counts texts that were saved; only a request that dies before its charge
\* leaves one out (thread-summary.ts, "only a committed generation records").
ChargedForTexts ==
    /\ used <= texts
    /\ texts <= used + faults + Cardinality({r \in Requests : req[r].at = "charge"})

\* Each request under way may pass the limit, and no more than those.
SummaryOvershootBounded == used <= Limit + Cardinality(Requests) - 1
=============================================================================
