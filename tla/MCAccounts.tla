----------------------------- MODULE MCAccounts -----------------------------
(***************************************************************************)
(* Small instances of what must come about with the services an account    *)
(* depends on in the end: a connection is watched or its loss is noticed,  *)
(* a plan ends with its subscription; and of the one trial a person has.   *)
(* A behaviour is one of one part; the others stay where they began, and   *)
(* only the part's own fairness is assumed.                                *)
(***************************************************************************)
EXTENDS Billing

CONSTANTS w1, r1, inbox, s1, s2

VARIABLES
    part,  \* the part this behaviour is about
    conn, grants, watches, accounts, nudged, disc, link, upgrade, reg, renewal, job, credit,
    connLate, loose, mixed, overtaken, connMishaps

connVars == <<conn, grants, watches, accounts, nudged, disc, link, upgrade, reg, renewal, job,
              credit, connLate, loose, mixed, overtaken, connMishaps>>

\* One connection and one job; the connects are the API's (the web's also erase), and
\* one at a time with the upgrades: on one mailbox neither crosses the other.
Connected == INSTANCE Connections WITH
    late <- connLate, mishaps <- connMishaps,
    Workspaces <- {w1}, Mailboxes <- {inbox}, Workers <- {r1},
    MaxGrants <- 2, MaxMishaps <- 1

\* Billing itself is one subscription with a trial, and all that a person does; here
\* one is paid at once, and a call fails, a process dies or an event comes once more.
Failing == INSTANCE Billing WITH Doings <- {"account"}, MaxMishaps <- 1

\* Two checkout sessions, of which two callers provision each.
Twice == INSTANCE Billing WITH Subs <- {s1, s2}, Doings <- {}

\* The person deletes the account and registers again.
Again == INSTANCE Billing WITH
    Subs <- {s1, s2}, Callers <- {"webhook"}, Doings <- {"account"}, MaxAccounts <- 2

AccountsInit ==
    /\ Connected!Init
    /\ \/ part \in {"connection", "plan"} /\ Init /\ ~account.trialUsed
       \/ part = "failing" /\ Failing!Init /\ account.trialUsed
       \/ part = "twice" /\ Twice!Init
       \/ part = "again" /\ Again!Init

OneRequest ==
    /\ ~link'[w1].web
    /\ link'[w1].at = "idle" \/ upgrade'[w1].at = "idle"

AccountsNext ==
    /\ \/ part = "connection" /\ Connected!Next /\ OneRequest /\ UNCHANGED vars
       \/ part = "plan" /\ Next /\ UNCHANGED connVars
       \/ part = "failing" /\ Failing!Next /\ UNCHANGED connVars
       \/ part = "twice" /\ Twice!Next /\ UNCHANGED connVars
       \/ part = "again" /\ Again!Next /\ UNCHANGED connVars
    /\ UNCHANGED part

accountsVars == <<part, connVars, vars>>

\* A request that was taken is carried through, the scheduler enqueues a sync of each
\* ACTIVE connection every minute, and the renewal ticks every day.
FairConnection ==
    /\ WF_connVars(part = "connection" /\ Connected!Connect(w1))
    /\ WF_connVars(part = "connection" /\ Connected!Register(w1))
    /\ WF_connVars(part = "connection" /\ Connected!Disconnect(w1))
    /\ WF_connVars(part = "connection" /\ Connected!StampAges(w1))
    /\ WF_connVars(part = "connection" /\ Connected!JobReads(r1, w1))
    /\ WF_connVars(part = "connection" /\ Connected!Job(r1))
    /\ WF_connVars(part = "connection" /\ Connected!RenewalCalls(inbox))
    /\ WF_connVars(part = "connection" /\ Connected!RenewalStamps)

\* What the code or Stripe has begun goes on: a provisioning, an answer to an event, an
\* account deletion, the tick of the worker. Trials run out, arrears are settled or given
\* up. The person and the page in the browser owe nothing.
FairPlan ==
    /\ \A c \in Callers :
          WF_vars(\/ part = "plan" /\ Provisioning(c)
                  \/ part = "failing" /\ Failing!Provisioning(c))
    /\ WF_vars(\/ part = "plan" /\ ProvisionFromCheckoutSession("webhook", s1)
               \/ part = "failing" /\ Failing!ProvisionFromCheckoutSession("webhook", s1))
    /\ WF_vars((part = "plan" /\ Tells(s1)) \/ (part = "failing" /\ Failing!Tells(s1)))
    /\ WF_vars(part \in {"plan", "failing"} /\ ProcessPending(s1))
    /\ WF_vars(part \in {"plan", "failing"} /\ TimePasses(s1))
    /\ WF_vars(part \in {"plan", "failing"} /\ CancellationRecorded)
    /\ WF_vars((part = "plan" /\ Deletion) \/ (part = "failing" /\ Failing!Deletion))

AccountsSpec ==
    /\ AccountsInit /\ [][AccountsNext]_accountsVars
    /\ FairConnection /\ FairPlan

-----------------------------------------------------------------------------
\* A connection whose grant is dead does not stay ACTIVE (gmail-connection-status.ts).
DeadGrantNoticed == part = "connection" => Connected!DeadGrantNoticed

\* A connection has its push watch again and again (apps/worker/src/index.ts).
PushComesBack == part = "connection" => Connected!PushComesBack

\* No workspace stays on the plan of a subscription that has ended
\* (billing/webhook/route.ts).
EndedPlanIsLeft ==
    /\ part = "plan" => PlanEndsWithSubscription
    /\ part = "failing" => Failing!PlanEndsWithSubscription

\* A subscription whose payer is gone ends, but for the known gaps
\* (subscription-cleanup.ts).
OrphanedPlanEnds ==
    /\ part = "plan" => OrphansEnd
    /\ part = "failing" => Failing!OrphansEnd

\* A payment lifts the limits of a trial (billing-provision.ts).
PaidPlanUnlocks ==
    /\ part = "plan" => PaymentUnlocks
    /\ part = "failing" => Failing!PaymentUnlocks
=============================================================================
