------------------------------ MODULE Billing ------------------------------
(***************************************************************************)
(* Paid plans: a checkout at Stripe, the provisioning that its webhook and *)
(* its success page share (billing-provision.ts), the events of a          *)
(* subscription's life (billing/webhook/route.ts), its cancellation by     *)
(* hand, and the deletion of workspaces and accounts.  One person, with    *)
(* one email address and one card, registers, deletes the account and      *)
(* registers again.  Stripe is what its calls and events do; an event may  *)
(* come in any order, again until it is answered, and once more.           *)
(***************************************************************************)
EXTENDS Integers, FiniteSets

CONSTANTS
    Subs,        \* checkout sessions, each named as the subscription it makes
    Workspaces,  \* workspaces of an account
    Callers,     \* what provisions: of "webhook", "page"
    Doings,      \* what the person does besides paying, of "portal", "settings",
                 \* "cancel", "workspace", "account"
    MaxAccounts, \* bound: times the person registers
    MaxMishaps,  \* bound: failed calls, crashes, redelivered events
    None         \* no subscription

Earlier == "earlier"   \* a subscription before the first step

ASSUME BillingAssumption ==
    /\ None \notin Subs \cup {Earlier}
    /\ MaxAccounts \in Nat \ {0}

VARIABLES
    account,   \* the person's account: how many there were, and whether it exists
    row,       \* row[w]: the Workspace row
    stripe,    \* stripe[s]: the session and its subscription, at Stripe
    events,    \* events that Stripe delivers until they are answered
    claim,     \* the TrialClaim of the email address: the subscription it names
    prov,      \* prov[c]: the provisioning a caller is in
    cancel,    \* the cancellation by hand under way
    leaving,   \* the account deletion under way
    pending,   \* PendingSubscriptionCancellation rows
    granted,   \* history: subscriptions whose trial was granted
    late,      \* history: subscriptions attached after they had ended
    missed,    \* history: subscriptions whose payment after a trial found no workspace
    astray,    \* history: subscriptions that lost their workspace while they lived
    mishaps

vars == <<account, row, stripe, events, claim, prov, cancel, leaving, pending,
          granted, late, missed, astray, mishaps>>

history == <<granted, late, missed, astray>>

NoRow == [there |-> FALSE, paidPlan |-> FALSE, sub |-> None, trial |-> FALSE,
          ending |-> FALSE, paid |-> FALSE]
NewRow == [NoRow EXCEPT !.there = TRUE]
Unopened == [at |-> "none", ending |-> FALSE, trialed |-> FALSE, by |-> 0, ws |-> None]
Idle == [at |-> "idle", sub |-> None, trial |-> FALSE, paidNow |-> FALSE, consumed |-> FALSE]
NoCancel == [at |-> "idle", ws |-> None]
NoDeletion == [at |-> "idle", todo |-> {}, listed |-> {}]

\* A person with a free plan, whose trial may have been used.
Init ==
    /\ \E used \in BOOLEAN :
          /\ account = [number |-> 1, there |-> TRUE, trialUsed |-> used]
          /\ claim = IF used THEN Earlier ELSE None
          /\ granted = IF used THEN {Earlier} ELSE {}
    /\ row = [w \in Workspaces |-> NewRow]
    /\ stripe = [s \in Subs |-> Unopened]
    /\ events = {}
    /\ prov = [c \in Callers |-> Idle]
    /\ cancel = NoCancel
    /\ leaving = NoDeletion
    /\ pending = {}
    /\ late = {} /\ missed = {} /\ astray = {}
    /\ mishaps = 0

Mishap == mishaps < MaxMishaps /\ mishaps' = mishaps + 1

-----------------------------------------------------------------------------
(* Stripe.                                                                 *)

Live(s) == stripe[s].at \in {"trialing", "active", "due"}

Event(kind, s) == [kind |-> kind, sub |-> s, ending |-> FALSE, trialing |-> FALSE]
Updated(s, ending) ==
    [kind |-> "updated", sub |-> s, ending |-> ending, trialing |-> stripe[s].at = "trialing"]

Becomes(s, at) == stripe' = [stripe EXCEPT ![s].at = at]

\* The first payment of a subscription, or one that ends its arrears.
Paying(s) == Becomes(s, "active") /\ events' = events \cup {Event("paid", s)}

\* A subscription that ends is reported as deleted.
Ends(s) == Becomes(s, "canceled") /\ events' = events \cup {Event("deleted", s)}

\* The person pays, or starts the trial that the session offers.
CompleteCheckout(s) ==
    /\ stripe[s].at \in {"open", "offering"}
    /\ IF stripe[s].at = "offering"
       THEN /\ stripe' = [stripe EXCEPT ![s].at = "trialing", ![s].trialed = TRUE]
            /\ events' = events \cup {Event("completed", s)}
       ELSE /\ Becomes(s, "active")
            /\ events' = events \cup {Event("completed", s), Event("paid", s)}
    /\ UNCHANGED <<account, row, claim, prov, cancel, leaving, pending, history, mishaps>>

\* The trial runs out, here and in trialEndsAt.
TrialEnds(s) ==
    /\ stripe[s].at = "trialing"
    /\ IF stripe[s].ending
       THEN Ends(s)
       ELSE Paying(s) \/ (Becomes(s, "due") /\ UNCHANGED events)
    /\ row' = [w \in Workspaces |-> IF row[w].sub = s THEN [row[w] EXCEPT !.trial = FALSE]
                                                      ELSE row[w]]
    /\ prov' = [c \in Callers |-> IF prov[c].sub = s THEN [prov[c] EXCEPT !.trial = FALSE]
                                                     ELSE prov[c]]
    /\ UNCHANGED <<account, claim, cancel, leaving, pending, history, mishaps>>

\* A paid period runs out, or the arrears are settled or given up.
PeriodEnds(s) ==
    /\ \/ stripe[s].at = "active" /\ stripe[s].ending /\ Ends(s)
       \/ stripe[s].at = "due" /\ (Ends(s) \/ Paying(s))
    /\ UNCHANGED <<account, row, claim, prov, cancel, leaving, pending, history, mishaps>>

\* The billing portal: cancel at the end of the period, and the opposite.
Portal(s) ==
    /\ "portal" \in Doings
    /\ Live(s)
    /\ stripe' = [stripe EXCEPT ![s].ending = ~@]
    /\ events' = events \cup {Updated(s, ~stripe[s].ending)}
    /\ IF stripe[s].ending THEN Mishap ELSE UNCHANGED mishaps
    /\ UNCHANGED <<account, row, claim, prov, cancel, leaving, pending, history>>

-----------------------------------------------------------------------------
(* Accounts and checkout sessions.                                         *)

Register ==
    /\ ~account.there /\ account.number < MaxAccounts
    /\ account' = [number |-> account.number + 1, there |-> TRUE, trialUsed |-> FALSE]
    /\ row' = [w \in Workspaces |-> NewRow]
    /\ UNCHANGED <<stripe, events, claim, prov, cancel, leaving, pending, history, mishaps>>

\* create-checkout-session, for an upgrade of a free workspace: the trial is
\* advertised by what is known now, and the session may be used much later.
OpenCheckout(s, w) ==
    /\ account.there /\ row[w].there /\ ~row[w].paidPlan
    /\ stripe[s].at = "none"
    /\ stripe' = [stripe EXCEPT ![s] =
           [Unopened EXCEPT !.at = IF ~account.trialUsed /\ claim = None
                                   THEN "offering" ELSE "open",
                            !.by = account.number, !.ws = w]]
    /\ UNCHANGED <<account, row, events, claim, prov, cancel, leaving, pending, history, mishaps>>

\* The initiating user of a session, and the workspace it names, still exist.
UserOf(s) == account.there /\ account.number = stripe[s].by
RowOf(s) == UserOf(s) /\ row[stripe[s].ws].there

-----------------------------------------------------------------------------
(* Provisioning: provisionFromCheckoutSession, from the webhook and from   *)
(* the page that the browser returns to.                                   *)

\* The caller is done: the webhook answers the event, which may come once more.
Answer(c, s) ==
    /\ prov' = [prov EXCEPT ![c] = Idle]
    /\ \/ /\ events' = IF c = "webhook" THEN events \ {Event("completed", s)} ELSE events
          /\ UNCHANGED mishaps
       \/ c = "webhook" /\ Mishap /\ UNCHANGED events

\* The caller fails: the event stays, the page is loaded again.
GiveUp(c) == prov' = [prov EXCEPT ![c] = Idle]

At(c, s, step) == prov' = [prov EXCEPT ![c] = [Idle EXCEPT !.at = step, !.sub = s]]

\* The user and the workspace are read: an orphaned payment is queued for
\* cancellation, a provisioned upgrade is left alone.
ProvisionFromCheckoutSession(c, s) ==
    /\ prov[c].at = "idle"
    /\ IF c = "webhook" THEN Event("completed", s) \in events
                        ELSE UserOf(s) /\ stripe[s].at \notin {"none", "offering", "open"}
    /\ IF ~UserOf(s)
       THEN pending' = pending \cup {s} /\ Answer(c, s)
       ELSE /\ UNCHANGED pending
            /\ IF RowOf(s) /\ row[stripe[s].ws].sub = s /\ row[stripe[s].ws].paidPlan
               THEN Answer(c, s)
               ELSE At(c, s, "retrieve") /\ UNCHANGED <<events, mishaps>>
    /\ UNCHANGED <<account, row, stripe, claim, cancel, leaving, history>>

RetrieveSubscriptionUnpaid(c) ==   \* mutant: a payment at once is left to its event
    /\ prov[c].at = "retrieve"
    /\ LET s == prov[c].sub IN
       CASE stripe[s].at = "canceled" -> Answer(c, s)
         [] stripe[s].at = "trialing" -> At(c, s, "claim") /\ UNCHANGED <<events, mishaps>>
         [] OTHER -> At(c, s, "commit") /\ UNCHANGED <<events, mishaps>>
    /\ UNCHANGED <<account, row, stripe, claim, cancel, leaving, pending, history>>

\* enforceTrialPolicy: a dead subscription provisions nothing, one without a
\* running trial needs no claim.
RetrieveSubscription(c) ==
    /\ prov[c].at = "retrieve"
    /\ LET s == prov[c].sub IN
       CASE stripe[s].at = "canceled" -> Answer(c, s)
         [] stripe[s].at = "trialing" -> At(c, s, "claim") /\ UNCHANGED <<events, mishaps>>
         [] OTHER ->
              /\ prov' = [prov EXCEPT ![c] =
                     [@ EXCEPT !.at = "commit",
                               !.paidNow = ~stripe[s].trialed /\ stripe[s].at = "active"]]
              /\ UNCHANGED <<events, mishaps>>
    /\ UNCHANGED <<account, row, stripe, claim, cancel, leaving, pending, history>>

\* The unique key decides; the claim of this subscription is granted again.
ClaimTrial(c) ==
    /\ prov[c].at = "claim"
    /\ LET s == prov[c].sub IN
       IF claim \in {None, s}
       THEN /\ claim' = s
            /\ granted' = granted \cup {s}
            /\ prov' = [prov EXCEPT ![c] =
                   [@ EXCEPT !.at = "commit", !.trial = TRUE, !.consumed = TRUE]]
       ELSE At(c, s, "strip") /\ UNCHANGED <<claim, granted>>
    /\ UNCHANGED <<account, row, stripe, events, cancel, leaving, pending,
                   late, missed, astray, mishaps>>

\* A denied trial ends now; one that another caller has ended is read again.
StripTrial(c) ==
    /\ prov[c].at = "strip"
    /\ LET s == prov[c].sub
           Settled(paid) == prov' = [prov EXCEPT ![c] =
               IF paid THEN [@ EXCEPT !.at = "commit", !.paidNow = TRUE, !.consumed = TRUE]
                       ELSE [@ EXCEPT !.at = "drop"]]
       IN \/ stripe[s].at = "trialing" /\ Paying(s) /\ Settled(TRUE)
          \/ stripe[s].at = "trialing" /\ Becomes(s, "due") /\ UNCHANGED events /\ Settled(FALSE)
          \/ /\ stripe[s].at # "trialing" /\ Settled(stripe[s].at = "active")
             /\ UNCHANGED <<stripe, events>>
    /\ UNCHANGED <<account, row, claim, cancel, leaving, pending, history, mishaps>>

\* The charge did not settle: the subscription is canceled, nothing is provisioned.
\* Canceling one that has ended is an error.
DropUnpaid(c) ==
    /\ prov[c].at = "drop"
    /\ LET s == prov[c].sub IN
       IF stripe[s].at = "canceled"
       THEN GiveUp(c) /\ UNCHANGED <<stripe, events, mishaps>>
       ELSE /\ Becomes(s, "canceled")
            /\ prov' = [prov EXCEPT ![c] = Idle]
            /\ events' = (IF c = "webhook" THEN events \ {Event("completed", s)} ELSE events)
                         \cup {Event("deleted", s)}
            /\ UNCHANGED mishaps
    /\ UNCHANGED <<account, row, claim, cancel, leaving, pending, history>>

\* One transaction: the plan, the first payment when it was made at once, the used
\* trial.  A workspace deleted meanwhile makes it fail.
CommitProvision(c) ==
    /\ prov[c].at = "commit"
    /\ LET s == prov[c].sub
           w == stripe[s].ws
       IN IF ~RowOf(s)
          THEN GiveUp(c) /\ UNCHANGED <<account, row, events, late, astray, mishaps>>
          ELSE /\ row' = [row EXCEPT ![w] =
                     [@ EXCEPT !.paidPlan = TRUE, !.sub = s, !.trial = prov[c].trial,
                               !.ending = FALSE, !.paid = row[w].paid \/ prov[c].paidNow]]
               /\ account' = [account EXCEPT !.trialUsed = @ \/ prov[c].consumed]
               /\ late' = IF Live(s) THEN late ELSE late \cup {s}
               /\ astray' = astray \cup ({row[w].sub} \ {None, s})
               /\ Answer(c, s)
    /\ UNCHANGED <<stripe, claim, cancel, leaving, pending, granted, missed>>

\* A call to Stripe or to the database fails, or the process dies.
ProvisionFails(c) ==
    /\ prov[c].at # "idle"
    /\ Mishap /\ GiveUp(c)
    /\ UNCHANGED <<account, row, stripe, events, claim, cancel, leaving, pending, history>>

-----------------------------------------------------------------------------
(* The other events, and the state shown in the settings.                  *)

FreeWithSub(w) ==   \* mutant: the reset leaves the subscription
    [row[w] EXCEPT !.paidPlan = FALSE, !.trial = FALSE, !.ending = FALSE]

\* FREE_PLAN_RESET, and the same fields in the webhook.
Free(w) == [row[w] EXCEPT !.paidPlan = FALSE, !.sub = None, !.trial = FALSE, !.ending = FALSE]

\* The workspace goes back to the free plan; its subscription may still live.
Downgrade(w) ==
    /\ row' = [row EXCEPT ![w] = Free(w)]
    /\ astray' = astray \cup {s \in Subs : row[w].sub = s /\ Live(s)}

Answered(e) ==
    \/ events' = events \ {e} /\ UNCHANGED mishaps
    \/ Mishap /\ UNCHANGED events

\* handleSubscriptionUpdated: a trial that is canceled ends the plan at once.
HandleSubscriptionUpdated(e) ==
    /\ e.kind = "updated" /\ e \in events /\ Answered(e)
    /\ IF \A w \in Workspaces : row[w].sub # e.sub
       THEN UNCHANGED <<row, astray>>
       ELSE \E w \in Workspaces :
              /\ row[w].sub = e.sub
              /\ IF e.ending /\ e.trialing
                 THEN Downgrade(w)
                 ELSE row' = [row EXCEPT ![w].ending = e.ending] /\ UNCHANGED astray
    /\ UNCHANGED <<account, stripe, claim, prov, cancel, leaving, pending, granted, late, missed>>

HandleSubscriptionDeleted(e) ==
    /\ e.kind = "deleted" /\ e \in events /\ Answered(e)
    /\ IF \A w \in Workspaces : row[w].sub # e.sub
       THEN UNCHANGED <<row, astray>>
       ELSE \E w \in Workspaces : row[w].sub = e.sub /\ Downgrade(w)
    /\ UNCHANGED <<account, stripe, claim, prov, cancel, leaving, pending, granted, late, missed>>

\* The first payment lifts the limits of a trial, once.
HandlePaymentSucceeded(e) ==
    /\ e.kind = "paid" /\ e \in events /\ Answered(e)
    /\ IF \A w \in Workspaces : row[w].sub # e.sub
       THEN /\ missed' = missed \cup {s \in {e.sub} : stripe[s].trialed}
            /\ UNCHANGED row
       ELSE \E w \in Workspaces :
              /\ row[w].sub = e.sub
              /\ row' = [row EXCEPT ![w].paid = TRUE]
              /\ UNCHANGED missed
    /\ UNCHANGED <<account, stripe, claim, prov, cancel, leaving, pending, granted, late, astray>>

\* assembleBillingState: the owner opens the settings.
AssembleBillingState(w) ==
    /\ "settings" \in Doings
    /\ account.there /\ row[w].sub # None
    /\ LET s == row[w].sub IN
       IF stripe[s].at = "canceled" \/ (stripe[s].ending /\ stripe[s].at = "trialing")
       THEN Downgrade(w)
       ELSE /\ row' = [row EXCEPT ![w].ending = @ \/ stripe[s].ending]
            /\ UNCHANGED astray
    /\ UNCHANGED <<account, stripe, events, claim, prov, cancel, leaving, pending,
                   granted, late, missed, mishaps>>

-----------------------------------------------------------------------------
(* Ending it: by hand, with the workspace, with the account.               *)

\* cancel-subscription: in a trial at once, otherwise at the end of the period.  The
\* call fails for a subscription that has ended.
CancelSubscription(w) ==
    /\ "cancel" \in Doings
    /\ cancel.at = "idle"
    /\ account.there /\ row[w].there /\ row[w].sub # None /\ Live(row[w].sub)
    /\ LET s == row[w].sub IN
       IF row[w].trial
       THEN Ends(s) /\ cancel' = [at |-> "downgrade", ws |-> w]
       ELSE /\ stripe' = [stripe EXCEPT ![s].ending = TRUE]
            /\ events' = events \cup {Updated(s, TRUE)}
            /\ cancel' = [at |-> "mark", ws |-> w]
    /\ UNCHANGED <<account, row, claim, prov, leaving, pending, history, mishaps>>

\* The row follows, whatever subscription it has by now.
CancellationRecorded ==
    /\ cancel.at # "idle"
    /\ cancel' = NoCancel
    /\ LET w == cancel.ws IN
       CASE ~row[w].there -> UNCHANGED <<row, astray>>
         [] row[w].there /\ cancel.at = "downgrade" -> Downgrade(w)
         [] OTHER -> row' = [row EXCEPT ![w].ending = TRUE] /\ UNCHANGED astray
    /\ UNCHANGED <<account, stripe, events, claim, prov, leaving, pending,
                   granted, late, missed, mishaps>>

CancellationLost ==
    /\ cancel.at # "idle" /\ Mishap
    /\ cancel' = NoCancel
    /\ UNCHANGED <<account, row, stripe, events, claim, prov, leaving, pending, history>>

\* deleteWorkspaceCascade, of a workspace that is not the owner's only one: its
\* subscription is nobody's business.
DeleteWorkspace(w) ==
    /\ "workspace" \in Doings
    /\ account.there /\ row[w].there
    /\ row' = [row EXCEPT ![w] = NoRow]
    /\ astray' = astray \cup {s \in Subs : row[w].sub = s /\ Live(s)}
    /\ UNCHANGED <<account, stripe, events, claim, prov, cancel, leaving, pending,
                   granted, late, missed, mishaps>>

\* cancelSubscriptionsForAccountDeletion: the subscriptions of the owned workspaces.
DeleteAccount ==
    /\ "account" \in Doings
    /\ leaving.at = "idle" /\ account.there
    /\ LET owned == {row[w].sub : w \in Workspaces} \ {None}
       IN leaving' = [at |-> "cancel", todo |-> owned, listed |-> owned]
    /\ UNCHANGED <<account, row, stripe, events, claim, prov, cancel, pending, history, mishaps>>

\* ensureSubscriptionCanceled: one that has ended will do.
EnsureCanceled(s) == IF Live(s) THEN Ends(s) ELSE UNCHANGED <<stripe, events>>

CancelOnceForDeletion(s) ==   \* mutant: a call that fails is only logged
    /\ leaving.at = "cancel" /\ s \in leaving.todo
    /\ leaving' = [leaving EXCEPT !.todo = @ \ {s}]
    /\ \/ EnsureCanceled(s) /\ UNCHANGED mishaps
       \/ Mishap /\ UNCHANGED <<stripe, events>>
    /\ UNCHANGED <<account, row, claim, prov, cancel, pending, history>>

\* A call that fails leaves a row for the worker.
CancelForDeletion(s) ==
    /\ leaving.at = "cancel" /\ s \in leaving.todo
    /\ leaving' = [leaving EXCEPT !.todo = @ \ {s}]
    /\ \/ EnsureCanceled(s) /\ UNCHANGED <<pending, mishaps>>
       \/ Mishap /\ pending' = pending \cup {s} /\ UNCHANGED <<stripe, events>>
    /\ UNCHANGED <<account, row, claim, prov, cancel, history>>

DeleteUserCascadeWithClaim ==   \* mutant: the claim goes with the account
    /\ leaving.at = "cancel" /\ leaving.todo = {}
    /\ leaving' = NoDeletion
    /\ account' = [account EXCEPT !.there = FALSE]
    /\ row' = [w \in Workspaces |-> NoRow]
    /\ claim' = None
    /\ UNCHANGED <<stripe, events, prov, cancel, pending, history, mishaps>>

\* deleteUserCascade: every row of the account goes, a used trial stays used.
DeleteUserCascade ==
    /\ leaving.at = "cancel" /\ leaving.todo = {}
    /\ leaving' = NoDeletion
    /\ account' = [account EXCEPT !.there = FALSE]
    /\ row' = [w \in Workspaces |-> NoRow]
    /\ astray' = astray \cup {s \in Subs \ leaving.listed :
                                 Live(s) /\ \E w \in Workspaces : row[w].sub = s}
    /\ UNCHANGED <<stripe, events, claim, prov, cancel, pending, granted, late, missed, mishaps>>

\* The request dies before the rows are gone.
DeletionLost ==
    /\ leaving.at = "cancel" /\ Mishap
    /\ leaving' = NoDeletion
    /\ UNCHANGED <<account, row, stripe, events, claim, prov, cancel, pending, history>>

\* processPendingSubscriptionCancellations; a call that fails changes nothing here.
ProcessPending(s) ==
    /\ s \in pending
    /\ EnsureCanceled(s)
    /\ pending' = pending \ {s}
    /\ UNCHANGED <<account, row, claim, prov, cancel, leaving, history, mishaps>>

-----------------------------------------------------------------------------
Provisioning(c) ==
    \/ RetrieveSubscription(c) \/ ClaimTrial(c) \/ StripTrial(c) \/ DropUnpaid(c)
    \/ CommitProvision(c)

Handle(e) ==
    \/ HandleSubscriptionUpdated(e) \/ HandleSubscriptionDeleted(e) \/ HandlePaymentSucceeded(e)

\* Stripe's events that end a plan or unlock it.
Tells(s) == Handle(Event("deleted", s)) \/ Handle(Event("paid", s))

TimePasses(s) == TrialEnds(s) \/ PeriodEnds(s)

Deletion == DeleteUserCascade \/ \E s \in Subs : CancelForDeletion(s)

Next ==
    \/ \E s \in Subs :
          \/ CompleteCheckout(s) \/ TimePasses(s) \/ Portal(s)
          \/ ProcessPending(s)
          \/ \E w \in Workspaces : OpenCheckout(s, w)
          \/ \E c \in Callers : ProvisionFromCheckoutSession(c, s)
    \/ Register
    \/ \E c \in Callers : Provisioning(c) \/ ProvisionFails(c)
    \/ \E e \in events : Handle(e)
    \/ \E w \in Workspaces :
          AssembleBillingState(w) \/ CancelSubscription(w) \/ DeleteWorkspace(w)
    \/ CancellationRecorded \/ CancellationLost
    \/ DeleteAccount \/ Deletion \/ DeletionLost

Spec == Init /\ [][Next]_vars

-----------------------------------------------------------------------------
(* Properties.                                                             *)

\* The account, the rows, the subscriptions and what is under way have their types.
BillingTypeOK ==
    /\ account \in [number: 1 .. MaxAccounts, there: BOOLEAN, trialUsed: BOOLEAN]
    /\ row \in [Workspaces -> [there: BOOLEAN, paidPlan: BOOLEAN, sub: Subs \cup {None},
                               trial: BOOLEAN, ending: BOOLEAN, paid: BOOLEAN]]
    /\ stripe \in [Subs -> [at: {"none", "offering", "open", "trialing", "active", "due",
                                 "canceled"},
                            ending: BOOLEAN, trialed: BOOLEAN, by: 0 .. MaxAccounts,
                            ws: Workspaces \cup {None}]]
    /\ claim \in Subs \cup {None, Earlier}
    /\ prov \in [Callers -> [at: {"idle", "retrieve", "claim", "strip", "drop", "commit"},
                             sub: Subs \cup {None}, trial: BOOLEAN, paidNow: BOOLEAN,
                             consumed: BOOLEAN]]
    /\ cancel \in [at: {"idle", "downgrade", "mark"}, ws: Workspaces \cup {None}]
    /\ leaving \in [at: {"idle", "cancel"}, todo: SUBSET Subs, listed: SUBSET Subs]
    /\ events \subseteq [kind: {"completed", "updated", "deleted", "paid"}, sub: Subs,
                          ending: BOOLEAN, trialing: BOOLEAN]
    /\ UNION {pending, granted \ {Earlier}, late, missed, astray} \subseteq Subs

\* One email address has one trial, however many sessions it stockpiled, whoever
\* provisions them at once, and also after it deleted its account (trial-claims.ts):
\* no workspace is in another, by its own account or by Stripe's.
OneTrialPerIdentity ==
    /\ Cardinality(granted) <= 1
    /\ \A w \in Workspaces :
          row[w].sub # None /\ (row[w].trial \/ stripe[row[w].sub].at = "trialing")
              => row[w].sub \in granted

\* A workspace does not stay on the plan of a subscription that has ended, but for one
\* that ended while its provisioning was under way (billing/webhook/route.ts).
PlanEndsWithSubscription ==
    \A s \in Subs :
        stripe[s].at = "canceled" ~> (s \in late \/ \A w \in Workspaces : row[w].sub # s)

\* A subscription whose payer is gone ends, whatever calls fail, unless it lost its
\* workspace before or was attached after the deletion listed what to cancel
\* (subscription-cleanup.ts).
OrphansEnd ==
    \A s \in Subs : (Live(s) /\ ~UserOf(s)) ~> (~Live(s) \/ s \in astray)

\* A workspace whose subscription has been paid is relieved of the limits of a trial,
\* but for a payment at the end of a trial that found no workspace yet
\* (billing-provision.ts).
PaymentUnlocks ==
    \A s \in Subs, w \in Workspaces :
        (row[w].sub = s /\ stripe[s].at = "active")
            ~> (s \in missed \/ row[w].sub # s \/ row[w].paid \/ stripe[s].at # "active")
=============================================================================
