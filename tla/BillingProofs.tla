----------------------------- MODULE BillingProofs -----------------------------
(* The trial of a paid plan, for any number of sessions, workspaces, accounts and faults. *)
EXTENDS Billing, FiniteSetTheorems, TLAPS

WorkspaceRows == [there: BOOLEAN, paidPlan: BOOLEAN, sub: Subs \cup {None}, trial: BOOLEAN,
                  ending: BOOLEAN, paid: BOOLEAN]
Sessions == [at: {"none", "offering", "open", "trialing", "active", "due", "canceled"},
             ending: BOOLEAN, trialed: BOOLEAN, by: 0 .. MaxAccounts,
             ws: Workspaces \cup {None}]
Provisionings == [at: {"idle", "retrieve", "claim", "strip", "drop", "commit"},
                  sub: Subs \cup {None}, trial: BOOLEAN, paidNow: BOOLEAN, consumed: BOOLEAN]
Notices == [kind: {"completed", "updated", "deleted", "paid"}, sub: Subs, ending: BOOLEAN,
            trialing: BOOLEAN]

\* A subscription that was paid for or tried, and may have ended.
Started == {"trialing", "active", "due", "canceled"}
Begun(s) == stripe[s].at \in Started

\* A plan is of a subscription that was begun, and in a trial only if that was granted.
RowSound(r) ==
    r.sub # None => /\ Begun(r.sub)
                    /\ r.trial \/ stripe[r.sub].at = "trialing" => r.sub \in granted

\* So is a plan about to be committed.
ProvSound(p) ==
    /\ p.at # "idle" => p.sub \in Subs /\ Begun(p.sub)
    /\ p.trial => p.at = "commit" /\ p.sub \in granted
    /\ p.at = "commit" /\ stripe[p.sub].at = "trialing" => p.sub \in granted

PersonOK == account \in [number: 1 .. MaxAccounts, there: BOOLEAN, trialUsed: BOOLEAN]
RowsOK   == row \in [Workspaces -> WorkspaceRows] /\ \A w \in Workspaces : RowSound(row[w])
ProvsOK  == prov \in [Callers -> Provisionings] /\ \A c \in Callers : ProvSound(prov[c])
StripeOK ==
    /\ stripe \in [Subs -> Sessions]
    /\ \A s \in Subs : stripe[s].by # 0 => stripe[s].ws \in Workspaces
    /\ events \subseteq Notices
    /\ \A e \in events : Begun(e.sub)
EndOK ==
    /\ cancel \in [at: {"idle", "downgrade", "mark"}, ws: Workspaces \cup {None}]
    /\ cancel.at # "idle" => cancel.ws \in Workspaces
    /\ leaving \in [at: {"idle", "cancel"}, todo: SUBSET Subs, listed: SUBSET Subs]
PastOK == pending \subseteq Subs /\ late \subseteq Subs /\ missed \subseteq Subs
          /\ astray \subseteq Subs

\* The trial granted is the one claimed.
ClaimOK == claim \in Subs \cup {None, Earlier} /\ granted = {claim} \ {None}

BillingInv == PersonOK /\ RowsOK /\ ProvsOK /\ StripeOK /\ EndOK /\ PastOK /\ ClaimOK

LEMMA Bounds == None \notin Subs /\ None # Earlier /\ MaxAccounts \in Nat /\ MaxAccounts >= 1
BY BillingAssumption

LEMMA BillingInit == Init => BillingInv
<1>.  SUFFICES ASSUME Init PROVE BillingInv
      OBVIOUS
<1>1. PersonOK /\ PastOK /\ ClaimOK
      BY Bounds DEF Init, PersonOK, PastOK, ClaimOK
<1>2. RowsOK
      BY DEF Init, RowsOK, RowSound, WorkspaceRows, NewRow, NoRow
<1>3. StripeOK
      BY Bounds DEF Init, StripeOK, Sessions, Unopened
<1>4. ProvsOK
      BY DEF Init, ProvsOK, ProvSound, Provisionings, Idle
<1>5. EndOK
      BY DEF Init, EndOK, NoCancel, NoDeletion
<1>.  QED BY <1>1, <1>2, <1>3, <1>4, <1>5 DEF BillingInv

-----------------------------------------------------------------------------
(* What becomes of a subscription.                                         *)

\* What has begun stays so, a trial that is over stays over.
Onward ==
    \A s \in Subs :
        Begun(s) => Begun(s)' /\ (stripe'[s].at = "trialing" => stripe[s].at = "trialing")

LEMMA Moves ==
    ASSUME StripeOK, NEW s \in Subs, NEW x \in Sessions, NEW N \in SUBSET Notices,
           stripe' = [stripe EXCEPT ![s] = x], events' \subseteq events \cup N,
           x.by # 0 => x.ws \in Workspaces,
           Begun(s) => x.at \in Started /\ (x.at = "trialing" => stripe[s].at = "trialing"),
           \A e \in N : e.sub = s /\ x.at \in Started
    PROVE  StripeOK' /\ Onward
<1>1. stripe' \in [Subs -> Sessions] /\ stripe'[s] = x
      /\ \A r \in Subs \ {s} : stripe'[r] = stripe[r]
      BY DEF StripeOK
<1>2. events' \subseteq Notices /\ \A e \in Notices : e.sub \in Subs
      BY DEF StripeOK, Notices
<1>3. Onward
      BY <1>1 DEF Onward, Begun
<1>4. \A e \in events' : Begun(e.sub)'
      <2>1. TAKE e \in events'
      <2>2. CASE e \in events
            BY <1>2, <1>3, <2>2 DEF StripeOK, Onward
      <2>3. CASE e \in N
            BY <1>1, <2>3 DEF Begun
      <2>.  QED BY <2>2, <2>3
<1>.  QED BY <1>1, <1>2, <1>3, <1>4 DEF StripeOK

LEMMA Notes ==
    ASSUME NEW s \in Subs
    PROVE  /\ \A k \in {"completed", "deleted", "paid"} :
                 Event(k, s) \in Notices /\ Event(k, s).sub = s
           /\ \A b \in BOOLEAN : Updated(s, b) \in Notices /\ Updated(s, b).sub = s
BY DEF Event, Updated, Notices

\* A step of the status alone.
LEMMA Becoming ==
    ASSUME StripeOK, NEW s \in Subs, NEW at \in {"active", "due", "canceled"},
           NEW N \in SUBSET Notices, \A e \in N : e.sub = s,
           Becomes(s, at), events' \subseteq events \cup N
    PROVE  StripeOK' /\ Onward /\ stripe'[s].at = at
<1>.  DEFINE x == [stripe[s] EXCEPT !.at = at]
<1>1. x \in Sessions /\ x.at = at /\ x.by = stripe[s].by /\ x.ws = stripe[s].ws
      BY DEF StripeOK, Sessions
<1>2. stripe' = [stripe EXCEPT ![s] = x] /\ stripe'[s] = x
      BY DEF Becomes, StripeOK
<1>3. stripe[s].by # 0 => stripe[s].ws \in Workspaces
      BY DEF StripeOK
<1>4. at \in Started /\ at # "trialing"
      BY DEF Started
<1>.  HIDE DEF x
<1>.  QED BY <1>1, <1>2, <1>3, <1>4, Moves

LEMMA Ending ==
    ASSUME StripeOK, NEW s \in Subs, Ends(s)
    PROVE  StripeOK' /\ Onward
<1>.  DEFINE N == {Event("deleted", s)}
<1>1. N \in SUBSET Notices /\ \A e \in N : e.sub = s
      BY Notes
<1>2. Becomes(s, "canceled") /\ events' \subseteq events \cup N
      BY DEF Ends
<1>.  HIDE DEF N
<1>.  QED BY <1>1, <1>2, Becoming

LEMMA Settling ==
    ASSUME StripeOK, NEW s \in Subs, Paying(s)
    PROVE  StripeOK' /\ Onward /\ stripe'[s].at = "active"
<1>.  DEFINE N == {Event("paid", s)}
<1>1. N \in SUBSET Notices /\ \A e \in N : e.sub = s
      BY Notes
<1>2. Becomes(s, "active") /\ events' \subseteq events \cup N
      BY DEF Paying
<1>.  HIDE DEF N
<1>.  QED BY <1>1, <1>2, Becoming

LEMMA Owing ==
    ASSUME StripeOK, NEW s \in Subs, Becomes(s, "due"), UNCHANGED events
    PROVE  StripeOK' /\ Onward /\ stripe'[s].at = "due"
BY Becoming, {} \in SUBSET Notices

LEMMA Resting ==
    ASSUME StripeOK, UNCHANGED stripe, events' \subseteq events
    PROVE  StripeOK' /\ Onward
BY DEF StripeOK, Onward, Begun

LEMMA Ensured ==
    ASSUME StripeOK, NEW s \in Subs, EnsureCanceled(s)
    PROVE  StripeOK' /\ Onward
BY Ending, Resting DEF EnsureCanceled

-----------------------------------------------------------------------------
(* What stays sound.                                                       *)

LEMMA RowKept ==
    ASSUME Onward, granted \subseteq granted', NEW r \in WorkspaceRows, RowSound(r)
    PROVE  RowSound(r)'
BY DEF Onward, RowSound, WorkspaceRows

LEMMA ProvKept ==
    ASSUME Onward, granted \subseteq granted', NEW p \in Provisionings, ProvSound(p)
    PROVE  ProvSound(p)'
BY DEF Onward, ProvSound

\* Rows are left alone or give up what they had.
LEMMA RowsKept ==
    ASSUME RowsOK, Onward, granted \subseteq granted',
           row' \in [Workspaces -> WorkspaceRows],
           \A w \in Workspaces :
               row'[w].sub = None \/ (row'[w].sub = row[w].sub /\ (row'[w].trial => row[w].trial))
    PROVE  RowsOK'
<1>1. ASSUME NEW w \in Workspaces PROVE RowSound(row[w])'
      BY <1>1, RowKept DEF RowsOK, RowSound, Onward, WorkspaceRows
<1>.  QED BY <1>1 DEF RowsOK

LEMMA RowsStay ==
    ASSUME RowsOK, Onward, granted \subseteq granted', UNCHANGED row
    PROVE  RowsOK'
BY RowsKept DEF RowsOK

\* One provisioning goes on.
LEMMA ProvsKept ==
    ASSUME ProvsOK, Onward, granted \subseteq granted', NEW c \in Callers,
           NEW p \in Provisionings, prov' = [prov EXCEPT ![c] = p], ProvSound(p)'
    PROVE  ProvsOK'
<1>1. prov' \in [Callers -> Provisionings]
      BY DEF ProvsOK
<1>2. ASSUME NEW d \in Callers PROVE ProvSound(prov[d])'
      <2>1. CASE d = c
            BY <2>1 DEF ProvsOK, ProvSound, Begun
      <2>2. CASE d # c
            <3>1. prov'[d] = prov[d] /\ prov[d] \in Provisionings /\ ProvSound(prov[d])
                  BY <2>2 DEF ProvsOK
            <3>.  QED BY <3>1, ProvKept DEF ProvSound, Begun, Onward
      <2>.  QED BY <2>1, <2>2
<1>.  QED BY <1>1, <1>2 DEF ProvsOK

LEMMA ProvsStay ==
    ASSUME ProvsOK, Onward, granted \subseteq granted', UNCHANGED prov
    PROVE  ProvsOK'
<1>1. ASSUME NEW c \in Callers PROVE ProvSound(prov[c])'
      BY <1>1, ProvKept DEF ProvsOK, ProvSound, Begun, Onward
<1>.  QED BY <1>1 DEF ProvsOK

LEMMA GivenUp ==
    ASSUME ProvsOK, Onward, granted \subseteq granted', NEW c \in Callers, GiveUp(c)
    PROVE  ProvsOK'
<1>1. Idle \in Provisionings /\ ProvSound(Idle)'
      BY DEF Idle, Provisionings, ProvSound
<1>.  QED BY <1>1, ProvsKept DEF GiveUp

LEMMA Answering ==
    ASSUME StripeOK, ProvsOK, UNCHANGED <<stripe, granted>>, NEW c \in Callers, NEW s \in Subs,
           Answer(c, s)
    PROVE  ProvsOK' /\ StripeOK' /\ Onward
BY Resting, GivenUp DEF Answer, GiveUp, Mishap

-----------------------------------------------------------------------------
(* Stripe and the person.                                                  *)

LEMMA CompleteCheckoutStep ==
    ASSUME BillingInv, NEW s \in Subs, CompleteCheckout(s)
    PROVE  BillingInv'
<1>.  DEFINE x == IF stripe[s].at = "offering"
                  THEN [stripe[s] EXCEPT !.at = "trialing", !.trialed = TRUE]
                  ELSE [stripe[s] EXCEPT !.at = "active"]
             N == {Event("completed", s), Event("paid", s)}
<1>1. stripe' = [stripe EXCEPT ![s] = x] /\ events' \subseteq events \cup N
      BY DEF CompleteCheckout, Becomes, BillingInv, StripeOK
<1>2. x \in Sessions /\ x.at \in Started /\ x.by = stripe[s].by /\ x.ws = stripe[s].ws
      BY DEF BillingInv, StripeOK, Sessions, Started
<1>3. ~Begun(s)
      BY DEF CompleteCheckout, Begun, Started
<1>4. N \in SUBSET Notices /\ \A e \in N : e.sub = s
      BY Notes
<1>5. StripeOK' /\ Onward
      <2>.  HIDE DEF x, N
      <2>1. stripe[s].by # 0 => stripe[s].ws \in Workspaces
            BY DEF BillingInv, StripeOK
      <2>.  QED BY <1>1, <1>2, <1>3, <1>4, <2>1, Moves DEF BillingInv
<1>6. RowsOK' /\ ProvsOK'
      BY <1>5, RowsStay, ProvsStay DEF CompleteCheckout, history, BillingInv
<1>.  QED BY <1>5, <1>6 DEF CompleteCheckout, history, BillingInv, PersonOK, EndOK, PastOK, ClaimOK

LEMMA TrialEndsStep ==
    ASSUME BillingInv, NEW s \in Subs, TrialEnds(s)
    PROVE  BillingInv'
<1>1. StripeOK' /\ Onward
      BY Ending, Settling, Owing DEF TrialEnds, BillingInv
<1>2. row' \in [Workspaces -> WorkspaceRows]
      /\ \A w \in Workspaces : row'[w].sub = row[w].sub /\ (row'[w].trial => row[w].trial)
      BY DEF TrialEnds, BillingInv, RowsOK, WorkspaceRows
<1>3. RowsOK'
      BY <1>1, <1>2, RowsKept DEF TrialEnds, history, BillingInv
<1>4. ASSUME NEW c \in Callers
      PROVE  prov'[c] \in Provisionings /\ ProvSound(prov[c])'
      <2>1. CASE prov[c].sub = s
            <3>.  DEFINE p == [prov[c] EXCEPT !.trial = FALSE]
            <3>1. p \in Provisionings /\ ProvSound(p)
                  <4>1. prov[c] \in Provisionings /\ ProvSound(prov[c])
                        BY DEF BillingInv, ProvsOK
                  <4>.  QED BY <4>1 DEF Provisionings, ProvSound
            <3>2. prov'[c] = p
                  BY <2>1 DEF TrialEnds
            <3>.  HIDE DEF p
            <3>3. granted \subseteq granted'
                  BY DEF TrialEnds, history
            <3>.  QED BY <1>1, <3>1, <3>2, <3>3, ProvKept DEF ProvSound, Begun
      <2>2. CASE prov[c].sub # s
            <3>1. prov'[c] = prov[c] /\ prov[c] \in Provisionings /\ ProvSound(prov[c])
                  BY <2>2 DEF TrialEnds, BillingInv, ProvsOK
            <3>.  QED BY <1>1, <3>1, ProvKept DEF ProvSound, Begun, Onward, TrialEnds, history
      <2>.  QED BY <2>1, <2>2
<1>5. ProvsOK'
      BY <1>4 DEF TrialEnds, ProvsOK
<1>.  QED BY <1>1, <1>3, <1>5
      DEF TrialEnds, history, BillingInv, PersonOK, EndOK, PastOK, ClaimOK

LEMMA PeriodEndsStep ==
    ASSUME BillingInv, NEW s \in Subs, PeriodEnds(s)
    PROVE  BillingInv'
<1>1. StripeOK' /\ Onward
      BY Ending, Settling DEF PeriodEnds, BillingInv
<1>2. RowsOK' /\ ProvsOK'
      BY <1>1, RowsStay, ProvsStay DEF PeriodEnds, history, BillingInv
<1>.  QED BY <1>1, <1>2 DEF PeriodEnds, history, BillingInv, PersonOK, EndOK, PastOK, ClaimOK

\* The portal and the cancellation by hand: the end is set, or taken back.
Marks(s, b) ==
    /\ Live(s)
    /\ stripe' = [stripe EXCEPT ![s].ending = b]
    /\ events' = events \cup {Updated(s, b)}

LEMMA Marking ==
    ASSUME StripeOK, NEW s \in Subs, NEW b \in BOOLEAN, Marks(s, b)
    PROVE  StripeOK' /\ Onward
<1>.  DEFINE x == [stripe[s] EXCEPT !.ending = b]
             N == {Updated(s, b)}
<1>1. x \in Sessions /\ x.at = stripe[s].at /\ x.by = stripe[s].by /\ x.ws = stripe[s].ws
      BY DEF StripeOK, Sessions
<1>2. stripe' = [stripe EXCEPT ![s] = x] /\ events' \subseteq events \cup N
      BY DEF StripeOK, Marks
<1>3. N \in SUBSET Notices /\ \A e \in N : e.sub = s
      BY Notes
<1>4. /\ x.at \in Started /\ (x.at = "trialing" => stripe[s].at = "trialing")
      /\ x.by # 0 => x.ws \in Workspaces
      BY <1>1 DEF Marks, Live, Started, StripeOK
<1>.  HIDE DEF x, N
<1>.  QED BY <1>1, <1>2, <1>3, <1>4, Moves

LEMMA PortalStep ==
    ASSUME BillingInv, NEW s \in Subs, Portal(s)
    PROVE  BillingInv'
<1>1. StripeOK' /\ Onward
      <2>1. (~stripe[s].ending) \in BOOLEAN
            OBVIOUS
      <2>2. Marks(s, ~stripe[s].ending)
            BY DEF Portal, Marks
      <2>.  QED BY <2>1, <2>2, Marking DEF BillingInv
<1>2. RowsOK' /\ ProvsOK'
      BY <1>1, RowsStay, ProvsStay DEF Portal, history, BillingInv
<1>.  QED BY <1>1, <1>2 DEF Portal, history, BillingInv, PersonOK, EndOK, PastOK, ClaimOK

LEMMA RegisterStep ==
    ASSUME BillingInv, Register
    PROVE  BillingInv'
<1>1. StripeOK' /\ Onward
      BY Resting DEF Register, BillingInv
<1>2. RowsOK'
      BY <1>1, RowsKept DEF Register, NewRow, NoRow, WorkspaceRows, history, BillingInv
<1>3. ProvsOK'
      BY <1>1, ProvsStay DEF Register, history, BillingInv
<1>4. PersonOK'
      BY Bounds DEF Register, BillingInv, PersonOK
<1>.  QED BY <1>1, <1>2, <1>3, <1>4 DEF Register, history, BillingInv, EndOK, PastOK, ClaimOK

LEMMA OpenCheckoutStep ==
    ASSUME BillingInv, NEW s \in Subs, NEW w \in Workspaces, OpenCheckout(s, w)
    PROVE  BillingInv'
<1>.  DEFINE x == [Unopened EXCEPT !.at = IF ~account.trialUsed /\ claim = None
                                          THEN "offering" ELSE "open",
                                   !.by = account.number, !.ws = w]
<1>1. x \in Sessions /\ x.ws \in Workspaces
      <2>1. account.number \in 0 .. MaxAccounts
            BY Bounds DEF BillingInv, PersonOK
      <2>.  QED BY <2>1 DEF Unopened, Sessions
<1>2. stripe' = [stripe EXCEPT ![s] = x] /\ ~Begun(s) /\ events' \subseteq events \cup {}
      BY DEF OpenCheckout, Begun, Started
<1>3. StripeOK' /\ Onward
      <2>.  HIDE DEF x
      <2>.  QED BY <1>1, <1>2, Moves, {} \in SUBSET Notices DEF BillingInv
<1>4. RowsOK' /\ ProvsOK'
      BY <1>3, RowsStay, ProvsStay DEF OpenCheckout, history, BillingInv
<1>.  QED BY <1>3, <1>4 DEF OpenCheckout, history, BillingInv, PersonOK, EndOK, PastOK, ClaimOK

-----------------------------------------------------------------------------
(* Provisioning.                                                           *)

\* The caller is at its next step.
LEMMA Stepping ==
    ASSUME BillingInv, UNCHANGED <<stripe, events, granted>>, NEW c \in Callers, NEW s \in Subs,
           Begun(s), NEW step \in {"retrieve", "claim", "strip"}, At(c, s, step)
    PROVE  ProvsOK' /\ StripeOK' /\ Onward
<1>.  DEFINE p == [Idle EXCEPT !.at = step, !.sub = s]
<1>1. StripeOK' /\ Onward
      BY Resting DEF BillingInv
<1>2. p \in Provisionings /\ ProvSound(p)'
      BY DEF Idle, Provisionings, ProvSound, Begun
<1>3. prov' = [prov EXCEPT ![c] = p]
      BY DEF At
<1>.  HIDE DEF p
<1>.  QED BY <1>1, <1>2, <1>3, ProvsKept DEF BillingInv

LEMMA ProvisionStep ==
    ASSUME BillingInv, NEW s \in Subs, NEW c \in Callers, ProvisionFromCheckoutSession(c, s)
    PROVE  BillingInv'
<1>1. Begun(s)
      <2>1. CASE Event("completed", s) \in events
            BY <2>1, Notes DEF BillingInv, StripeOK
      <2>2. CASE stripe[s].at \notin {"none", "offering", "open"}
            BY <2>2 DEF Begun, Started, BillingInv, StripeOK, Sessions
      <2>.  QED BY <2>1, <2>2 DEF ProvisionFromCheckoutSession
<1>2. UNCHANGED <<stripe, granted>>
      /\ (Answer(c, s) \/ (At(c, s, "retrieve") /\ UNCHANGED events))
      BY DEF ProvisionFromCheckoutSession, history
<1>3. ProvsOK' /\ StripeOK' /\ Onward
      BY <1>1, <1>2, Answering, Stepping DEF BillingInv
<1>4. RowsOK'
      BY <1>3, RowsStay DEF ProvisionFromCheckoutSession, history, BillingInv
<1>5. PastOK'
      BY DEF ProvisionFromCheckoutSession, history, BillingInv, PastOK
<1>.  QED BY <1>3, <1>4, <1>5
      DEF ProvisionFromCheckoutSession, history, BillingInv, PersonOK, EndOK, ClaimOK

LEMMA RetrieveStep ==
    ASSUME BillingInv, NEW c \in Callers, RetrieveSubscription(c)
    PROVE  BillingInv'
<1>1. PICK s \in Subs : s = prov[c].sub /\ Begun(s)
      BY DEF RetrieveSubscription, BillingInv, ProvsOK, ProvSound
<1>.  DEFINE P == [prov[c] EXCEPT !.at = "commit",
                                  !.paidNow = ~stripe[s].trialed /\ stripe[s].at = "active"]
<1>2. UNCHANGED <<stripe, granted, row>>
      BY DEF RetrieveSubscription, history
<1>3. \/ Answer(c, s)
      \/ At(c, s, "claim") /\ UNCHANGED events
      \/ stripe[s].at # "trialing" /\ prov' = [prov EXCEPT ![c] = P] /\ UNCHANGED events
      BY <1>1 DEF RetrieveSubscription
<1>4. ASSUME stripe[s].at # "trialing", prov' = [prov EXCEPT ![c] = P], UNCHANGED events
      PROVE  ProvsOK' /\ StripeOK' /\ Onward
      <2>.  P \in Provisionings /\ P.at = "commit" /\ P.sub = s /\ P.trial = prov[c].trial
            BY <1>1 DEF BillingInv, ProvsOK, Provisionings
      <2>1. PICK p \in Provisionings :
                p = P /\ p.at = "commit" /\ p.sub = s /\ p.trial = prov[c].trial
            OBVIOUS
      <2>2. ~prov[c].trial
            BY DEF BillingInv, ProvsOK, ProvSound, RetrieveSubscription
      <2>3. StripeOK' /\ Onward
            BY <1>2, <1>4, Resting DEF BillingInv
      <2>.  HIDE DEF P
      <2>4. ProvSound(p)'
            BY <1>1, <1>2, <1>4, <2>1, <2>2 DEF ProvSound, Begun
      <2>.  QED BY <1>2, <1>4, <2>1, <2>3, <2>4, ProvsKept DEF BillingInv
<1>5. ProvsOK' /\ StripeOK' /\ Onward
      <2>.  HIDE DEF P
      <2>.  QED BY <1>1, <1>2, <1>3, <1>4, Answering, Stepping DEF BillingInv
<1>6. RowsOK'
      BY <1>2, <1>5, RowsStay DEF BillingInv
<1>.  QED BY <1>5, <1>6
      DEF RetrieveSubscription, history, BillingInv, PersonOK, EndOK, PastOK, ClaimOK

LEMMA ClaimStep ==
    ASSUME BillingInv, NEW c \in Callers, ClaimTrial(c)
    PROVE  BillingInv'
<1>1. PICK s \in Subs : s = prov[c].sub /\ Begun(s)
      BY DEF ClaimTrial, BillingInv, ProvsOK, ProvSound
<1>2. StripeOK' /\ Onward
      BY Resting DEF ClaimTrial, BillingInv
<1>3. ClaimOK' /\ granted \subseteq granted' /\ (claim \in {None, s} => s \in granted')
      BY <1>1, Bounds DEF ClaimTrial, BillingInv, ClaimOK
<1>4. ProvsOK'
      <2>1. CASE claim \in {None, s}
            <3>.  DEFINE P == [prov[c] EXCEPT !.at = "commit", !.trial = TRUE,
                                              !.consumed = TRUE]
            <3>.  P \in Provisionings /\ P.at = "commit" /\ P.sub = s
                  BY <1>1 DEF BillingInv, ProvsOK, Provisionings
            <3>1. PICK p \in Provisionings : p = P /\ p.at = "commit" /\ p.sub = s
                  OBVIOUS
            <3>2. prov' = [prov EXCEPT ![c] = p]
                  BY <1>1, <2>1, <3>1 DEF ClaimTrial
            <3>3. ProvSound(p)'
                  BY <1>1, <1>2, <1>3, <2>1, <3>1 DEF ProvSound, Onward
            <3>.  QED BY <1>2, <1>3, <3>1, <3>2, <3>3, ProvsKept DEF BillingInv
      <2>2. CASE claim \notin {None, s}
            <3>1. At(c, s, "strip") /\ UNCHANGED <<stripe, events, granted>>
                  BY <1>1, <2>2 DEF ClaimTrial
            <3>.  QED BY <1>1, <3>1, Stepping
      <2>.  QED BY <2>1, <2>2
<1>5. RowsOK'
      BY <1>2, <1>3, RowsStay DEF ClaimTrial, BillingInv
<1>.  QED BY <1>2, <1>3, <1>4, <1>5 DEF ClaimTrial, BillingInv, PersonOK, EndOK, PastOK

LEMMA StripStep ==
    ASSUME BillingInv, NEW c \in Callers, StripTrial(c)
    PROVE  BillingInv'
<1>1. PICK s \in Subs : s = prov[c].sub /\ Begun(s) /\ ~prov[c].trial
      BY DEF StripTrial, BillingInv, ProvsOK, ProvSound
<1>.  DEFINE Paid == [prov[c] EXCEPT !.at = "commit", !.paidNow = TRUE, !.consumed = TRUE]
             Owed == [prov[c] EXCEPT !.at = "drop"]
<1>.  /\ Paid \in Provisionings /\ Paid.at = "commit" /\ Paid.sub = s
      /\ Paid.trial = prov[c].trial
      BY <1>1 DEF BillingInv, ProvsOK, Provisionings
<1>.  /\ Owed \in Provisionings /\ Owed.at = "drop" /\ Owed.sub = s
      /\ Owed.trial = prov[c].trial
      BY <1>1 DEF BillingInv, ProvsOK, Provisionings
<1>2. PICK paid \in Provisionings :
          paid = Paid /\ paid.at = "commit" /\ paid.sub = s /\ paid.trial = prov[c].trial
      OBVIOUS
<1>3. PICK owed \in Provisionings :
          owed = Owed /\ owed.at = "drop" /\ owed.sub = s /\ owed.trial = prov[c].trial
      OBVIOUS
<1>4. \/ Paying(s) /\ prov' = [prov EXCEPT ![c] = paid]
      \/ Becomes(s, "due") /\ UNCHANGED events /\ prov' = [prov EXCEPT ![c] = owed]
      \/ /\ UNCHANGED <<stripe, events>>
         /\ \/ stripe[s].at = "active" /\ prov' = [prov EXCEPT ![c] = paid]
            \/ prov' = [prov EXCEPT ![c] = owed]
      BY <1>1, <1>2, <1>3 DEF StripTrial
<1>.  HIDE DEF Paid, Owed
<1>5. UNCHANGED <<granted, row>>
      BY DEF StripTrial, history
<1>6. StripeOK' /\ Onward
      BY <1>1, <1>4, Settling, Owing, Resting DEF BillingInv
<1>7. \/ stripe'[s].at = "active" /\ prov' = [prov EXCEPT ![c] = paid]
      \/ prov' = [prov EXCEPT ![c] = owed]
      BY <1>1, <1>4, Settling DEF BillingInv
<1>8. Begun(s)'
      BY <1>1, <1>6 DEF Onward
<1>9. ProvsOK'
      <2>1. CASE stripe'[s].at = "active" /\ prov' = [prov EXCEPT ![c] = paid]
            <3>1. ProvSound(paid)'
                  BY <1>1, <1>2, <1>8, <2>1 DEF ProvSound
            <3>.  QED BY <1>2, <1>5, <1>6, <2>1, <3>1, ProvsKept DEF BillingInv
      <2>2. CASE prov' = [prov EXCEPT ![c] = owed]
            <3>1. ProvSound(owed)'
                  BY <1>1, <1>3, <1>8 DEF ProvSound
            <3>.  QED BY <1>3, <1>5, <1>6, <2>2, <3>1, ProvsKept DEF BillingInv
      <2>.  QED BY <1>7, <2>1, <2>2
<1>10. RowsOK'
      BY <1>5, <1>6, RowsStay DEF BillingInv
<1>.  QED BY <1>6, <1>9, <1>10
      DEF StripTrial, history, BillingInv, PersonOK, EndOK, PastOK, ClaimOK

\* A subscription that was not paid is canceled, and the caller is done.
LEMMA DropStep ==
    ASSUME BillingInv, NEW c \in Callers, DropUnpaid(c)
    PROVE  BillingInv'
<1>1. PICK s \in Subs : s = prov[c].sub /\ Begun(s)
      BY DEF DropUnpaid, BillingInv, ProvsOK, ProvSound
<1>2. UNCHANGED <<granted, row>> /\ GiveUp(c)
      BY DEF DropUnpaid, GiveUp, history
<1>3. StripeOK' /\ Onward
      <2>1. CASE stripe[s].at = "canceled"
            BY <1>1, <2>1, Resting DEF DropUnpaid, BillingInv
      <2>2. CASE stripe[s].at # "canceled"
            <3>1. {Event("deleted", s)} \in SUBSET Notices /\ Event("deleted", s).sub = s
                  BY Notes
            <3>2. Becomes(s, "canceled") /\ events' \subseteq events \cup {Event("deleted", s)}
                  BY <1>1, <2>2 DEF DropUnpaid
            <3>.  QED BY <3>1, <3>2, Becoming DEF BillingInv
      <2>.  QED BY <2>1, <2>2
<1>4. ProvsOK' /\ RowsOK'
      BY <1>2, <1>3, GivenUp, RowsStay DEF BillingInv
<1>.  QED BY <1>3, <1>4 DEF DropUnpaid, history, BillingInv, PersonOK, EndOK, PastOK, ClaimOK

LEMMA CommitStep ==
    ASSUME BillingInv, NEW c \in Callers, CommitProvision(c)
    PROVE  BillingInv'
<1>1. PICK s \in Subs : s = prov[c].sub /\ Begun(s)
      BY DEF CommitProvision, BillingInv, ProvsOK, ProvSound
<1>2. UNCHANGED <<stripe, granted, claim, cancel, leaving, pending, missed>>
      BY DEF CommitProvision
<1>3. CASE ~RowOf(s)
      <2>1. GiveUp(c) /\ UNCHANGED <<account, row, events, late, astray>>
            BY <1>1, <1>3 DEF CommitProvision
      <2>2. StripeOK' /\ Onward
            BY <1>2, <2>1, Resting DEF BillingInv
      <2>3. ProvsOK' /\ RowsOK'
            BY <1>2, <2>1, <2>2, GivenUp, RowsStay DEF BillingInv
      <2>.  QED BY <1>2, <2>1, <2>2, <2>3 DEF BillingInv, PersonOK, EndOK, PastOK, ClaimOK
<1>4. CASE RowOf(s)
      <2>1. PICK w \in Workspaces : w = stripe[s].ws
            <3>1. stripe[s].by # 0
                  BY <1>4, Bounds DEF RowOf, UserOf, BillingInv, PersonOK
            <3>.  QED BY <3>1 DEF BillingInv, StripeOK
      <2>.  DEFINE R == [row[w] EXCEPT !.paidPlan = TRUE, !.sub = s, !.trial = prov[c].trial,
                                       !.ending = FALSE,
                                       !.paid = row[w].paid \/ prov[c].paidNow]
      <2>2. row' = [row EXCEPT ![w] = R] /\ Answer(c, s)
            BY <1>1, <1>4, <2>1 DEF CommitProvision
      <2>3. PICK r \in WorkspaceRows : r = R /\ r.sub = s /\ r.trial = prov[c].trial
            <3>1. row[w] \in WorkspaceRows /\ prov[c] \in Provisionings
                  BY DEF BillingInv, RowsOK, ProvsOK
            <3>2. prov[c].trial \in BOOLEAN /\ prov[c].paidNow \in BOOLEAN
                  BY <3>1 DEF Provisionings
            <3>3. R \in WorkspaceRows /\ R.sub = s /\ R.trial = prov[c].trial
                  BY <3>1, <3>2 DEF WorkspaceRows
            <3>.  QED BY <3>3
      <2>.  HIDE DEF R
      <2>4. StripeOK' /\ Onward /\ ProvsOK'
            BY <1>2, <2>2, Answering DEF BillingInv
      <2>5. RowSound(r)'
            BY <1>1, <1>2, <2>3
            DEF RowSound, Begun, CommitProvision, BillingInv, ProvsOK, ProvSound
      <2>6. RowsOK'
            <3>1. row' \in [Workspaces -> WorkspaceRows] /\ row'[w] = r
                  BY <2>2, <2>3 DEF BillingInv, RowsOK
            <3>2. ASSUME NEW v \in Workspaces PROVE RowSound(row[v])'
                  <4>1. CASE v = w
                        BY <2>5, <3>1, <4>1 DEF RowSound, Begun
                  <4>2. CASE v # w
                        <5>1. row'[v] = row[v] /\ row[v] \in WorkspaceRows /\ RowSound(row[v])
                              BY <2>2, <4>2 DEF BillingInv, RowsOK
                        <5>.  QED BY <1>2, <5>1 DEF RowSound, Begun
                  <4>.  QED BY <4>1, <4>2
            <3>.  QED BY <3>1, <3>2 DEF RowsOK
      <2>7. PersonOK'
            BY <1>1, <1>4 DEF CommitProvision, BillingInv, PersonOK
      <2>8. late' \subseteq late \cup {s} /\ astray' \subseteq astray \cup ({row[w].sub} \ {None})
            BY <1>1, <1>4, <2>1 DEF CommitProvision
      <2>9. row[w].sub \in Subs \cup {None}
            BY DEF BillingInv, RowsOK, WorkspaceRows
      <2>10. PastOK'
            BY <1>2, <2>8, <2>9 DEF BillingInv, PastOK
      <2>.  QED BY <1>2, <2>4, <2>6, <2>7, <2>10 DEF BillingInv, EndOK, ClaimOK
<1>.  QED BY <1>3, <1>4

LEMMA FailStep ==
    ASSUME BillingInv, NEW c \in Callers, ProvisionFails(c)
    PROVE  BillingInv'
<1>1. StripeOK' /\ Onward
      BY Resting DEF ProvisionFails, BillingInv
<1>2. ProvsOK' /\ RowsOK'
      BY <1>1, GivenUp, RowsStay DEF ProvisionFails, history, BillingInv
<1>.  QED BY <1>1, <1>2 DEF ProvisionFails, history, BillingInv, PersonOK, EndOK, PastOK, ClaimOK

-----------------------------------------------------------------------------
(* Events and endings.                                                     *)

LEMMA Downgrading ==
    ASSUME BillingInv, StripeOK', Onward, granted \subseteq granted', NEW w \in Workspaces,
           Downgrade(w)
    PROVE  RowsOK' /\ astray' \subseteq Subs
<1>1. row' \in [Workspaces -> WorkspaceRows]
      /\ \A v \in Workspaces : row'[v].sub = None \/ row'[v] = row[v]
      BY DEF Downgrade, Free, BillingInv, RowsOK, WorkspaceRows
<1>.  QED BY <1>1, RowsKept DEF Downgrade, BillingInv, PastOK

\* A field that no invariant is about.
LEMMA Noting ==
    ASSUME BillingInv, Onward, granted \subseteq granted', NEW w \in Workspaces,
           NEW r \in WorkspaceRows, row' = [row EXCEPT ![w] = r], r.sub = row[w].sub,
           r.trial = row[w].trial
    PROVE  RowsOK'
<1>1. row' \in [Workspaces -> WorkspaceRows]
      /\ \A v \in Workspaces : row'[v].sub = row[v].sub /\ row'[v].trial = row[v].trial
      BY DEF BillingInv, RowsOK
<1>.  QED BY <1>1, RowsKept DEF BillingInv

LEMMA NotingEnding ==
    ASSUME BillingInv, Onward, granted \subseteq granted', NEW w \in Workspaces,
           NEW b \in BOOLEAN, row' = [row EXCEPT ![w].ending = b]
    PROVE  RowsOK'
<1>.  DEFINE r == [row[w] EXCEPT !.ending = b]
<1>1. r \in WorkspaceRows /\ r.sub = row[w].sub /\ r.trial = row[w].trial
      BY DEF BillingInv, RowsOK, WorkspaceRows
<1>2. row' = [row EXCEPT ![w] = r]
      BY DEF BillingInv, RowsOK
<1>.  HIDE DEF r
<1>.  QED BY <1>1, <1>2, Noting

LEMMA NotingPaid ==
    ASSUME BillingInv, Onward, granted \subseteq granted', NEW w \in Workspaces,
           row' = [row EXCEPT ![w].paid = TRUE]
    PROVE  RowsOK'
<1>.  DEFINE r == [row[w] EXCEPT !.paid = TRUE]
<1>1. r \in WorkspaceRows /\ r.sub = row[w].sub /\ r.trial = row[w].trial
      BY DEF BillingInv, RowsOK, WorkspaceRows
<1>2. row' = [row EXCEPT ![w] = r]
      BY DEF BillingInv, RowsOK
<1>.  HIDE DEF r
<1>.  QED BY <1>1, <1>2, Noting

LEMMA UpdatedStep ==
    ASSUME BillingInv, NEW e \in events, HandleSubscriptionUpdated(e)
    PROVE  BillingInv'
<1>1. UNCHANGED <<account, stripe, claim, prov, cancel, leaving, pending, granted, late, missed>>
      /\ events' \subseteq events
      BY DEF HandleSubscriptionUpdated, Answered
<1>2. StripeOK' /\ Onward
      BY <1>1, Resting DEF BillingInv
<1>3. e.ending \in BOOLEAN
      BY DEF BillingInv, StripeOK, Notices
<1>4. \/ UNCHANGED <<row, astray>>
      \/ \E w \in Workspaces : \/ Downgrade(w)
                               \/ row' = [row EXCEPT ![w].ending = e.ending] /\ UNCHANGED astray
      BY DEF HandleSubscriptionUpdated
<1>5. RowsOK' /\ astray' \subseteq Subs
      <2>1. CASE UNCHANGED <<row, astray>>
            BY <1>1, <1>2, <2>1, RowsStay DEF BillingInv, PastOK
      <2>2. ASSUME NEW w \in Workspaces, Downgrade(w) PROVE RowsOK' /\ astray' \subseteq Subs
            BY <1>1, <1>2, <2>2, Downgrading
      <2>3. ASSUME NEW w \in Workspaces, row' = [row EXCEPT ![w].ending = e.ending],
                   UNCHANGED astray
            PROVE  RowsOK' /\ astray' \subseteq Subs
            BY <1>1, <1>2, <1>3, <2>3, NotingEnding DEF BillingInv, PastOK
      <2>.  QED BY <1>4, <2>1, <2>2, <2>3
<1>6. ProvsOK'
      BY <1>1, <1>2, ProvsStay DEF BillingInv
<1>.  QED BY <1>1, <1>2, <1>5, <1>6 DEF BillingInv, PersonOK, EndOK, PastOK, ClaimOK

LEMMA DeletedStep ==
    ASSUME BillingInv, NEW e \in events, HandleSubscriptionDeleted(e)
    PROVE  BillingInv'
<1>1. UNCHANGED <<account, stripe, claim, prov, cancel, leaving, pending, granted, late, missed>>
      /\ events' \subseteq events
      BY DEF HandleSubscriptionDeleted, Answered
<1>2. StripeOK' /\ Onward
      BY <1>1, Resting DEF BillingInv
<1>3. UNCHANGED <<row, astray>> \/ \E w \in Workspaces : Downgrade(w)
      BY DEF HandleSubscriptionDeleted
<1>4. RowsOK' /\ astray' \subseteq Subs
      BY <1>1, <1>2, <1>3, RowsStay, Downgrading DEF BillingInv, PastOK
<1>5. ProvsOK'
      BY <1>1, <1>2, ProvsStay DEF BillingInv
<1>.  QED BY <1>1, <1>2, <1>4, <1>5 DEF BillingInv, PersonOK, EndOK, PastOK, ClaimOK

LEMMA PaidStep ==
    ASSUME BillingInv, NEW e \in events, HandlePaymentSucceeded(e)
    PROVE  BillingInv'
<1>1. UNCHANGED <<account, stripe, claim, prov, cancel, leaving, pending, granted, late, astray>>
      /\ events' \subseteq events
      BY DEF HandlePaymentSucceeded, Answered
<1>2. StripeOK' /\ Onward
      BY <1>1, Resting DEF BillingInv
<1>3. e.sub \in Subs
      BY DEF BillingInv, StripeOK, Notices
<1>4. \/ missed' \subseteq missed \cup {e.sub} /\ UNCHANGED row
      \/ UNCHANGED missed /\ \E w \in Workspaces : row' = [row EXCEPT ![w].paid = TRUE]
      BY DEF HandlePaymentSucceeded
<1>5. RowsOK' /\ missed' \subseteq Subs
      BY <1>1, <1>2, <1>3, <1>4, RowsStay, NotingPaid DEF BillingInv, PastOK
<1>6. ProvsOK'
      BY <1>1, <1>2, ProvsStay DEF BillingInv
<1>.  QED BY <1>1, <1>2, <1>5, <1>6 DEF BillingInv, PersonOK, EndOK, PastOK, ClaimOK

LEMMA AssembleStep ==
    ASSUME BillingInv, NEW w \in Workspaces, AssembleBillingState(w)
    PROVE  BillingInv'
<1>1. UNCHANGED <<account, stripe, events, claim, prov, cancel, leaving, pending, granted,
                  late, missed>>
      BY DEF AssembleBillingState
<1>2. StripeOK' /\ Onward
      BY <1>1, Resting DEF BillingInv
<1>.  DEFINE b == row[w].ending \/ stripe[row[w].sub].ending
<1>3. Downgrade(w) \/ (row' = [row EXCEPT ![w].ending = b] /\ UNCHANGED astray)
      BY DEF AssembleBillingState
<1>4. b \in BOOLEAN
      OBVIOUS
<1>5. RowsOK' /\ astray' \subseteq Subs
      <2>.  HIDE DEF b
      <2>.  QED BY <1>1, <1>2, <1>3, <1>4, Downgrading, NotingEnding DEF BillingInv, PastOK
<1>6. ProvsOK'
      BY <1>1, <1>2, ProvsStay DEF BillingInv
<1>.  QED BY <1>1, <1>2, <1>5, <1>6 DEF BillingInv, PersonOK, EndOK, PastOK, ClaimOK

LEMMA CancelStep ==
    ASSUME BillingInv, NEW w \in Workspaces, CancelSubscription(w)
    PROVE  BillingInv'
<1>1. UNCHANGED <<account, row, claim, prov, leaving, pending, granted, late, missed, astray>>
      BY DEF CancelSubscription, history
<1>2. PICK s \in Subs : s = row[w].sub /\ Live(s)
      BY DEF CancelSubscription, BillingInv, RowsOK, WorkspaceRows
<1>3. /\ \/ Ends(s)
         \/ Marks(s, TRUE)
      /\ \E at \in {"downgrade", "mark"} : cancel' = [at |-> at, ws |-> w]
      BY <1>2 DEF CancelSubscription, Marks
<1>4. StripeOK' /\ Onward
      BY <1>2, <1>3, Ending, Marking DEF BillingInv
<1>5. RowsOK' /\ ProvsOK'
      BY <1>1, <1>4, RowsStay, ProvsStay DEF BillingInv
<1>6. EndOK'
      BY <1>1, <1>3 DEF BillingInv, EndOK
<1>.  QED BY <1>1, <1>4, <1>5, <1>6 DEF BillingInv, PersonOK, PastOK, ClaimOK

LEMMA RecordedStep ==
    ASSUME BillingInv, CancellationRecorded
    PROVE  BillingInv'
<1>1. UNCHANGED <<account, stripe, events, claim, prov, leaving, pending, granted, late, missed>>
      /\ cancel' = NoCancel
      BY DEF CancellationRecorded
<1>2. StripeOK' /\ Onward
      BY <1>1, Resting DEF BillingInv
<1>3. PICK w \in Workspaces : w = cancel.ws
      BY DEF CancellationRecorded, BillingInv, EndOK
<1>4. \/ UNCHANGED <<row, astray>>
      \/ Downgrade(w)
      \/ row' = [row EXCEPT ![w].ending = TRUE] /\ UNCHANGED astray
      BY <1>3 DEF CancellationRecorded
<1>5. RowsOK' /\ astray' \subseteq Subs
      BY <1>1, <1>2, <1>4, RowsStay, Downgrading, NotingEnding DEF BillingInv, PastOK
<1>6. ProvsOK' /\ EndOK'
      BY <1>1, <1>2, ProvsStay DEF BillingInv, EndOK, NoCancel
<1>.  QED BY <1>1, <1>2, <1>5, <1>6 DEF BillingInv, PersonOK, PastOK, ClaimOK

LEMMA LostStep ==
    ASSUME BillingInv, CancellationLost \/ DeletionLost
    PROVE  BillingInv'
<1>1. UNCHANGED <<account, row, stripe, events, claim, prov, pending, granted, late, missed,
                  astray>>
      BY DEF CancellationLost, DeletionLost, history
<1>2. StripeOK' /\ Onward
      BY <1>1, Resting DEF BillingInv
<1>3. RowsOK' /\ ProvsOK'
      BY <1>1, <1>2, RowsStay, ProvsStay DEF BillingInv
<1>4. EndOK'
      BY DEF CancellationLost, DeletionLost, NoCancel, NoDeletion, BillingInv, EndOK
<1>.  QED BY <1>1, <1>2, <1>3, <1>4 DEF BillingInv, PersonOK, PastOK, ClaimOK

LEMMA DeleteWorkspaceStep ==
    ASSUME BillingInv, NEW w \in Workspaces, DeleteWorkspace(w)
    PROVE  BillingInv'
<1>1. StripeOK' /\ Onward
      BY Resting DEF DeleteWorkspace, BillingInv
<1>2. row' \in [Workspaces -> WorkspaceRows]
      /\ \A v \in Workspaces : row'[v].sub = None \/ row'[v] = row[v]
      BY DEF DeleteWorkspace, NoRow, BillingInv, RowsOK, WorkspaceRows
<1>3. RowsOK' /\ ProvsOK'
      BY <1>1, <1>2, RowsKept, ProvsStay DEF DeleteWorkspace, BillingInv
<1>4. PastOK'
      BY DEF DeleteWorkspace, BillingInv, PastOK
<1>.  QED BY <1>1, <1>3, <1>4 DEF DeleteWorkspace, BillingInv, PersonOK, EndOK, ClaimOK

LEMMA DeleteAccountStep ==
    ASSUME BillingInv, DeleteAccount
    PROVE  BillingInv'
<1>1. StripeOK' /\ Onward
      BY Resting DEF DeleteAccount, BillingInv
<1>2. RowsOK' /\ ProvsOK'
      BY <1>1, RowsStay, ProvsStay DEF DeleteAccount, history, BillingInv
<1>.  DEFINE owned == {row[w].sub : w \in Workspaces} \ {None}
<1>3. owned \subseteq Subs
      BY DEF BillingInv, RowsOK, WorkspaceRows
<1>4. leaving' = [at |-> "cancel", todo |-> owned, listed |-> owned] /\ UNCHANGED cancel
      BY DEF DeleteAccount
<1>5. EndOK'
      <2>.  HIDE DEF owned
      <2>.  QED BY <1>3, <1>4 DEF BillingInv, EndOK
<1>.  QED BY <1>1, <1>2, <1>5 DEF DeleteAccount, history, BillingInv, PersonOK, PastOK, ClaimOK

LEMMA CancelForDeletionStep ==
    ASSUME BillingInv, NEW s \in Subs, CancelForDeletion(s)
    PROVE  BillingInv'
<1>1. StripeOK' /\ Onward
      BY Ensured, Resting DEF CancelForDeletion, BillingInv
<1>2. RowsOK' /\ ProvsOK'
      BY <1>1, RowsStay, ProvsStay DEF CancelForDeletion, history, BillingInv
<1>3. EndOK' /\ PastOK'
      BY DEF CancelForDeletion, history, BillingInv, EndOK, PastOK
<1>.  QED BY <1>1, <1>2, <1>3 DEF CancelForDeletion, history, BillingInv, PersonOK, ClaimOK

LEMMA DeleteUserStep ==
    ASSUME BillingInv, DeleteUserCascade
    PROVE  BillingInv'
<1>1. StripeOK' /\ Onward
      BY Resting DEF DeleteUserCascade, BillingInv
<1>2. RowsOK'
      BY <1>1, RowsKept DEF DeleteUserCascade, NoRow, WorkspaceRows, BillingInv
<1>3. ProvsOK'
      BY <1>1, ProvsStay DEF DeleteUserCascade, BillingInv
<1>4. PersonOK' /\ EndOK' /\ PastOK'
      BY DEF DeleteUserCascade, NoDeletion, BillingInv, PersonOK, EndOK, PastOK
<1>.  QED BY <1>1, <1>2, <1>3, <1>4 DEF DeleteUserCascade, BillingInv, ClaimOK

LEMMA ProcessPendingStep ==
    ASSUME BillingInv, NEW s \in Subs, ProcessPending(s)
    PROVE  BillingInv'
<1>1. StripeOK' /\ Onward
      BY Ensured DEF ProcessPending, BillingInv
<1>2. RowsOK' /\ ProvsOK'
      BY <1>1, RowsStay, ProvsStay DEF ProcessPending, history, BillingInv
<1>.  QED BY <1>1, <1>2 DEF ProcessPending, history, BillingInv, PersonOK, EndOK, PastOK, ClaimOK

LEMMA BillingStep == BillingInv /\ [Next]_vars => BillingInv'
<1>.  SUFFICES ASSUME BillingInv, [Next]_vars PROVE BillingInv'
      OBVIOUS
<1>1. ASSUME NEW s \in Subs,
             \/ CompleteCheckout(s) \/ TimePasses(s) \/ Portal(s) \/ ProcessPending(s)
             \/ \E w \in Workspaces : OpenCheckout(s, w)
             \/ \E c \in Callers : ProvisionFromCheckoutSession(c, s)
      PROVE  BillingInv'
      BY <1>1, CompleteCheckoutStep, TrialEndsStep, PeriodEndsStep, PortalStep,
         ProcessPendingStep, OpenCheckoutStep, ProvisionStep DEF TimePasses
<1>2. ASSUME NEW c \in Callers, Provisioning(c) \/ ProvisionFails(c)
      PROVE  BillingInv'
      BY <1>2, RetrieveStep, ClaimStep, StripStep, DropStep, CommitStep, FailStep
      DEF Provisioning
<1>3. ASSUME NEW e \in events, Handle(e)
      PROVE  BillingInv'
      BY <1>3, UpdatedStep, DeletedStep, PaidStep DEF Handle
<1>4. ASSUME NEW w \in Workspaces,
             AssembleBillingState(w) \/ CancelSubscription(w) \/ DeleteWorkspace(w)
      PROVE  BillingInv'
      BY <1>4, AssembleStep, CancelStep, DeleteWorkspaceStep
<1>5. ASSUME Register \/ CancellationRecorded \/ CancellationLost \/ DeleteAccount
             \/ Deletion \/ DeletionLost
      PROVE  BillingInv'
      BY <1>5, RegisterStep, RecordedStep, LostStep, DeleteAccountStep, DeleteUserStep,
         CancelForDeletionStep DEF Deletion
<1>6. CASE UNCHANGED vars
      <2>1. StripeOK' /\ Onward
            BY <1>6, Resting DEF vars, BillingInv
      <2>2. RowsOK' /\ ProvsOK'
            BY <1>6, <2>1, RowsStay, ProvsStay DEF vars, BillingInv
      <2>.  QED BY <1>6, <2>1, <2>2 DEF vars, BillingInv, PersonOK, EndOK, PastOK, ClaimOK
<1>.  QED BY <1>1, <1>2, <1>3, <1>4, <1>5, <1>6 DEF Next

LEMMA BillingAlways == Spec => []BillingInv
BY BillingInit, BillingStep, PTL DEF Spec

\* The account, the rows, the subscriptions and what is under way keep their types
\* (schema.prisma, billing-provision.ts).
THEOREM BillingTyped == Spec => []BillingTypeOK
<1>1. BillingInv => BillingTypeOK
      BY DEF BillingInv, PersonOK, RowsOK, WorkspaceRows, StripeOK, Sessions, Notices, ProvsOK,
             Provisionings, EndOK, PastOK, ClaimOK, BillingTypeOK
<1>.  QED BY <1>1, BillingAlways, PTL

\* One email address has one trial: at most one subscription's was granted, and no
\* workspace is in another (trial-claims.ts, billing-provision.ts).
THEOREM OneTrialAlways == Spec => []OneTrialPerIdentity
<1>1. BillingInv => OneTrialPerIdentity
      <2>.  SUFFICES ASSUME BillingInv PROVE OneTrialPerIdentity
            OBVIOUS
      <2>1. granted = {} \/ granted = {claim}
            BY DEF BillingInv, ClaimOK
      <2>2. Cardinality(granted) <= 1
            <3>1. CASE granted = {}
                  BY <3>1, FS_EmptySet
            <3>2. CASE granted = {claim}
                  BY <3>2, FS_Singleton
            <3>.  QED BY <2>1, <3>1, <3>2
      <2>3. \A w \in Workspaces : RowSound(row[w])
            BY DEF BillingInv, RowsOK
      <2>.  QED BY <2>2, <2>3 DEF OneTrialPerIdentity, RowSound
<1>.  QED BY <1>1, BillingAlways, PTL
=============================================================================
