-------------------------- MODULE ConnectionsProofs --------------------------
(* The mailbox connections, for every number of workspaces, jobs and grants. *)
EXTENDS Connections, FiniteSetTheorems, TLAPS

Mails == Mailboxes \cup {NoMailbox}
Tokens == 0 .. MaxGrants

Rows == [status: {"NONE", "ACTIVE", "DISCONNECTED"}, mail: Mails, token: Tokens,
         stamp: {"none", "good", "due"}]
Discs == [at: {"idle", "flip", "count", "stop", "revoke", "scrub"}, mail: Mails, token: Tokens]
Links == [at: {"idle", "granted", "forget", "clean"}, mail: Mails, token: Tokens, web: BOOLEAN]
Upgrades == [at: {"idle", "granted", "checked"}, mail: Mails, token: Tokens]
Jobs == [at: {"idle", "call", "flip", "tell"}, mail: Mails, token: Tokens, ws: SUBSET Workspaces]

RowsTyped ==
    /\ conn \in [Workspaces -> Rows]
    /\ grants \in [Grants -> [mail: Mails, live: BOOLEAN]]
    /\ accounts \in [Workspaces -> SUBSET Mailboxes]
    /\ watches \subseteq Mailboxes /\ renewal \subseteq Workspaces
    /\ mishaps \in 0 .. MaxMishaps
    /\ credit \in [Workspaces -> Int]

FlowsTyped ==
    /\ disc \in [Workspaces -> Discs]
    /\ link \in [Workspaces -> Links]
    /\ upgrade \in [Workspaces -> Upgrades]
    /\ job \in [Workers -> Jobs]
    /\ \A j \in Workers : job[j].at # "idle" =>
          job[j].mail \in Mailboxes /\ \E w \in Workspaces : job[j].ws = {w}
    /\ \A w \in Workspaces : disc[w].at # "idle" => conn[w].status # "NONE" /\ disc[w].mail \in Mailboxes

\* The grants minted so far are the first k.
Minted(k) == \A g \in Grants : grants[g].mail # NoMailbox <=> g <= k

\* A row's token was minted for its mailbox, unless a connect overtook an upgrade.
RowToken(w) ==
    /\ conn[w].status # "NONE" <=> conn[w].mail \in Mailboxes
    /\ conn[w].token # 0 =>
          /\ conn[w].status # "NONE" /\ TokenMail(conn[w].token) \in Mailboxes
          /\ w \notin overtaken => TokenMail(conn[w].token) = conn[w].mail

\* The token a connect or an upgrade brings is of the mailbox it asked for.
LinkToken(w) ==
    link[w].at = "granted" =>
        link[w].token # 0 /\ TokenMail(link[w].token) = link[w].mail /\ link[w].mail \in Mailboxes

UpgradeToken(w) ==
    /\ upgrade[w].at # "idle" => /\ upgrade[w].token # 0 /\ upgrade[w].mail \in Mailboxes
                                 /\ TokenMail(upgrade[w].token) = upgrade[w].mail
    /\ upgrade[w].at = "checked" => /\ conn[w].status # "NONE"
                                    /\ w \notin overtaken => conn[w].mail = upgrade[w].mail

TokensTyped ==
    /\ \E k \in Tokens : Minted(k)
    /\ \A w \in Workspaces : RowToken(w) /\ LinkToken(w) /\ UpgradeToken(w)

Typed == RowsTyped /\ FlowsTyped /\ TokensTyped

LEMMA Bounds ==
    MaxGrants \in Nat /\ MaxMishaps \in Nat /\ NoMailbox \notin Mailboxes /\ 0 \in Tokens
BY ConnectionsAssumption DEF Tokens

LEMMA InitTyped == Init => Typed
<1>.  SUFFICES ASSUME Init PROVE Typed
      OBVIOUS
<1>1. NoMailbox \in Mails /\ 0 \in Tokens /\ 0 \in 0 .. MaxMishaps
      BY Bounds DEF Mails
<1>2. RowsTyped
      BY <1>1 DEF Init, RowsTyped, Rows, NoRow
<1>3. FlowsTyped
      <2>1. Idle \in Discs /\ Idle \in Upgrades /\ NoLink \in Links
            BY <1>1 DEF Idle, NoLink, Discs, Upgrades, Links
      <2>.  QED BY <1>1, <2>1 DEF Init, FlowsTyped, Idle, Jobs
<1>4. Minted(0)
      BY Bounds DEF Init, Minted, Grants
<1>5. \A w \in Workspaces : RowToken(w) /\ LinkToken(w) /\ UpgradeToken(w)
      BY Bounds DEF Init, RowToken, LinkToken, UpgradeToken, NoRow, NoLink, Idle
<1>.  QED BY <1>1, <1>2, <1>3, <1>4, <1>5 DEF Typed, TokensTyped

-----------------------------------------------------------------------------
(* What the steps leave alone.                                             *)

SameRow(w) ==
    /\ conn'[w].status = conn[w].status
    /\ conn'[w].mail = conn[w].mail
    /\ conn'[w].token = conn[w].token

\* Nothing the properties speak of changes.
Quiet ==
    /\ \A w \in Workspaces : SameRow(w)
    /\ UNCHANGED <<grants, accounts, disc, link, upgrade, credit, late, loose, mixed, overtaken>>

\* The steps of the push watch, and of jobs that find nothing wrong.
Aside ==
    \/ \E w \in Workspaces : Register(w) \/ StampAges(w) \/ \E j \in Workers : JobReads(j, w)
    \/ \E m \in Mailboxes : RenewalCalls(m) \/ WatchExpires(m)
    \/ RenewalStamps
    \/ \E j \in Workers : NotifyMembers(j) \/ WorkerDies(j)
    \/ UNCHANGED vars

LEMMA AsideQuiet ==
    ASSUME Typed, Aside
    PROVE  Quiet
<1>1. conn \in [Workspaces -> Rows]
      BY DEF Typed, RowsTyped
<1>2. UNCHANGED <<grants, accounts, disc, link, upgrade, credit, late, loose, mixed, overtaken>>
      BY DEF Aside, Register, RegisterCalls, RegisterStamps, StampAges, JobReads, RenewalCalls,
         WatchExpires, RenewalStamps, NotifyMembers, WorkerDies, vars, provider, connects, flows, history
<1>3. ASSUME NEW w \in Workspaces, RegisterStamps(w) \/ StampAges(w)
      PROVE  \A v \in Workspaces : SameRow(v)
      BY <1>1, <1>3 DEF RegisterStamps, StampAges, SameRow, Rows
<1>4. ASSUME RenewalStamps
      PROVE  \A v \in Workspaces : SameRow(v)
      BY <1>1, <1>4 DEF RenewalStamps, SameRow, Rows
<1>5. conn' = conn => \A v \in Workspaces : SameRow(v)
      BY DEF SameRow
<1>.  QED BY <1>2, <1>3, <1>4, <1>5 DEF Quiet, Aside, Register, RegisterCalls, JobReads, RenewalCalls,
         WatchExpires, NotifyMembers, WorkerDies, vars

\* The steps of connects, upgrades and disconnects, by what they write.
Exchanges(w) ==
    \E m \in Mailboxes : UpgradeExchange(w, m) \/ \E web \in BOOLEAN : Exchange(w, m, web)

Requests(w) ==
    \/ ConnectFails(w) \/ ForgetNudge(w) \/ EraseStaleAccounts(w) \/ EraseFails(w) \/ ConnectDies(w)
    \/ UpgradeChecks(w) \/ UpgradeFails(w)

Disconnects(w) == DisconnectReads(w) \/ Disconnect(w) \/ DisconnectDies(w)

LEMMA NextCases ==
    ASSUME [Next]_vars
    PROVE  \/ Aside
           \/ \E w \in Workspaces : \/ Exchanges(w) \/ Requests(w) \/ Persist(w) \/ UpgradeStores(w)
                                    \/ Disconnects(w)
           \/ \E j \in Workers : CallProvider(j) \/ MarkAuthFailed(j)
           \/ \E m \in Mailboxes : UserRevokes(m)
BY DEF Next, Aside, Exchanges, Requests, Disconnects, Connect, Upgrade, Job

-----------------------------------------------------------------------------
(* Grants keep the mailbox they were minted for.                           *)

SameMails == \A g \in Grants : grants'[g].mail = grants[g].mail

LEMMA TokenIsGrant ==
    ASSUME NEW t \in Tokens, t # 0
    PROVE  t \in Grants /\ TokenMail(t) = grants[t].mail /\ TokenMail(t)' = grants'[t].mail
BY Bounds DEF Tokens, Grants, TokenMail

\* A new grant takes a name that was not used.
LEMMA NextGrantFresh ==
    ASSUME Typed, NextGrant \in Grants
    PROVE  /\ grants[NextGrant].mail = NoMailbox
           /\ Minted(NextGrant - 1) /\ NextGrant - 1 \in Tokens
<1>1. PICK k \in Tokens : Minted(k)
      BY DEF Typed, TokensTyped
<1>2. {g \in Grants : grants[g].mail # NoMailbox} = 1 .. k
      BY <1>1, Bounds DEF Minted, Grants, Tokens
<1>3. Cardinality(1 .. k) = k
      BY <1>1, FS_Interval, Bounds DEF Tokens
<1>4. NextGrant = k + 1
      BY <1>2, <1>3 DEF NextGrant
<1>.  QED BY <1>1, <1>4, Bounds DEF Minted, Tokens

LEMMA MintTyped ==
    ASSUME Typed, NextGrant \in Grants, NEW m \in Mailboxes, Mint(m)
    PROVE  /\ grants' \in [Grants -> [mail: Mails, live: BOOLEAN]]
           /\ \E k \in Tokens : Minted(k)'
           /\ grants'[NextGrant].mail = m
           /\ \A g \in Grants : g # NextGrant => grants'[g] = grants[g]
           /\ NextGrant \in Tokens /\ NextGrant # 0
<1>1. grants \in [Grants -> [mail: Mails, live: BOOLEAN]]
      BY DEF Typed, RowsTyped
<1>2. NextGrant \in 1 .. MaxGrants
      BY DEF Grants
<1>3. /\ grants'[NextGrant] = [mail |-> m, live |-> TRUE]
      /\ \A g \in Grants : g # NextGrant => grants'[g] = grants[g]
      /\ grants' \in [Grants -> [mail: Mails, live: BOOLEAN]]
      BY <1>1 DEF Mint, Mails
<1>4. \E k \in Tokens : Minted(k)'
      <2>1. PICK k \in 1 .. MaxGrants : k = NextGrant
            BY <1>2
      <2>2. m # NoMailbox
            BY Bounds
      <2>3. \A g \in Grants : grants'[g].mail # NoMailbox <=> g <= k
            BY <1>3, <2>1, <2>2, NextGrantFresh, Bounds DEF Minted, Grants
      <2>.  QED BY <2>3, Bounds DEF Minted, Tokens
<1>5. NextGrant \in Tokens /\ NextGrant # 0
      BY <1>2, Bounds DEF Tokens
<1>6. grants'[NextGrant].mail = m
      BY <1>3
<1>.  QED BY <1>3, <1>4, <1>5, <1>6

\* What a token was minted for stays.
Kept == \A t \in Tokens : TokenMail(t) # NoMailbox => TokenMail(t)' = TokenMail(t)

LEMMA MintKeeps ==
    ASSUME Typed, NextGrant \in Grants, NEW m \in Mailboxes, Mint(m)
    PROVE  Kept
<1>1. SUFFICES ASSUME NEW t \in Tokens, TokenMail(t) # NoMailbox
               PROVE  TokenMail(t)' = TokenMail(t)
      BY DEF Kept
<1>2. t # 0
      BY <1>1 DEF TokenMail
<1>3. t \in Grants /\ TokenMail(t) = grants[t].mail /\ TokenMail(t)' = grants'[t].mail
      BY <1>2, TokenIsGrant
<1>4. t # NextGrant
      BY <1>1, <1>3, NextGrantFresh
<1>.  QED BY <1>3, <1>4, MintTyped

LEMMA MailsKeep ==
    ASSUME SameMails
    PROVE  Kept /\ \A t \in Tokens : TokenMail(t)' = TokenMail(t)
<1>1. ASSUME NEW t \in Tokens
      PROVE  TokenMail(t)' = TokenMail(t)
      <2>1. CASE t = 0
            BY <2>1 DEF TokenMail
      <2>2. CASE t # 0
            BY <2>2, TokenIsGrant DEF SameMails
      <2>.  QED BY <2>1, <2>2
<1>.  QED BY <1>1 DEF Kept

LEMMA WithoutKeeps ==
    ASSUME Typed, NEW m
    PROVE  /\ Without(m) \in [Grants -> [mail: Mails, live: BOOLEAN]]
           /\ \A g \in Grants : /\ Without(m)[g].mail = grants[g].mail
                                /\ Without(m)[g].live <=> grants[g].live /\ grants[g].mail # m
BY DEF Without, Typed, RowsTyped

-----------------------------------------------------------------------------
(* The variables keep their types.                                         *)

LEMMA RowKept ==
    ASSUME Typed, Kept, NEW v \in Workspaces,
           conn'[v].mail = conn[v].mail, conn'[v].token \in {conn[v].token, 0},
           conn'[v].status # "NONE" <=> conn[v].status # "NONE",
           v \in overtaken <=> v \in overtaken'
    PROVE  RowToken(v)'
<1>1. RowToken(v) /\ conn[v].token \in Tokens
      BY DEF Typed, TokensTyped, RowsTyped, Rows
<1>2. PICK t \in Tokens : t = conn[v].token
      BY <1>1
<1>3. t # 0 => TokenMail(t)' = TokenMail(t)
      BY <1>1, <1>2, Bounds DEF Kept, RowToken
<1>4. CASE conn'[v].token = t
      BY <1>1, <1>2, <1>3, <1>4 DEF RowToken, TokenMail
<1>5. CASE conn'[v].token = 0
      BY <1>1, <1>5 DEF RowToken
<1>.  QED BY <1>2, <1>4, <1>5

LEMMA LinkKept ==
    ASSUME Typed, Kept, NEW v \in Workspaces, link'[v] = link[v] \/ link'[v].at # "granted"
    PROVE  LinkToken(v)'
<1>1. LinkToken(v) /\ link[v].token \in Tokens
      BY DEF Typed, TokensTyped, FlowsTyped, Links
<1>2. PICK t \in Tokens : t = link[v].token
      BY <1>1
<1>3. link[v].at = "granted" => TokenMail(t)' = TokenMail(t)
      BY <1>1, <1>2, Bounds DEF Kept, LinkToken
<1>.  QED BY <1>1, <1>2, <1>3 DEF LinkToken, TokenMail

LEMMA UpgradeKept ==
    ASSUME Typed, Kept, NEW v \in Workspaces, upgrade'[v] = upgrade[v] \/ upgrade'[v].at = "idle",
           conn'[v].status # "NONE" <=> conn[v].status # "NONE",
           \/ conn'[v].mail = conn[v].mail /\ (v \in overtaken <=> v \in overtaken')
           \/ upgrade[v].at = "checked" => v \in overtaken'
    PROVE  UpgradeToken(v)'
<1>1. UpgradeToken(v) /\ upgrade[v].token \in Tokens
      BY DEF Typed, TokensTyped, FlowsTyped, Upgrades
<1>2. PICK t \in Tokens : t = upgrade[v].token
      BY <1>1
<1>3. upgrade[v].at # "idle" => TokenMail(t)' = TokenMail(t)
      BY <1>1, <1>2, Bounds DEF Kept, UpgradeToken
<1>.  QED BY <1>1, <1>2, <1>3 DEF UpgradeToken, TokenMail

\* Steps that mint nothing and give nobody a token.
LEMMA TokensStay ==
    ASSUME Typed, SameMails,
           \A v \in Workspaces : /\ conn'[v].mail = conn[v].mail
                                 /\ conn'[v].token \in {conn[v].token, 0}
                                 /\ conn'[v].status # "NONE" <=> conn[v].status # "NONE"
                                 /\ link'[v] = link[v] \/ link'[v].at # "granted"
                                 /\ upgrade'[v] = upgrade[v] \/ upgrade'[v].at = "idle",
           overtaken' = overtaken
    PROVE  TokensTyped'
<1>1. Kept
      BY MailsKeep
<1>2. ASSUME NEW v \in Workspaces
      PROVE  RowToken(v)' /\ LinkToken(v)' /\ UpgradeToken(v)'
      BY <1>1, RowKept, LinkKept, UpgradeKept
<1>3. \E k \in Tokens : Minted(k)'
      BY DEF Typed, TokensTyped, SameMails, Minted
<1>.  QED BY <1>2, <1>3 DEF TokensTyped

\* An exchange mints a grant and leaves the rows alone.
LEMMA ExchangeTyped ==
    ASSUME Typed, NEW w \in Workspaces, Exchanges(w)
    PROVE  Typed'
<1>1. PICK m \in Mailboxes : /\ NextGrant \in Grants /\ Mint(m)
                             /\ UpgradeExchange(w, m) \/ \E web \in BOOLEAN : Exchange(w, m, web)
      BY DEF Exchanges, UpgradeExchange, Exchange
<1>2. PICK n \in Tokens : n = NextGrant /\ n # 0
      BY <1>1, MintTyped
<1>3. /\ grants' \in [Grants -> [mail: Mails, live: BOOLEAN]]
      /\ \E k \in Tokens : Minted(k)'
      /\ TokenMail(n)' = m
      BY <1>1, <1>2, MintTyped DEF TokenMail
<1>4. Kept /\ m \in Mails
      BY <1>1, MintKeeps DEF Mails
<1>5. /\ UNCHANGED <<conn, watches, accounts, disc, renewal, job, credit, overtaken, mishaps>>
      /\ \/ upgrade' = upgrade
         \/ upgrade' = [upgrade EXCEPT ![w] = [at |-> "granted", mail |-> m, token |-> n]]
      /\ \/ link' = link
         \/ \E web \in BOOLEAN :
               link' = [link EXCEPT ![w] = [at |-> "granted", mail |-> m, token |-> n, web |-> web]]
      BY <1>1, <1>2 DEF UpgradeExchange, Exchange, history
<1>6. RowsTyped'
      BY <1>3, <1>5 DEF Typed, RowsTyped
<1>7. FlowsTyped'
      <2>1. upgrade' \in [Workspaces -> Upgrades]
            <3>1. [at |-> "granted", mail |-> m, token |-> n] \in Upgrades
                  BY <1>4 DEF Upgrades
            <3>.  QED BY <1>5, <3>1 DEF Typed, FlowsTyped
      <2>2. link' \in [Workspaces -> Links]
            <3>1. \A web \in BOOLEAN :
                     [at |-> "granted", mail |-> m, token |-> n, web |-> web] \in Links
                  BY <1>4 DEF Links
            <3>.  QED BY <1>5, <3>1 DEF Typed, FlowsTyped
      <2>.  QED BY <1>5, <2>1, <2>2 DEF Typed, FlowsTyped
<1>8. ASSUME NEW v \in Workspaces
      PROVE  RowToken(v)' /\ LinkToken(v)' /\ UpgradeToken(v)'
      <2>1. RowToken(v)'
            BY <1>4, <1>5, RowKept
      <2>2. LinkToken(v)'
            <3>1. CASE link'[v] = link[v]
                  BY <1>4, <3>1, LinkKept
            <3>2. CASE link'[v].mail = m /\ link'[v].token = n
                  BY <1>1, <1>2, <1>3, <3>2 DEF LinkToken, TokenMail
            <3>.  QED BY <1>5, <3>1, <3>2 DEF Typed, FlowsTyped
      <2>3. UpgradeToken(v)'
            <3>1. CASE upgrade'[v] = upgrade[v]
                  BY <1>4, <1>5, <3>1, UpgradeKept
            <3>2. CASE upgrade'[v] = [at |-> "granted", mail |-> m, token |-> n]
                  BY <1>1, <1>2, <1>3, <3>2 DEF UpgradeToken, TokenMail
            <3>.  QED BY <1>5, <3>1, <3>2 DEF Typed, FlowsTyped
      <2>.  QED BY <2>1, <2>2, <2>3
<1>.  QED BY <1>3, <1>6, <1>7, <1>8 DEF Typed, TokensTyped

\* A connect writes the row with the token it was granted.
LEMMA PersistTyped ==
    ASSUME Typed, NEW w \in Workspaces, Persist(w)
    PROVE  Typed'
<1>1. /\ link[w].at = "granted" /\ link[w].token # 0 /\ link[w].token \in Tokens
      /\ TokenMail(link[w].token) = link[w].mail /\ link[w].mail \in Mailboxes
      BY DEF Persist, Typed, TokensTyped, LinkToken, FlowsTyped, Links
<1>2. /\ UNCHANGED <<grants, watches, accounts, disc, upgrade, renewal, job, mishaps>>
      /\ conn' = [conn EXCEPT ![w] = [status |-> "ACTIVE", mail |-> link[w].mail,
                                      token |-> link[w].token, stamp |-> "none"]]
      /\ link' = [link EXCEPT ![w].at = "forget"]
      /\ credit' = [credit EXCEPT ![w] = @ + 1]
      /\ w \notin overtaken' => upgrade[w].at # "checked"
      /\ \A v \in Workspaces \ {w} : v \in overtaken <=> v \in overtaken'
      BY DEF Persist, provider
<1>3. conn'[w] = [status |-> "ACTIVE", mail |-> link[w].mail, token |-> link[w].token,
                  stamp |-> "none"]
      BY <1>2 DEF Typed, RowsTyped
<1>4. RowsTyped'
      <2>1. [status |-> "ACTIVE", mail |-> link[w].mail, token |-> link[w].token,
             stamp |-> "none"] \in Rows
            BY <1>1 DEF Rows, Mails
      <2>2. conn' \in [Workspaces -> Rows] /\ credit' \in [Workspaces -> Int]
            BY <1>2, <2>1 DEF Typed, RowsTyped
      <2>.  QED BY <1>2, <2>2 DEF Typed, RowsTyped
<1>5. FlowsTyped'
      <2>1. \A v \in Workspaces : conn[v].status # "NONE" => conn'[v].status # "NONE"
            BY <1>2, <1>3 DEF Typed, RowsTyped
      <2>2. link' \in [Workspaces -> Links]
            BY <1>2 DEF Typed, FlowsTyped, Links
      <2>.  QED BY <1>2, <2>1, <2>2 DEF Typed, FlowsTyped
<1>6. Kept /\ TokenMail(link[w].token) = grants[link[w].token].mail
      BY <1>1, <1>2, MailsKeep DEF SameMails, TokenMail
<1>7. ASSUME NEW v \in Workspaces
      PROVE  RowToken(v)' /\ LinkToken(v)' /\ UpgradeToken(v)'
      <2>1. CASE v = w
            <3>1. RowToken(w)'
                  BY <1>1, <1>2, <1>3, <1>6 DEF RowToken, TokenMail
            <3>2. LinkToken(w)'
                  BY <1>2 DEF LinkToken, Typed, FlowsTyped, Links
            <3>3. UpgradeToken(w)'
                  <4>1. /\ UpgradeToken(w)
                        /\ upgrade[w].at # "idle" => TokenMail(upgrade[w].token) = upgrade[w].mail
                        BY DEF Typed, TokensTyped, UpgradeToken
                  <4>.  QED BY <1>2, <1>3, <4>1 DEF UpgradeToken, TokenMail
            <3>.  QED BY <2>1, <3>1, <3>2, <3>3
      <2>2. CASE v # w
            <3>1. conn'[v] = conn[v] /\ link'[v] = link[v] /\ upgrade'[v] = upgrade[v]
                  BY <1>2, <2>2 DEF Typed, RowsTyped, FlowsTyped
            <3>.  QED BY <1>2, <1>6, <2>2, <3>1, RowKept, LinkKept, UpgradeKept
      <2>.  QED BY <2>1, <2>2
<1>8. \E k \in Tokens : Minted(k)'
      BY <1>2 DEF Typed, TokensTyped, Minted
<1>.  QED BY <1>4, <1>5, <1>7, <1>8 DEF Typed, TokensTyped

\* An upgrade writes its token, to a row of another mailbox when it was overtaken.
LEMMA StoreTyped ==
    ASSUME Typed, NEW w \in Workspaces, UpgradeStores(w)
    PROVE  Typed'
<1>1. /\ upgrade[w].at = "checked" /\ upgrade[w].token # 0 /\ upgrade[w].token \in Tokens
      /\ TokenMail(upgrade[w].token) = upgrade[w].mail /\ upgrade[w].mail \in Mailboxes
      /\ conn[w].status # "NONE"
      /\ w \notin overtaken => conn[w].mail = upgrade[w].mail
      BY DEF UpgradeStores, Typed, TokensTyped, UpgradeToken, FlowsTyped, Upgrades
<1>2. /\ UNCHANGED <<grants, watches, accounts, disc, link, renewal, job, credit, overtaken, mishaps>>
      /\ conn' = [conn EXCEPT ![w].token = upgrade[w].token]
      /\ upgrade' = [upgrade EXCEPT ![w] = Idle]
      BY DEF UpgradeStores, provider
<1>3. /\ conn'[w].status = conn[w].status /\ conn'[w].mail = conn[w].mail
      /\ conn'[w].token = upgrade[w].token
      BY <1>2 DEF Typed, RowsTyped, Rows
<1>4. RowsTyped'
      <2>1. [conn[w] EXCEPT !.token = upgrade[w].token] \in Rows
            BY <1>1 DEF Rows, Typed, RowsTyped
      <2>2. conn' \in [Workspaces -> Rows]
            BY <1>2, <2>1 DEF Typed, RowsTyped
      <2>.  QED BY <1>2, <2>2 DEF Typed, RowsTyped
<1>5. FlowsTyped'
      <2>1. \A v \in Workspaces : conn'[v].status = conn[v].status
            BY <1>2, <1>3 DEF Typed, RowsTyped
      <2>2. Idle \in Upgrades
            BY Bounds DEF Idle, Upgrades, Mails
      <2>3. upgrade' \in [Workspaces -> Upgrades]
            BY <1>2, <2>2 DEF Typed, FlowsTyped
      <2>.  QED BY <1>2, <2>1, <2>3 DEF Typed, FlowsTyped
<1>6. Kept
      BY <1>2, MailsKeep DEF SameMails
<1>7. ASSUME NEW v \in Workspaces
      PROVE  RowToken(v)' /\ LinkToken(v)' /\ UpgradeToken(v)'
      <2>1. link'[v] = link[v] /\ (upgrade'[v] = upgrade[v] \/ upgrade'[v].at = "idle")
            BY <1>2 DEF Typed, FlowsTyped, Idle
      <2>2. CASE v = w
            <3>1. RowToken(w)
                  BY DEF Typed, TokensTyped
            <3>2. RowToken(w)'
                  BY <1>1, <1>2, <1>3, <3>1 DEF RowToken, TokenMail
            <3>.  QED BY <1>2, <1>3, <1>6, <2>1, <2>2, <3>2, LinkKept, UpgradeKept
      <2>3. CASE v # w
            <3>1. conn'[v] = conn[v]
                  BY <1>2, <2>3 DEF Typed, RowsTyped
            <3>.  QED BY <1>2, <1>6, <2>1, <3>1, RowKept, LinkKept, UpgradeKept
      <2>.  QED BY <2>2, <2>3
<1>8. \E k \in Tokens : Minted(k)'
      BY <1>2 DEF Typed, TokensTyped, Minted
<1>.  QED BY <1>4, <1>5, <1>7, <1>8 DEF Typed, TokensTyped

\* The steps of a connect or an upgrade that write no row.
LEMMA RequestTyped ==
    ASSUME Typed, NEW w \in Workspaces, Requests(w)
    PROVE  Typed'
<1>1. /\ UNCHANGED <<conn, grants, watches, disc, renewal, job, credit, overtaken>>
      /\ mishaps' = mishaps \/ Mishap
      BY DEF Requests, ConnectFails, ForgetNudge, EraseStaleAccounts, EraseFails, ConnectDies,
         UpgradeChecks, UpgradeFails, provider, history
<1>2. mishaps' \in 0 .. MaxMishaps
      BY <1>1, Bounds DEF Mishap, Typed, RowsTyped
<1>3. accounts' \in [Workspaces -> SUBSET Mailboxes]
      <2>1. accounts' = accounts \/ accounts' = [accounts EXCEPT ![w] = @ \cap {link[w].mail}]
            BY DEF Requests, ConnectFails, ForgetNudge, EraseStaleAccounts, EraseFails, ConnectDies,
               UpgradeChecks, UpgradeFails
      <2>.  QED BY <2>1 DEF Typed, RowsTyped
<1>4. RowsTyped'
      BY <1>1, <1>2, <1>3 DEF Typed, RowsTyped
<1>5. /\ link' \in [Workspaces -> Links]
      /\ \A v \in Workspaces : link'[v] = link[v] \/ link'[v].at # "granted"
      <2>1. NoLink \in Links /\ NoLink.at = "idle"
            BY Bounds DEF NoLink, Links, Mails
      <2>2. [link[w] EXCEPT !.at = "clean"] \in Links /\ [link[w] EXCEPT !.at = "clean"].at = "clean"
            BY DEF Typed, FlowsTyped, Links
      <2>3. \/ link' = link \/ link' = [link EXCEPT ![w] = NoLink]
            \/ link' = [link EXCEPT ![w] = [link[w] EXCEPT !.at = "clean"]]
            BY DEF Requests, ConnectFails, ForgetNudge, EraseStaleAccounts, EraseFails, ConnectDies,
               UpgradeChecks, UpgradeFails
      <2>.  QED BY <2>1, <2>2, <2>3 DEF Typed, FlowsTyped
<1>6. /\ upgrade' \in [Workspaces -> Upgrades]
      /\ \A v \in Workspaces : \/ upgrade'[v] = upgrade[v] \/ upgrade'[v].at = "idle"
                               \/ /\ v = w /\ conn[w].mail = upgrade[w].mail
                                  /\ upgrade[w].at = "granted"
                                  /\ upgrade'[w] = [upgrade[w] EXCEPT !.at = "checked"]
      <2>1. Idle \in Upgrades /\ Idle.at = "idle"
            BY Bounds DEF Idle, Upgrades, Mails
      <2>2. [upgrade[w] EXCEPT !.at = "checked"] \in Upgrades
            BY DEF Typed, FlowsTyped, Upgrades
      <2>3. \/ upgrade' = upgrade \/ upgrade' = [upgrade EXCEPT ![w] = Idle]
            \/ /\ upgrade' = [upgrade EXCEPT ![w] = [upgrade[w] EXCEPT !.at = "checked"]]
               /\ conn[w].mail = upgrade[w].mail /\ upgrade[w].at = "granted"
            BY DEF Requests, ConnectFails, ForgetNudge, EraseStaleAccounts, EraseFails, ConnectDies,
               UpgradeChecks, UpgradeFails
      <2>.  QED BY <2>1, <2>2, <2>3 DEF Typed, FlowsTyped
<1>7. FlowsTyped'
      BY <1>1, <1>5, <1>6 DEF Typed, FlowsTyped
<1>8. Kept
      BY <1>1, MailsKeep DEF SameMails
<1>9. ASSUME NEW v \in Workspaces
      PROVE  UpgradeToken(v)'
      <2>1. CASE upgrade'[v] = upgrade[v] \/ upgrade'[v].at = "idle"
            BY <1>1, <1>8, <2>1, UpgradeKept
      <2>2. CASE /\ v = w /\ conn[w].mail = upgrade[w].mail /\ upgrade[w].at = "granted"
                 /\ upgrade'[w] = [upgrade[w] EXCEPT !.at = "checked"]
            <3>1. UpgradeToken(w) /\ RowToken(w)
                  BY DEF Typed, TokensTyped
            <3>2. /\ upgrade'[w].at = "checked" /\ upgrade'[w].mail = upgrade[w].mail
                  /\ upgrade'[w].token = upgrade[w].token
                  BY <2>2 DEF Typed, FlowsTyped, Upgrades
            <3>3. upgrade[w].mail \in Mailboxes
                  BY <2>2, <3>1 DEF UpgradeToken
            <3>4. conn[w].status # "NONE"
                  BY <2>2, <3>1, <3>3 DEF RowToken
            <3>.  QED BY <1>1, <2>2, <3>1, <3>2, <3>4 DEF UpgradeToken, TokenMail
      <2>.  QED BY <1>6, <2>1, <2>2
<1>10. ASSUME NEW v \in Workspaces
       PROVE  RowToken(v)' /\ LinkToken(v)'
      BY <1>1, <1>5, <1>8, RowKept, LinkKept
<1>11. \E k \in Tokens : Minted(k)'
      BY <1>1 DEF Typed, TokensTyped, Minted
<1>.  QED BY <1>4, <1>7, <1>9, <1>10, <1>11 DEF Typed, TokensTyped

\* The disconnect.
LEMMA DisconnectTyped ==
    ASSUME Typed, NEW w \in Workspaces, Disconnects(w)
    PROVE  Typed'
<1>1. /\ UNCHANGED <<link, upgrade, renewal, job, credit, overtaken>>
      /\ mishaps' = mishaps \/ Mishap
      BY DEF Disconnects, DisconnectReads, Disconnect, DisconnectFlips, DisconnectCounts, StopWatch,
         RevokeGrant, DisconnectScrubs, DisconnectDies, connects, history
<1>2. mishaps' \in 0 .. MaxMishaps
      BY <1>1, Bounds DEF Mishap, Typed, RowsTyped
<1>3. /\ accounts' \in [Workspaces -> SUBSET Mailboxes] /\ watches' \subseteq Mailboxes
      <2>1. accounts' = accounts \/ accounts' = [accounts EXCEPT ![w] = @ \ {disc[w].mail}]
            BY DEF Disconnects, DisconnectReads, Disconnect, DisconnectFlips, DisconnectCounts,
               StopWatch, RevokeGrant, DisconnectScrubs, DisconnectDies
      <2>2. watches' \subseteq watches
            BY DEF Disconnects, DisconnectReads, Disconnect, DisconnectFlips, DisconnectCounts,
               StopWatch, RevokeGrant, DisconnectScrubs, DisconnectDies, provider
      <2>.  QED BY <2>1, <2>2 DEF Typed, RowsTyped
<1>4. SameMails /\ grants' \in [Grants -> [mail: Mails, live: BOOLEAN]]
      <2>1. grants' = grants \/ grants' = Without(TokenMail(disc[w].token))
            BY DEF Disconnects, DisconnectReads, Disconnect, DisconnectFlips, DisconnectCounts,
               StopWatch, RevokeGrant, DisconnectScrubs, DisconnectDies, provider
      <2>.  QED BY <2>1, WithoutKeeps DEF Typed, RowsTyped, SameMails
<1>5. /\ conn' \in [Workspaces -> Rows]
      /\ \A v \in Workspaces : /\ conn'[v].mail = conn[v].mail
                               /\ conn'[v].token \in {conn[v].token, 0}
                               /\ conn'[v].status # "NONE" <=> conn[v].status # "NONE"
      <2>1. \/ conn' = conn
            \/ disc[w].at = "flip" /\ conn' = [conn EXCEPT ![w].status = "DISCONNECTED"]
            \/ conn' = [conn EXCEPT ![w].token = 0, ![w].stamp = "none"]
            BY DEF Disconnects, DisconnectReads, Disconnect, DisconnectFlips, DisconnectCounts,
               StopWatch, RevokeGrant, DisconnectScrubs, DisconnectDies
      <2>2. conn \in [Workspaces -> Rows] /\ (disc[w].at = "flip" => conn[w].status # "NONE")
            BY DEF Typed, RowsTyped, FlowsTyped
      <2>3. CASE conn' = conn
            BY <2>2, <2>3
      <2>4. CASE disc[w].at = "flip" /\ conn' = [conn EXCEPT ![w].status = "DISCONNECTED"]
            <3>1. [conn[w] EXCEPT !.status = "DISCONNECTED"] \in Rows
                  BY <2>2 DEF Rows
            <3>2. conn' = [conn EXCEPT ![w] = [conn[w] EXCEPT !.status = "DISCONNECTED"]]
                  BY <2>2, <2>4
            <3>.  QED BY <2>2, <2>4, <3>1, <3>2 DEF Rows
      <2>5. CASE conn' = [conn EXCEPT ![w].token = 0, ![w].stamp = "none"]
            <3>1. [conn[w] EXCEPT !.token = 0, !.stamp = "none"] \in Rows
                  BY <2>2, Bounds DEF Rows
            <3>2. conn' = [conn EXCEPT ![w] = [conn[w] EXCEPT !.token = 0, !.stamp = "none"]]
                  BY <2>2, <2>5
            <3>.  QED BY <2>2, <3>1, <3>2 DEF Rows
      <2>.  QED BY <2>1, <2>3, <2>4, <2>5
<1>6. RowsTyped'
      BY <1>1, <1>2, <1>3, <1>4, <1>5 DEF Typed, RowsTyped
<1>7. /\ disc' \in [Workspaces -> Discs]
      /\ \A v \in Workspaces : disc'[v].at # "idle" =>
            conn[v].status # "NONE" /\ disc'[v].mail \in Mailboxes
      <2>1. CASE DisconnectReads(w)
            <3>1. conn[w].mail \in Mailboxes /\ conn[w].status # "NONE" /\ conn[w].token \in Tokens
                  BY <2>1 DEF DisconnectReads, Typed, TokensTyped, RowToken, RowsTyped, Rows
            <3>2. [at |-> "flip", mail |-> conn[w].mail, token |-> conn[w].token] \in Discs
                  BY <3>1 DEF Discs, Mails
            <3>.  QED BY <2>1, <3>1, <3>2 DEF DisconnectReads, Typed, FlowsTyped
      <2>2. CASE disc' = [disc EXCEPT ![w] = Idle]
            <3>1. Idle \in Discs /\ Idle.at = "idle"
                  BY Bounds DEF Idle, Discs, Mails
            <3>.  QED BY <2>2, <3>1 DEF Typed, FlowsTyped
      <2>3. ASSUME NEW step \in {"count", "stop", "revoke", "scrub"}, Disc(w, step), disc[w].at # "idle"
            PROVE  /\ disc' \in [Workspaces -> Discs]
                   /\ \A v \in Workspaces : disc'[v].at # "idle" =>
                         conn[v].status # "NONE" /\ disc'[v].mail \in Mailboxes
            <3>1. disc' = [disc EXCEPT ![w] = [disc[w] EXCEPT !.at = step]]
                  BY <2>3 DEF Disc, Typed, FlowsTyped
            <3>2. [disc[w] EXCEPT !.at = step] \in Discs
                  BY DEF Discs, Typed, FlowsTyped
            <3>3. [disc[w] EXCEPT !.at = step].mail = disc[w].mail
                  BY DEF Discs, Typed, FlowsTyped
            <3>.  QED BY <2>3, <3>1, <3>2, <3>3 DEF Typed, FlowsTyped
      <2>.  QED BY <2>1, <2>2, <2>3 DEF Disconnects, Disconnect, DisconnectFlips, DisconnectCounts,
               StopWatch, RevokeGrant, DisconnectScrubs, DisconnectDies
<1>8. FlowsTyped'
      BY <1>1, <1>5, <1>7 DEF Typed, FlowsTyped
<1>.  QED BY <1>1, <1>4, <1>5, <1>6, <1>8, TokensStay DEF Typed

\* The push watch.
LEMMA WatchTyped ==
    ASSUME Typed,
           \/ \E w \in Workspaces : Register(w) \/ StampAges(w)
           \/ \E m \in Mailboxes : RenewalCalls(m) \/ WatchExpires(m)
           \/ RenewalStamps \/ UNCHANGED vars
    PROVE  Typed'
<1>1. /\ \A v \in Workspaces : SameRow(v)
      /\ UNCHANGED <<grants, accounts, disc, link, upgrade, credit, overtaken>>
      BY AsideQuiet DEF Aside, Quiet
<1>2. UNCHANGED <<job, mishaps>>
      BY DEF Register, RegisterCalls, RegisterStamps, StampAges, RenewalCalls, WatchExpires,
         RenewalStamps, vars, flows
<1>3. conn' \in [Workspaces -> Rows]
      <2>1. conn \in [Workspaces -> Rows]
            BY DEF Typed, RowsTyped
      <2>2. ASSUME NEW w \in Workspaces, RegisterStamps(w) \/ StampAges(w)
            PROVE  conn' \in [Workspaces -> Rows]
            BY <2>1, <2>2 DEF RegisterStamps, StampAges, Rows
      <2>3. CASE RenewalStamps
            BY <2>1, <2>3 DEF RenewalStamps, Rows
      <2>.  QED BY <2>1, <2>2, <2>3 DEF Register, RegisterCalls, RenewalCalls, WatchExpires, vars
<1>4. watches' \subseteq Mailboxes /\ renewal' \subseteq Workspaces
      <2>1. watches \subseteq Mailboxes /\ renewal \subseteq Workspaces
            BY DEF Typed, RowsTyped
      <2>2. \A v \in Workspaces : Live(conn[v].token) => TokenMail(conn[v].token) \in Mailboxes
            BY DEF Live, Typed, TokensTyped, RowToken
      <2>3. ASSUME NEW w \in Workspaces, RegisterCalls(w)
            PROVE  watches' \subseteq Mailboxes /\ renewal' = renewal
            BY <2>1, <2>2, <2>3 DEF RegisterCalls
      <2>4. ASSUME NEW m \in Mailboxes, RenewalCalls(m) \/ WatchExpires(m)
            PROVE  watches' \subseteq Mailboxes /\ renewal' \subseteq Workspaces
            BY <2>1, <2>2, <2>4 DEF RenewalCalls, WatchExpires, Due, flows
      <2>.  QED BY <2>1, <2>3, <2>4 DEF Register, RegisterStamps, StampAges, RenewalStamps, vars,
               provider, flows
<1>5. RowsTyped'
      BY <1>1, <1>2, <1>3, <1>4 DEF Typed, RowsTyped
<1>6. FlowsTyped'
      BY <1>1, <1>2 DEF SameRow, Typed, FlowsTyped
<1>.  QED BY <1>1, <1>5, <1>6, TokensStay DEF SameRow, SameMails, Typed

LEMMA JobOf ==
    ASSUME Typed, NEW j \in Workers, job[j].at # "idle"
    PROVE  Of(j) \in Workspaces /\ job[j].ws = {Of(j)} /\ job[j].mail \in Mailboxes
<1>1. PICK w \in Workspaces : job[j].ws = {w}
      BY DEF Typed, FlowsTyped
<1>2. Of(j) = w
      BY <1>1 DEF Of
<1>.  QED BY <1>1, <1>2 DEF Typed, FlowsTyped

\* The jobs, and the user at the provider.
LEMMA JobsTyped ==
    ASSUME Typed,
           \/ \E j \in Workers : \/ Job(j) \/ WorkerDies(j)
                                 \/ \E w \in Workspaces : JobReads(j, w)
           \/ \E m \in Mailboxes : UserRevokes(m)
    PROVE  Typed'
<1>1. ASSUME NEW j \in Workers, NEW w \in Workspaces, JobReads(j, w)
      PROVE  Typed'
      <2>1. RowsTyped' /\ UNCHANGED <<conn, grants, disc, link, upgrade, overtaken>>
            BY <1>1 DEF JobReads, Typed, RowsTyped, Rows, provider, connects, history
      <2>2. conn[w].mail \in Mailboxes /\ conn[w].mail \in Mails /\ conn[w].token \in Tokens
            BY <1>1 DEF JobReads, Active, Typed, TokensTyped, RowToken, RowsTyped, Rows, Mails
      <2>3. FlowsTyped'
            BY <1>1, <2>2 DEF JobReads, connects, Jobs, Typed, FlowsTyped, Mails
      <2>.  QED BY <2>1, <2>3, TokensStay DEF SameMails, Typed
<1>2. ASSUME NEW j \in Workers, job'[j] = JobIdle \/ job'[j] = [job[j] EXCEPT !.at = "flip"]
                                \/ job'[j] = [job[j] EXCEPT !.at = "tell"],
             job[j].at # "idle", job' = [job EXCEPT ![j] = job'[j]],
             UNCHANGED <<disc, link, upgrade>>,
             \A v \in Workspaces : conn[v].status # "NONE" => conn'[v].status # "NONE"
      PROVE  FlowsTyped'
      <2>1. JobIdle \in Jobs
            BY Bounds DEF JobIdle, Jobs, Mails
      <2>2. job' \in [Workers -> Jobs]
            BY <1>2, <2>1 DEF Typed, FlowsTyped, Jobs
      <2>3. \A i \in Workers : job'[i].at # "idle" =>
               job'[i].mail \in Mailboxes /\ \E w \in Workspaces : job'[i].ws = {w}
            <3>1. \A i \in Workers \ {j} : job'[i] = job[i]
                  BY <1>2 DEF Typed, FlowsTyped
            <3>2. job'[j].at # "idle" => job'[j].mail = job[j].mail /\ job'[j].ws = job[j].ws
                  BY <1>2 DEF Typed, FlowsTyped, JobIdle, Jobs
            <3>3. \A i \in Workers : job[i].at # "idle" =>
                     job[i].mail \in Mailboxes /\ \E w \in Workspaces : job[i].ws = {w}
                  BY DEF Typed, FlowsTyped
            <3>4. job'[j].at # "idle" =>
                     job'[j].mail \in Mailboxes /\ \E w \in Workspaces : job'[j].ws = {w}
                  BY <1>2, <3>2, <3>3
            <3>.  QED BY <3>1, <3>3, <3>4
      <2>.  QED BY <1>2, <2>2, <2>3 DEF Typed, FlowsTyped
<1>3. ASSUME NEW j \in Workers, CallProvider(j)
      PROVE  Typed'
      <2>1. Of(j) \in Workspaces /\ job[j].mail \in Mailboxes
            BY <1>3, JobOf DEF CallProvider
      <2>2. RowsTyped' /\ UNCHANGED <<conn, grants, disc, link, upgrade, overtaken>>
            BY <1>3, <2>1 DEF CallProvider, Typed, RowsTyped, Rows, provider, connects
      <2>3. FlowsTyped'
            BY <1>2, <1>3 DEF CallProvider, connects, Typed, FlowsTyped
      <2>.  QED BY <2>2, <2>3, TokensStay DEF SameMails, Typed
<1>4. ASSUME NEW j \in Workers, MarkAuthFailed(j)
      PROVE  Typed'
      <2>1. Of(j) \in Workspaces
            BY <1>4, JobOf DEF MarkAuthFailed
      <2>2. UNCHANGED <<grants, watches, accounts, renewal, mishaps, disc, link, upgrade, overtaken>>
            BY <1>4 DEF MarkAuthFailed, provider, connects
      <2>5. conn' \in [Workspaces -> Rows] /\ credit' \in [Workspaces -> Int]
            <3>1. [conn[Of(j)] EXCEPT !.status = "DISCONNECTED"] \in Rows
                  BY <2>1 DEF Typed, RowsTyped, Rows
            <3>2. \/ UNCHANGED <<conn, credit>>
                  \/ /\ conn' = [conn EXCEPT ![Of(j)] = [conn[Of(j)] EXCEPT !.status = "DISCONNECTED"]]
                     /\ credit' = [credit EXCEPT ![Of(j)] = credit[Of(j)] - 1]
                  BY <1>4 DEF MarkAuthFailed
            <3>.  QED BY <2>1, <3>1, <3>2 DEF Typed, RowsTyped
      <2>6. RowsTyped'
            BY <2>2, <2>5 DEF Typed, RowsTyped
      <2>3. \A v \in Workspaces : /\ conn'[v].mail = conn[v].mail /\ conn'[v].token = conn[v].token
                                  /\ conn'[v].status # "NONE" <=> conn[v].status # "NONE"
            BY <1>4, <2>1 DEF MarkAuthFailed, Active, Typed, RowsTyped, Rows
      <2>4. FlowsTyped'
            BY <1>2, <1>4, <2>3 DEF MarkAuthFailed, connects, Typed, FlowsTyped
      <2>.  QED BY <2>2, <2>3, <2>4, <2>6, TokensStay DEF SameMails, Typed
<1>5. ASSUME NEW j \in Workers, NotifyMembers(j) \/ WorkerDies(j)
      PROVE  Typed'
      <2>1. mishaps' \in 0 .. MaxMishaps
            BY <1>5, Bounds DEF NotifyMembers, WorkerDies, Mishap, Typed, RowsTyped, Rows
      <2>2. RowsTyped' /\ UNCHANGED <<conn, grants, disc, link, upgrade, overtaken>>
            BY <1>5, <2>1 DEF NotifyMembers, WorkerDies, Typed, RowsTyped, Rows, provider, connects, history
      <2>3. FlowsTyped'
            BY <1>2, <1>5 DEF NotifyMembers, WorkerDies, connects, Typed, FlowsTyped
      <2>.  QED BY <2>2, <2>3, TokensStay DEF SameMails, Typed
<1>6. ASSUME NEW m \in Mailboxes, UserRevokes(m)
      PROVE  Typed'
      <2>1. /\ grants' \in [Grants -> [mail: Mails, live: BOOLEAN]]
            /\ \A g \in Grants : grants'[g].mail = grants[g].mail
            BY <1>6, WithoutKeeps DEF UserRevokes
      <2>2. mishaps' \in 0 .. MaxMishaps
            BY <1>6, Bounds DEF UserRevokes, Mishap, Typed, RowsTyped, Rows
      <2>3. RowsTyped' /\ FlowsTyped' /\ UNCHANGED <<conn, link, upgrade, overtaken>>
            BY <1>6, <2>1, <2>2 DEF UserRevokes, Typed, RowsTyped, Rows, FlowsTyped, flows, history
      <2>.  QED BY <2>1, <2>3, TokensStay DEF SameMails, Typed
<1>.  QED BY <1>1, <1>3, <1>4, <1>5, <1>6 DEF Job

LEMMA NextTyped == Typed /\ [Next]_vars => Typed'
<1>.  SUFFICES ASSUME Typed, [Next]_vars PROVE Typed'
      OBVIOUS
<1>1. CASE \E w \in Workspaces : Exchanges(w) \/ Requests(w) \/ Persist(w) \/ UpgradeStores(w)
      BY <1>1, ExchangeTyped, RequestTyped, PersistTyped, StoreTyped
<1>2. CASE \E w \in Workspaces : Disconnects(w)
      BY <1>2, DisconnectTyped
<1>3. CASE \/ \E w \in Workspaces : Register(w) \/ StampAges(w)
           \/ \E m \in Mailboxes : RenewalCalls(m) \/ WatchExpires(m)
           \/ RenewalStamps \/ UNCHANGED vars
      BY <1>3, WatchTyped
<1>4. CASE \/ \E j \in Workers : \/ Job(j) \/ WorkerDies(j)
                                 \/ \E w \in Workspaces : JobReads(j, w)
           \/ \E m \in Mailboxes : UserRevokes(m)
      BY <1>4, JobsTyped
<1>.  QED BY <1>1, <1>2, <1>3, <1>4, NextCases DEF Aside, Job

\* Rows, grants and flows have their types in every reachable state, and a row's token is
\* of its mailbox unless a connect came between the check and the write of an upgrade
\* (EmailConnection's writers).
THEOREM ConnectionsTyped == Spec => []ConnectionsTypeOK
<1>1. Typed => ConnectionsTypeOK
      BY DEF Typed, RowsTyped, Rows, Tokens, TokensTyped, RowToken, ConnectionsTypeOK
<1>.  QED BY <1>1, InitTyped, NextTyped, PTL DEF Spec

-----------------------------------------------------------------------------
(* What the steps do to rows, disconnects and grants, field by field.      *)

LEMMA StepCases ==
    ASSUME Typed, [Next]_vars
    PROVE  \/ Quiet
           \/ \E w \in Workspaces : \/ Exchanges(w) \/ Requests(w) \/ Persist(w) \/ UpgradeStores(w)
                                    \/ Disconnects(w)
           \/ \E j \in Workers : CallProvider(j) \/ MarkAuthFailed(j)
           \/ \E m \in Mailboxes : UserRevokes(m)
BY NextCases, AsideQuiet

SameRows(S) == \A v \in Workspaces \ S : SameRow(v)

LEMMA StepKeeps == Typed /\ [Next]_vars => Kept
<1>.  SUFFICES ASSUME Typed, [Next]_vars PROVE Kept
      OBVIOUS
<1>1. ASSUME NEW w \in Workspaces, Exchanges(w)
      PROVE  Kept
      BY <1>1, MintKeeps DEF Exchanges, UpgradeExchange, Exchange
<1>2. ASSUME NEW w \in Workspaces, Disconnects(w)
      PROVE  Kept
      <2>1. grants' = grants \/ grants' = Without(TokenMail(disc[w].token))
            BY <1>2 DEF Disconnects, DisconnectReads, Disconnect, DisconnectFlips, DisconnectCounts,
               StopWatch, RevokeGrant, DisconnectScrubs, DisconnectDies, provider
      <2>.  QED BY <2>1, WithoutKeeps, MailsKeep DEF SameMails
<1>3. ASSUME NEW m \in Mailboxes, UserRevokes(m)
      PROVE  Kept
      BY <1>3, WithoutKeeps, MailsKeep DEF UserRevokes, SameMails
<1>4. ASSUME grants' = grants
      PROVE  Kept
      BY <1>4, MailsKeep DEF SameMails
<1>5. CASE Quiet
      BY <1>4, <1>5 DEF Quiet
<1>6. ASSUME NEW w \in Workspaces, Requests(w) \/ Persist(w) \/ UpgradeStores(w)
      PROVE  Kept
      BY <1>4, <1>6 DEF Requests, ConnectFails, ForgetNudge, EraseStaleAccounts, EraseFails,
         ConnectDies, UpgradeChecks, UpgradeFails, Persist, UpgradeStores, provider
<1>7. ASSUME NEW j \in Workers, CallProvider(j) \/ MarkAuthFailed(j)
      PROVE  Kept
      BY <1>4, <1>7 DEF CallProvider, MarkAuthFailed, provider
<1>.  QED BY <1>1, <1>2, <1>3, <1>5, <1>6, <1>7, StepCases

LEMMA ExchangeDoes ==
    ASSUME Typed, NEW w \in Workspaces, Exchanges(w)
    PROVE  /\ UNCHANGED <<conn, accounts, disc, credit, late, loose, mixed, overtaken>>
           /\ \A v \in Workspaces \ {w} : link'[v] = link[v] /\ upgrade'[v] = upgrade[v]
           /\ link'[w] = link[w] \/ (link[w].at = "idle" /\ link'[w].at = "granted")
           /\ upgrade'[w] = upgrade[w] \/ upgrade[w].at = "idle"
BY DEF Exchanges, UpgradeExchange, Exchange, history, Typed, FlowsTyped

LEMMA RequestDoes ==
    ASSUME Typed, NEW w \in Workspaces, Requests(w)
    PROVE  UNCHANGED <<conn, grants, disc, credit, late, overtaken>> /\ loose \subseteq loose'
BY DEF Requests, ConnectFails, ForgetNudge, EraseStaleAccounts, EraseFails, ConnectDies,
   UpgradeChecks, UpgradeFails, provider, history

LEMMA PersistDoes ==
    ASSUME Typed, NEW w \in Workspaces, Persist(w)
    PROVE  /\ conn'[w].status = "ACTIVE" /\ conn'[w].mail = link[w].mail
           /\ conn'[w].token = link[w].token /\ link[w].at = "granted" /\ link[w].mail \in Mailboxes
           /\ link[w].token # 0 /\ TokenMail(link[w].token) = link[w].mail
           /\ SameRows({w}) /\ UNCHANGED <<grants, disc, accounts, upgrade>>
           /\ \A v \in Workspaces : credit'[v] = IF v = w THEN credit[v] + 1 ELSE credit[v]
           /\ loose \subseteq loose'
           /\ conn[w].mail \notin {NoMailbox, link[w].mail} => conn[w].mail \in loose'
           /\ disc[w].at # "idle" => link[w].mail \in loose'
<1>1. link[w].at = "granted" /\ LinkToken(w)
      BY DEF Persist, Typed, TokensTyped
<1>2. credit \in [Workspaces -> Int] /\ conn \in [Workspaces -> Rows]
      BY DEF Typed, RowsTyped
<1>3. /\ conn'[w].status = "ACTIVE" /\ conn'[w].mail = link[w].mail
      /\ conn'[w].token = link[w].token
      /\ SameRows({w}) /\ UNCHANGED <<grants, disc, accounts, upgrade>>
      BY <1>2 DEF Persist, SameRows, SameRow, Rows, provider
<1>4. \A v \in Workspaces : credit'[v] = IF v = w THEN credit[v] + 1 ELSE credit[v]
      BY <1>2 DEF Persist
<1>.  QED BY <1>1, <1>3, <1>4 DEF LinkToken, Persist

LEMMA StoreDoes ==
    ASSUME Typed, NEW w \in Workspaces, UpgradeStores(w)
    PROVE  /\ conn'[w].status = conn[w].status /\ conn'[w].mail = conn[w].mail
           /\ conn'[w].token = upgrade[w].token /\ upgrade[w].at = "checked"
           /\ upgrade[w].token # 0 /\ upgrade[w].mail \in Mailboxes
           /\ TokenMail(upgrade[w].token) = upgrade[w].mail
           /\ SameRows({w}) /\ UNCHANGED <<grants, disc, accounts, credit, link, late, mixed, overtaken>>
           /\ loose \subseteq loose'
           /\ disc[w].at # "idle" => upgrade[w].mail \in loose'
           /\ conn[w].mail # upgrade[w].mail => {conn[w].mail, upgrade[w].mail} \subseteq loose'
<1>1. upgrade[w].at = "checked" /\ UpgradeToken(w)
      BY DEF UpgradeStores, Typed, TokensTyped
<1>2. conn \in [Workspaces -> Rows]
      BY DEF Typed, RowsTyped
<1>3. /\ conn'[w].status = conn[w].status /\ conn'[w].mail = conn[w].mail
      /\ conn'[w].token = upgrade[w].token /\ SameRows({w})
      BY <1>2 DEF UpgradeStores, SameRows, SameRow, Rows
<1>.  QED BY <1>1, <1>3 DEF UpgradeToken, UpgradeStores, provider

LEMMA DisconnectDoes ==
    ASSUME Typed, NEW w \in Workspaces, Disconnects(w)
    PROVE  /\ \A v \in Workspaces \ {w} : disc'[v] = disc[v]
           /\ SameRows({w}) /\ conn'[w].mail = conn[w].mail
           /\ conn'[w].status \in {conn[w].status, "DISCONNECTED"}
           /\ DisconnectScrubs(w) \/ conn'[w].token = conn[w].token
           /\ UNCHANGED <<credit, late, mixed, overtaken, link, upgrade>> /\ loose \subseteq loose'
           /\ \A v \in Workspaces : accounts'[v] \subseteq accounts[v]
<1>1. conn \in [Workspaces -> Rows] /\ accounts \in [Workspaces -> SUBSET Mailboxes]
      BY DEF Typed, RowsTyped
<1>2. \A v \in Workspaces \ {w} : disc'[v] = disc[v]
      BY DEF Disconnects, DisconnectReads, Disconnect, DisconnectFlips, DisconnectCounts, StopWatch,
         RevokeGrant, DisconnectScrubs, DisconnectDies, Disc, Typed, FlowsTyped
<1>3. UNCHANGED <<credit, late, mixed, overtaken, link, upgrade>> /\ loose \subseteq loose'
      BY DEF Disconnects, DisconnectReads, Disconnect, DisconnectFlips, DisconnectCounts, StopWatch,
         RevokeGrant, DisconnectScrubs, DisconnectDies, connects, history
<1>4. /\ SameRows({w}) /\ conn'[w].mail = conn[w].mail
      /\ conn'[w].status \in {conn[w].status, "DISCONNECTED"}
      /\ DisconnectScrubs(w) \/ conn'[w].token = conn[w].token
      BY <1>1 DEF Disconnects, DisconnectReads, Disconnect, DisconnectFlips, DisconnectCounts, StopWatch,
         RevokeGrant, DisconnectScrubs, DisconnectDies, SameRows, SameRow, Rows
<1>5. \A v \in Workspaces : accounts'[v] \subseteq accounts[v]
      BY <1>1 DEF Disconnects, DisconnectReads, Disconnect, DisconnectFlips, DisconnectCounts, StopWatch,
         RevokeGrant, DisconnectScrubs, DisconnectDies
<1>.  QED BY <1>2, <1>3, <1>4, <1>5

LEMMA MarkDoes ==
    ASSUME Typed, NEW j \in Workers, MarkAuthFailed(j)
    PROVE  /\ UNCHANGED <<grants, accounts, disc, link, upgrade, late, loose, mixed, overtaken>>
           /\ \A v \in Workspaces :
                 /\ conn'[v].mail = conn[v].mail /\ conn'[v].token = conn[v].token
                 /\ conn'[v].status \in {conn[v].status, "DISCONNECTED"}
                 /\ \/ conn'[v].status = conn[v].status /\ credit'[v] = credit[v]
                    \/ Active(v) /\ ~Active(v)' /\ credit'[v] = credit[v] - 1
<1>1. Of(j) \in Workspaces
      BY JobOf DEF MarkAuthFailed
<1>2. UNCHANGED <<grants, accounts, disc, link, upgrade, late, loose, mixed, overtaken>>
      BY DEF MarkAuthFailed, provider, connects
<1>3. conn \in [Workspaces -> Rows] /\ credit \in [Workspaces -> Int]
      BY DEF Typed, RowsTyped
<1>4. CASE Active(Of(j))
      BY <1>1, <1>2, <1>3, <1>4 DEF MarkAuthFailed, Active, Rows
<1>5. CASE ~Active(Of(j))
      BY <1>2, <1>5 DEF MarkAuthFailed
<1>.  QED BY <1>4, <1>5

-----------------------------------------------------------------------------
(* A lost connection is told of at most once: an ACTIVE row still has the   *)
(* credit of its last connect, and the flip that spends it ends ACTIVE.     *)

CreditInv == \A w \in Workspaces : credit[w] >= IF Active(w) THEN 1 ELSE 0

LEMMA CreditStep ==
    ASSUME Typed, CreditInv, [Next]_vars
    PROVE  CreditInv'
<1>.  credit \in [Workspaces -> Int]
      BY DEF Typed, RowsTyped
<1>1. CASE Quiet
      BY <1>1 DEF Quiet, SameRow, CreditInv, Active
<1>2. ASSUME NEW w \in Workspaces, Persist(w)
      PROVE  CreditInv'
      BY <1>2, PersistDoes DEF SameRows, SameRow, CreditInv, Active
<1>3. ASSUME NEW w \in Workspaces, UpgradeStores(w)
      PROVE  CreditInv'
      BY <1>3, StoreDoes DEF SameRows, SameRow, CreditInv, Active
<1>4. ASSUME NEW w \in Workspaces, Exchanges(w) \/ Requests(w)
      PROVE  CreditInv'
      BY <1>4, ExchangeDoes, RequestDoes DEF CreditInv, Active
<1>5. ASSUME NEW w \in Workspaces, Disconnects(w)
      PROVE  CreditInv'
      BY <1>5, DisconnectDoes DEF SameRows, SameRow, CreditInv, Active
<1>6. ASSUME NEW j \in Workers, MarkAuthFailed(j)
      PROVE  CreditInv'
      BY <1>6, MarkDoes DEF CreditInv, Active
<1>7. CASE \/ \E j \in Workers : CallProvider(j)
           \/ \E m \in Mailboxes : UserRevokes(m)
      BY <1>7 DEF CallProvider, UserRevokes, history, CreditInv, Active
<1>.  QED BY <1>1, <1>2, <1>3, <1>4, <1>5, <1>6, <1>7, StepCases

\* However many jobs meet one dead grant, and however late, the members are told of a lost
\* connection at most once for each connect (markGmailConnectionAuthFailed's guarded update).
THEOREM ToldAtMostOnce == Spec => []ToldOncePerConnection
<1>1. Init => CreditInv
      BY DEF Init, CreditInv, Active, NoRow
<1>2. Typed /\ CreditInv /\ [Next]_vars => CreditInv'
      BY CreditStep
<1>3. Typed /\ CreditInv => ToldOncePerConnection
      BY DEF Typed, RowsTyped, CreditInv, ToldOncePerConnection
<1>.  QED BY <1>1, <1>2, <1>3, InitTyped, NextTyped, PTL DEF Spec

-----------------------------------------------------------------------------
(* The last disconnect of a mailbox revokes its grant.                     *)

RowHas(v, m) == conn[v].token # 0 /\ TokenMail(conn[v].token) = m

\* The disconnect of w read a token of the row's mailbox, and knows what it will revoke.
Knows(w) == disc[w].token # 0 /\ TokenMail(disc[w].token) = disc[w].mail

\* What a row, and a disconnect of it, may hold, but for the mailboxes that are loose.
Cross(w) ==
    /\ \A m \in Mailboxes \ loose : RowHas(w, m) =>
          /\ conn[w].mail = m
          /\ disc[w].at # "idle" => disc[w].mail = m /\ Knows(w)
    /\ Active(w) /\ conn[w].mail \notin loose =>
          RowHas(w, conn[w].mail) /\ disc[w].at \in {"idle", "flip"}

CrossInv == \A w \in Workspaces : Cross(w)

\* The row of v still answers for the grant of m (its own disconnect, if any, has yet to find
\* out whether it is the last), or a connect or an upgrade of v has yet to.
Holds(v, m) ==
    \/ RowHas(v, m) /\ disc[v].at # "scrub"
    \/ link[v].at = "granted" /\ link[v].mail = m
    \/ upgrade[v].at # "idle" /\ upgrade[v].mail = m

\* An honoured grant has somebody who answers for it.
HolderInv ==
    \A g \in Grants : grants[g].live =>
        \/ grants[g].mail \in loose
        \/ \E v \in Workspaces : Holds(v, grants[g].mail)

\* Rows hold tokens of the mailboxes they held tokens of.
LEMMA RowHasKept ==
    ASSUME Typed, Kept, NEW v \in Workspaces, conn'[v].token = conn[v].token
    PROVE  \A m \in Mails : RowHas(v, m)' <=> RowHas(v, m)
<1>1. PICK t \in Tokens : t = conn[v].token
      BY DEF Typed, RowsTyped, Rows
<1>2. t # 0 => TokenMail(t)' = TokenMail(t)
      <2>1. t # 0 => TokenMail(t) \in Mailboxes
            BY <1>1 DEF Typed, TokensTyped, RowToken
      <2>.  QED BY <2>1, Bounds DEF Kept
<1>.  QED BY <1>1, <1>2 DEF RowHas, TokenMail

LEMMA KnowsKept ==
    ASSUME Typed, Kept, NEW v \in Workspaces, disc'[v].token = disc[v].token,
           disc'[v].mail = disc[v].mail, disc[v].mail \in Mailboxes, Knows(v)
    PROVE  Knows(v)'
<1>1. PICK t \in Tokens : t = disc[v].token
      BY DEF Typed, FlowsTyped, Discs
<1>2. TokenMail(t)' = TokenMail(t)
      BY <1>1, Bounds DEF Kept, Knows
<1>.  QED BY <1>1, <1>2 DEF Knows, TokenMail

LEMMA CrossKept ==
    ASSUME Typed, Kept, NEW v \in Workspaces, Cross(v), conn'[v].mail = conn[v].mail,
           conn'[v].token = conn[v].token, Active(v)' => Active(v),
           disc'[v] = disc[v], loose \subseteq loose'
    PROVE  Cross(v)'
<1>1. \A m \in Mails : RowHas(v, m)' <=> RowHas(v, m)
      BY RowHasKept
<1>2. disc[v].at # "idle" => disc[v].mail \in Mailboxes
      BY DEF Typed, FlowsTyped
<1>3. disc[v].at # "idle" /\ Knows(v) => Knows(v)'
      BY <1>2, KnowsKept
<1>4. conn[v].mail \in Mails
      BY DEF Typed, RowsTyped, Rows
<1>.  QED BY <1>1, <1>3, <1>4 DEF Cross, Mails

\* A token of m was written to the row.
LEMMA CrossWrite ==
    ASSUME Typed, NEW v \in Workspaces, NEW m \in Mailboxes, NEW t \in Tokens, t # 0,
           conn'[v].token = t, TokenMail(t) = m, grants' = grants, disc' = disc,
           loose \subseteq loose', disc[v].at # "idle" => m \in loose',
           conn'[v].mail = m \/ {conn'[v].mail, m} \subseteq loose'
    PROVE  Cross(v)'
<1>1. \A n : RowHas(v, n)' <=> n = m
      BY DEF RowHas, TokenMail
<1>.  QED BY <1>1 DEF Cross

LEMMA CrossDisconnect ==
    ASSUME Typed, CrossInv, Kept, NEW w \in Workspaces, Disconnects(w)
    PROVE  Cross(w)'
<1>1. Cross(w) /\ loose \subseteq loose' /\ conn'[w].mail = conn[w].mail
      BY DisconnectDoes DEF CrossInv
<1>2. disc \in [Workspaces -> Discs] /\ (disc[w].at # "idle" => disc[w].mail \in Mailboxes)
      BY DEF Typed, FlowsTyped
<1>3. conn \in [Workspaces -> Rows] /\ conn[w].mail \in Mails
      BY DEF Typed, RowsTyped, Rows
<1>4. CASE DisconnectReads(w)
      <2>1. /\ conn' = conn /\ grants' = grants /\ loose' = loose
            /\ disc'[w] = [at |-> "flip", mail |-> conn[w].mail, token |-> conn[w].token]
            BY <1>2, <1>4 DEF DisconnectReads, provider, history
      <2>.  QED BY <1>1, <2>1 DEF Cross, RowHas, Knows, Active, TokenMail
<1>5. CASE DisconnectScrubs(w)
      <2>1. /\ disc'[w] = Idle /\ conn'[w].status = conn[w].status /\ loose' = loose
            /\ conn'[w].token = 0
            BY <1>2, <1>3, <1>5 DEF DisconnectScrubs, history, Rows
      <2>.  QED BY <1>1, <1>5, <2>1 DEF DisconnectScrubs, Idle, Cross, RowHas, Active
<1>6. CASE DisconnectDies(w)
      <2>1. disc'[w] = Idle /\ UNCHANGED <<conn, grants, loose>>
            BY <1>2, <1>6 DEF DisconnectDies, provider, history
      <2>.  QED BY <1>1, <2>1 DEF Idle, Cross, RowHas, Active, TokenMail
<1>7. ASSUME NEW step \in {"count", "stop", "revoke", "scrub"}, Disc(w, step), disc[w].at # "idle",
             conn'[w].token = conn[w].token,
             Active(w)' => Active(w) /\ disc[w].at # "flip"
      PROVE  Cross(w)'
      <2>1. disc'[w] = [disc[w] EXCEPT !.at = step]
            BY <1>2, <1>7 DEF Disc
      <2>2. disc'[w].at = step /\ disc'[w].mail = disc[w].mail /\ disc'[w].token = disc[w].token
            BY <1>2, <2>1 DEF Discs
      <2>3. \A m \in Mails : RowHas(w, m)' <=> RowHas(w, m)
            BY <1>7, RowHasKept
      <2>4. Knows(w) => Knows(w)'
            BY <1>2, <1>7, <2>2, KnowsKept
      <2>5. \A m \in Mailboxes \ loose' : RowHas(w, m)' =>
               /\ conn'[w].mail = m
               /\ disc'[w].at # "idle" => disc'[w].mail = m /\ Knows(w)'
            BY <1>1, <1>7, <2>2, <2>3, <2>4 DEF Cross, Mails
      <2>6. Active(w)' => conn'[w].mail \in loose'
            BY <1>1, <1>7 DEF Cross
      <2>.  QED BY <2>5, <2>6 DEF Cross
<1>8. CASE DisconnectFlips(w)
      <2>1. conn'[w].status = "DISCONNECTED" /\ conn'[w].token = conn[w].token
            BY <1>3, <1>8 DEF DisconnectFlips, Rows
      <2>.  QED BY <1>7, <1>8, <2>1 DEF DisconnectFlips, Active
<1>9. CASE DisconnectCounts(w) \/ StopWatch(w) \/ RevokeGrant(w)
      BY <1>7, <1>9 DEF DisconnectCounts, StopWatch, RevokeGrant, Active
<1>.  QED BY <1>4, <1>5, <1>6, <1>8, <1>9 DEF Disconnects, Disconnect

LEMMA CrossStep ==
    ASSUME Typed, CrossInv, [Next]_vars
    PROVE  CrossInv'
<1>.  Kept
      BY StepKeeps
<1>1. CASE Quiet
      BY <1>1, CrossKept DEF Quiet, SameRow, CrossInv, Active
<1>2. ASSUME NEW w \in Workspaces, Persist(w)
      PROVE  CrossInv'
      <2>1. Cross(w)'
            BY <1>2, PersistDoes, CrossWrite DEF Typed, FlowsTyped, Links
      <2>2. \A v \in Workspaces \ {w} : Cross(v)'
            BY <1>2, PersistDoes, CrossKept DEF SameRows, SameRow, CrossInv, Active
      <2>.  QED BY <2>1, <2>2 DEF CrossInv
<1>3. ASSUME NEW w \in Workspaces, UpgradeStores(w)
      PROVE  CrossInv'
      <2>1. Cross(w)'
            <3>1. PICK m \in Mailboxes, t \in Tokens : m = upgrade[w].mail /\ t = upgrade[w].token
                  BY <1>3, StoreDoes DEF Typed, FlowsTyped, Upgrades
            <3>2. /\ t # 0 /\ conn'[w].token = t /\ TokenMail(t) = m /\ grants' = grants /\ disc' = disc
                  /\ loose \subseteq loose' /\ (disc[w].at # "idle" => m \in loose')
                  /\ conn'[w].mail = m \/ {conn'[w].mail, m} \subseteq loose'
                  BY <1>3, <3>1, StoreDoes
            <3>.  QED BY <3>2, CrossWrite
      <2>2. \A v \in Workspaces \ {w} : Cross(v)'
            BY <1>3, StoreDoes, CrossKept DEF SameRows, SameRow, CrossInv, Active
      <2>.  QED BY <2>1, <2>2 DEF CrossInv
<1>4. ASSUME NEW w \in Workspaces, Exchanges(w) \/ Requests(w)
      PROVE  CrossInv'
      BY <1>4, ExchangeDoes, RequestDoes, CrossKept DEF CrossInv, Active
<1>5. ASSUME NEW w \in Workspaces, Disconnects(w)
      PROVE  CrossInv'
      <2>1. \A v \in Workspaces \ {w} : Cross(v)'
            BY <1>5, DisconnectDoes, CrossKept DEF SameRows, SameRow, CrossInv, Active
      <2>.  QED BY <1>5, <2>1, CrossDisconnect DEF CrossInv
<1>6. ASSUME NEW j \in Workers, MarkAuthFailed(j)
      PROVE  CrossInv'
      BY <1>6, MarkDoes, CrossKept DEF CrossInv, Active
<1>7. CASE \/ \E j \in Workers : CallProvider(j)
           \/ \E m \in Mailboxes : UserRevokes(m)
      BY <1>7, CrossKept DEF CallProvider, UserRevokes, flows, history, CrossInv, Active
<1>.  QED BY <1>1, <1>2, <1>3, <1>4, <1>5, <1>6, <1>7, StepCases

\* A row that keeps its token keeps answering for it.
LEMMA HoldsKept ==
    ASSUME Typed, Kept, NEW v \in Workspaces, conn'[v].token = conn[v].token,
           disc'[v].at = "scrub" => disc[v].at = "scrub",
           link'[v] = link[v] \/ link[v].at # "granted",
           upgrade[v].at # "idle" => upgrade'[v].at # "idle" /\ upgrade'[v].mail = upgrade[v].mail
    PROVE  \A m \in Mails : Holds(v, m) => Holds(v, m)'
BY RowHasKept DEF Holds

\* No grant comes to life, and whoever answered for one still does.
LEMMA HoldersStay ==
    ASSUME Typed, HolderInv, loose \subseteq loose',
           \A g \in Grants : grants'[g].live => grants[g].live /\ grants'[g].mail = grants[g].mail,
           \A v \in Workspaces : \A m \in Mails :
              (\E g \in Grants : grants'[g].live /\ grants[g].mail = m) /\ Holds(v, m) =>
                 m \in loose' \/ \E u \in Workspaces : Holds(u, m)'
    PROVE  HolderInv'
<1>1. SUFFICES ASSUME NEW g \in Grants, grants'[g].live
               PROVE  (grants[g].mail \in loose \/ \E u \in Workspaces : Holds(u, grants[g].mail))'
      BY DEF HolderInv
<1>2. PICK m \in Mails : m = grants[g].mail
      BY DEF Typed, RowsTyped
<1>3. m \in loose \/ \E v \in Workspaces : Holds(v, m)
      BY <1>1, <1>2 DEF HolderInv
<1>4. m \in loose' \/ \E u \in Workspaces : Holds(u, m)'
      BY <1>1, <1>2, <1>3
<1>5. grants'[g].mail = m
      BY <1>1, <1>2
<1>.  QED BY <1>4, <1>5 DEF Holds, RowHas, TokenMail

LEMMA HolderExchange ==
    ASSUME Typed, Kept, HolderInv, NEW w \in Workspaces, Exchanges(w)
    PROVE  HolderInv'
<1>1. PICK m \in Mailboxes : /\ NextGrant \in Grants /\ Mint(m)
                             /\ UpgradeExchange(w, m) \/ \E web \in BOOLEAN : Exchange(w, m, web)
      BY DEF Exchanges, UpgradeExchange, Exchange
<1>2. Holds(w, m)' /\ loose' = loose /\ conn' = conn /\ disc' = disc
      BY <1>1 DEF UpgradeExchange, Exchange, history, Holds, Typed, FlowsTyped
<1>3. \A v \in Workspaces : \A n \in Mails : Holds(v, n) => Holds(v, n)'
      <2>1. ASSUME NEW v \in Workspaces
            PROVE  /\ link'[v] = link[v] \/ link[v].at # "granted"
                   /\ upgrade[v].at # "idle" => upgrade'[v] = upgrade[v]
            BY ExchangeDoes
      <2>.  QED BY <1>2, <2>1, HoldsKept
<1>4. SUFFICES ASSUME NEW g \in Grants, grants'[g].live
               PROVE  grants'[g].mail \in loose \/ \E v \in Workspaces : Holds(v, grants[g].mail)'
      BY <1>2 DEF HolderInv
<1>5. PICK n \in Mails : n = grants'[g].mail
      BY <1>1, MintTyped
<1>6. CASE g = NextGrant
      <2>1. n = m
            BY <1>1, <1>5, <1>6, MintTyped
      <2>.  QED BY <1>2, <1>5, <2>1 DEF Holds, RowHas, TokenMail
<1>7. CASE g # NextGrant
      <2>1. grants'[g] = grants[g]
            BY <1>1, <1>7, MintTyped
      <2>2. n \in loose \/ \E v \in Workspaces : Holds(v, n)
            BY <1>4, <1>5, <2>1 DEF HolderInv
      <2>3. n \in loose \/ \E v \in Workspaces : Holds(v, n)'
            BY <1>3, <2>2
      <2>.  QED BY <1>5, <2>3 DEF Holds, RowHas, TokenMail
<1>.  QED BY <1>6, <1>7

LEMMA HolderRequest ==
    ASSUME Typed, Kept, HolderInv, NEW w \in Workspaces, Requests(w)
    PROVE  HolderInv'
<1>1. UNCHANGED <<conn, grants, disc>> /\ loose \subseteq loose'
      BY RequestDoes
<1>2. \A v \in Workspaces \ {w} : link'[v] = link[v] /\ upgrade'[v] = upgrade[v]
      BY DEF Requests, ConnectFails, ForgetNudge, EraseStaleAccounts, EraseFails, ConnectDies,
         UpgradeChecks, UpgradeFails, Typed, FlowsTyped
<1>3. \A v \in Workspaces \ {w} : \A m \in Mails : Holds(v, m) => Holds(v, m)'
      BY <1>1, <1>2, HoldsKept
<1>4. \A m \in Mails : Holds(w, m) => m \in loose' \/ Holds(w, m)'
      <2>1. \A m \in Mails : RowHas(w, m) => RowHas(w, m)'
            BY <1>1, RowHasKept
      <2>2. \A m \in Mails : link[w].at = "granted" /\ link[w].mail = m =>
               m \in loose' \/ (link'[w].at = "granted" /\ link'[w].mail = m)
            BY DEF Requests, ConnectFails, ForgetNudge, EraseStaleAccounts, EraseFails, ConnectDies,
               UpgradeChecks, UpgradeFails
      <2>3. \A m \in Mails : upgrade[w].at # "idle" /\ upgrade[w].mail = m =>
               m \in loose' \/ (upgrade'[w].at # "idle" /\ upgrade'[w].mail = m)
            <3>1. CASE UpgradeChecks(w)
                  BY <3>1 DEF UpgradeChecks, Typed, FlowsTyped, Upgrades
            <3>2. CASE UpgradeFails(w)
                  BY <3>2 DEF UpgradeFails
            <3>3. CASE upgrade' = upgrade
                  BY <3>3
            <3>.  QED BY <3>1, <3>2, <3>3 DEF Requests, ConnectFails, ForgetNudge,
                     EraseStaleAccounts, EraseFails, ConnectDies
      <2>.  QED BY <1>1, <2>1, <2>2, <2>3 DEF Holds
<1>.  QED BY <1>1, <1>3, <1>4, HoldersStay

\* The row is written: it answers for the token, or is itself being disconnected, and what it
\* held is of the same mailbox or loose.
LEMMA HolderWrite ==
    ASSUME Typed, Kept, CrossInv, HolderInv, NEW w \in Workspaces, Persist(w) \/ UpgradeStores(w)
    PROVE  HolderInv'
<1>1. PICK m \in Mailboxes, t \in Tokens :
         /\ t # 0 /\ conn'[w].token = t /\ TokenMail(t) = m
         /\ grants' = grants /\ disc' = disc /\ SameRows({w}) /\ loose \subseteq loose'
         /\ disc[w].at # "idle" => m \in loose'
         /\ conn[w].mail = m \/ conn[w].mail \in loose' \/ conn[w].mail = NoMailbox
         /\ \A v \in Workspaces \ {w} : link'[v] = link[v] /\ upgrade'[v] = upgrade[v]
         /\ \/ upgrade' = upgrade /\ link[w].mail = m
            \/ link' = link /\ upgrade[w].mail = m
      <2>1. CASE Persist(w)
            <3>1. /\ link[w].mail \in Mailboxes /\ link[w].token \in Tokens
                  /\ \A v \in Workspaces \ {w} : link'[v] = link[v]
                  BY <2>1, PersistDoes DEF Persist, Typed, FlowsTyped, Links
            <3>.  QED BY <2>1, <3>1, PersistDoes
      <2>2. CASE UpgradeStores(w)
            <3>1. /\ upgrade[w].mail \in Mailboxes /\ upgrade[w].token \in Tokens
                  /\ \A v \in Workspaces \ {w} : upgrade'[v] = upgrade[v]
                  BY <2>2, StoreDoes DEF UpgradeStores, Typed, FlowsTyped, Upgrades
            <3>.  QED BY <2>2, <3>1, StoreDoes
      <2>.  QED BY <2>1, <2>2
<1>2. m \in loose' \/ Holds(w, m)'
      BY <1>1 DEF Holds, RowHas, TokenMail
<1>3. \A v \in Workspaces \ {w} : \A n \in Mails : Holds(v, n) => Holds(v, n)'
      BY <1>1, HoldsKept DEF SameRows, SameRow
<1>4. \A n \in Mails : RowHas(w, n) => n = m \/ n \in loose'
      <2>1. ASSUME NEW n \in Mails, RowHas(w, n)
            PROVE  n \in Mailboxes
            BY <2>1 DEF RowHas, Typed, TokensTyped, RowToken
      <2>2. ASSUME NEW n \in Mails, RowHas(w, n)
            PROVE  n \in loose \/ conn[w].mail = n
            BY <2>1, <2>2 DEF CrossInv, Cross
      <2>.  QED BY <1>1, <2>1, <2>2, Bounds
<1>5. \A n \in Mails : Holds(w, n) => n = m \/ n \in loose' \/ Holds(w, n)'
      BY <1>1, <1>4 DEF Holds
<1>6. ASSUME NEW v \in Workspaces, NEW n \in Mails, Holds(v, n)
      PROVE  n \in loose' \/ \E u \in Workspaces : Holds(u, n)'
      BY <1>2, <1>3, <1>5, <1>6
<1>.  QED BY <1>1, <1>6, HoldersStay

\* A disconnect that does not revoke leaves the grant to an active sibling.
LEMMA HolderDisconnect ==
    ASSUME Typed, Kept, CrossInv, HolderInv, NEW w \in Workspaces, Disconnects(w)
    PROVE  HolderInv'
<1>1. /\ SameRows({w}) /\ conn'[w].mail = conn[w].mail /\ loose \subseteq loose'
      /\ \A v \in Workspaces \ {w} : disc'[v] = disc[v]
      /\ link' = link /\ upgrade' = upgrade
      BY DisconnectDoes
<1>2. disc \in [Workspaces -> Discs]
      BY DEF Typed, FlowsTyped
<1>3. \A v \in Workspaces \ {w} : \A m \in Mails : Holds(v, m) => Holds(v, m)'
      BY <1>1, HoldsKept DEF SameRows, SameRow
<1>4. \A m \in Mails : Holds(w, m) => Holds(w, m)' \/ (RowHas(w, m) /\ disc[w].at # "scrub")
      BY <1>1 DEF Holds
<1>5. \A m \in Mails : RowHas(w, m) => m \in Mailboxes
      BY DEF RowHas, Typed, TokensTyped, RowToken
<1>6. CASE DisconnectReads(w) \/ DisconnectFlips(w) \/ DisconnectDies(w) \/ StopWatch(w)
      <2>1. conn'[w].token = conn[w].token /\ grants' = grants
            BY <1>6, DisconnectDoes DEF DisconnectReads, DisconnectFlips, DisconnectDies, StopWatch,
               DisconnectScrubs, provider
      <2>2. disc'[w].at = "scrub" => disc[w].at = "scrub"
            BY <1>2, <1>6 DEF DisconnectReads, DisconnectFlips, DisconnectDies, StopWatch, Disc, Discs, Idle
      <2>3. \A m \in Mails : Holds(w, m) => Holds(w, m)'
            BY <1>1, <2>1, <2>2, HoldsKept
      <2>.  QED BY <1>1, <1>3, <2>1, <2>3, HoldersStay
<1>7. CASE DisconnectCounts(w)
      <2>1. /\ conn' = conn /\ grants' = grants /\ disc[w].at = "count"
            /\ disc' = [disc EXCEPT ![w].at = IF ActiveSiblings(w) = {} /\ disc[w].token # 0
                                              THEN "stop" ELSE "scrub"]
            BY <1>7 DEF DisconnectCounts, Disc, provider
      <2>2. CASE ActiveSiblings(w) = {} /\ disc[w].token # 0
            <3>1. disc'[w].at = "stop"
                  BY <1>2, <2>1, <2>2
            <3>2. \A m \in Mails : Holds(w, m) => Holds(w, m)'
                  BY <1>1, <2>1, <3>1, HoldsKept
            <3>.  QED BY <1>1, <1>3, <2>1, <3>2, HoldersStay
      <2>3. CASE disc[w].token = 0 \/ ActiveSiblings(w) # {}
            <3>1. ASSUME NEW m \in Mails, RowHas(w, m), m \notin loose
                  PROVE  \E v \in Workspaces \ {w} : Holds(v, m)
                  <4>1. m = disc[w].mail /\ disc[w].token # 0 /\ m \in Mailboxes
                        BY <1>5, <2>1, <3>1 DEF CrossInv, Cross, Knows
                  <4>2. PICK v \in Workspaces \ {w} : Active(v) /\ conn[v].mail = m
                        BY <2>3, <4>1 DEF ActiveSiblings
                  <4>3. RowHas(v, m) /\ disc[v].at \in {"idle", "flip"}
                        BY <3>1, <4>2 DEF CrossInv, Cross
                  <4>.  QED BY <4>3 DEF Holds
            <3>2. ASSUME NEW m \in Mails, Holds(w, m)
                  PROVE  m \in loose' \/ \E u \in Workspaces : Holds(u, m)'
                  BY <1>1, <1>3, <1>4, <3>1, <3>2
            <3>.  QED BY <1>1, <1>3, <2>1, <3>2, HoldersStay
      <2>.  QED BY <2>2, <2>3
<1>8. CASE RevokeGrant(w)
      <2>1. disc[w].at = "revoke"
            BY <1>8 DEF RevokeGrant
      <2>2. \A m \in Mails : RowHas(w, m) /\ m \notin loose =>
               m = disc[w].mail /\ TokenMail(disc[w].token) = m
            BY <1>5, <2>1 DEF CrossInv, Cross, Knows
      <2>3. CASE grants' = Without(TokenMail(disc[w].token))
            <3>1. \A g \in Grants : grants'[g].live =>
                     /\ grants[g].live /\ grants'[g].mail = grants[g].mail
                     /\ grants[g].mail # TokenMail(disc[w].token)
                  BY <2>3, WithoutKeeps
            <3>2. ASSUME NEW v \in Workspaces, NEW m \in Mails, NEW g \in Grants,
                         grants'[g].live, grants[g].mail = m, Holds(v, m)
                  PROVE  m \in loose' \/ \E u \in Workspaces : Holds(u, m)'
                  BY <1>1, <1>3, <1>4, <2>2, <3>1, <3>2
            <3>.  QED BY <1>1, <3>1, <3>2, HoldersStay
      <2>4. CASE grants' = grants /\ loose' = loose \cup {disc[w].mail}
            <3>1. ASSUME NEW v \in Workspaces, NEW m \in Mails, Holds(v, m)
                  PROVE  m \in loose' \/ \E u \in Workspaces : Holds(u, m)'
                  BY <1>1, <1>3, <1>4, <2>2, <2>4, <3>1
            <3>.  QED BY <1>1, <2>4, <3>1, HoldersStay
      <2>.  QED BY <1>8, <2>3, <2>4 DEF RevokeGrant
<1>9. CASE DisconnectScrubs(w)
      <2>1. grants' = grants /\ disc[w].at = "scrub"
            BY <1>9 DEF DisconnectScrubs, provider
      <2>2. \A m \in Mails : Holds(w, m) => Holds(w, m)'
            BY <1>4, <2>1
      <2>.  QED BY <1>1, <1>3, <2>1, <2>2, HoldersStay
<1>.  QED BY <1>6, <1>7, <1>8, <1>9 DEF Disconnects, Disconnect

LEMMA HolderStep ==
    ASSUME Typed, CrossInv, HolderInv, [Next]_vars
    PROVE  HolderInv'
<1>.  Kept
      BY StepKeeps
<1>1. CASE Quiet
      <2>1. \A v \in Workspaces : \A m \in Mails : Holds(v, m) => Holds(v, m)'
            BY <1>1, HoldsKept DEF Quiet, SameRow
      <2>.  QED BY <1>1, <2>1, HoldersStay DEF Quiet
<1>2. CASE \E w \in Workspaces : Exchanges(w) \/ Requests(w) \/ Persist(w) \/ UpgradeStores(w)
      BY <1>2, HolderExchange, HolderRequest, HolderWrite
<1>3. CASE \E w \in Workspaces : Disconnects(w)
      BY <1>3, HolderDisconnect
<1>4. ASSUME NEW j \in Workers, MarkAuthFailed(j)
      PROVE  HolderInv'
      <2>1. \A v \in Workspaces : \A m \in Mails : Holds(v, m) => Holds(v, m)'
            BY <1>4, MarkDoes, HoldsKept
      <2>.  QED BY <1>4, <2>1, MarkDoes, HoldersStay
<1>5. ASSUME NEW j \in Workers, CallProvider(j)
      PROVE  HolderInv'
      <2>1. UNCHANGED <<conn, grants, disc, link, upgrade, loose>>
            BY <1>5 DEF CallProvider, provider, connects
      <2>2. \A v \in Workspaces : \A m \in Mails : Holds(v, m) => Holds(v, m)'
            BY <2>1, HoldsKept
      <2>.  QED BY <2>1, <2>2, HoldersStay
<1>6. ASSUME NEW m \in Mailboxes, UserRevokes(m)
      PROVE  HolderInv'
      <2>1. grants' = Without(m) /\ UNCHANGED <<conn, disc, link, upgrade, loose>>
            BY <1>6 DEF UserRevokes, flows, history
      <2>2. \A v \in Workspaces : \A n \in Mails : Holds(v, n) => Holds(v, n)'
            BY <2>1, HoldsKept
      <2>.  QED BY <2>1, <2>2, WithoutKeeps, HoldersStay
<1>.  QED BY <1>1, <1>2, <1>3, <1>4, <1>5, <1>6, StepCases

\* When nothing has a token of a mailbox any more, no grant of it is honoured, unless a
\* connect or an upgrade failed after its exchange, a revocation failed, a row was rotated to
\* another mailbox or given a token while it was being disconnected (disconnectGmail's count
\* of active siblings after its own flip).
THEOREM LastOneRevokes == Spec => []LastDisconnectRevokes
<1>1. Init => CrossInv /\ HolderInv
      BY DEF Init, CrossInv, Cross, RowHas, HolderInv, Active, NoRow, Idle
<1>2. Typed /\ CrossInv /\ HolderInv /\ [Next]_vars => (CrossInv /\ HolderInv)'
      BY CrossStep, HolderStep
<1>3. HolderInv => LastDisconnectRevokes
      BY DEF HolderInv, Holds, RowHas, TokenKept, LastDisconnectRevokes
<1>.  QED BY <1>1, <1>2, <1>3, InitTyped, NextTyped, PTL DEF Spec


-----------------------------------------------------------------------------
(* A disconnect spares the grants of its siblings.                         *)

\* Past the count, a row that is active on the mailbox connected since.
LateInv ==
    \A w, v \in Workspaces :
        (/\ disc[w].at \in {"stop", "revoke"} /\ v # w
         /\ Active(v) /\ conn[v].mail = disc[w].mail) => v \in late

LEMMA LateStep ==
    ASSUME Typed, LateInv, [Next]_vars
    PROVE  LateInv'
<1>.  disc \in [Workspaces -> Discs]
      BY DEF Typed, FlowsTyped
<1>1. CASE Quiet
      BY <1>1 DEF Quiet, SameRow, LateInv, Active
<1>2. ASSUME NEW w \in Workspaces, Persist(w)
      PROVE  LateInv'
      <2>1. /\ conn'[w].mail = link[w].mail /\ SameRows({w}) /\ disc' = disc
            /\ late \subseteq late' \cup {w}
            /\ Disconnecting(link[w].mail) => w \in late'
            BY <1>2, PersistDoes DEF Persist
      <2>2. \A u \in Workspaces : disc[u].at \in {"stop", "revoke"} => disc[u].at # "idle"
            OBVIOUS
      <2>.  QED BY <2>1, <2>2 DEF LateInv, Disconnecting, SameRows, SameRow, Active
<1>3. ASSUME NEW w \in Workspaces, UpgradeStores(w)
      PROVE  LateInv'
      BY <1>3, StoreDoes DEF LateInv, SameRows, SameRow, Active
<1>4. ASSUME NEW w \in Workspaces, Exchanges(w) \/ Requests(w)
      PROVE  LateInv'
      BY <1>4, ExchangeDoes, RequestDoes DEF LateInv, Active
<1>5. ASSUME NEW w \in Workspaces, Disconnects(w)
      PROVE  LateInv'
      <2>1. /\ SameRows({w}) /\ conn'[w].mail = conn[w].mail
            /\ conn'[w].status \in {conn[w].status, "DISCONNECTED"} /\ late' = late
            /\ \A v \in Workspaces \ {w} : disc'[v] = disc[v]
            BY <1>5, DisconnectDoes
      <2>2. disc'[w].at \in {"stop", "revoke"} =>
               /\ disc'[w].mail = disc[w].mail
               /\ ActiveSiblings(w) = {} \/ disc[w].at \in {"stop", "revoke"}
            BY <1>5 DEF Disconnects, DisconnectReads, Disconnect, DisconnectFlips, DisconnectCounts,
               StopWatch, RevokeGrant, DisconnectScrubs, DisconnectDies, Disc, Discs, Idle
      <2>3. \A u, v \in Workspaces :
               (/\ disc'[u].at \in {"stop", "revoke"} /\ v # u
                /\ Active(v)' /\ conn'[v].mail = disc'[u].mail) => v \in late'
            BY <2>1, <2>2 DEF LateInv, SameRows, SameRow, Active, ActiveSiblings
      <2>.  QED BY <2>3 DEF LateInv
<1>6. ASSUME NEW j \in Workers, MarkAuthFailed(j)
      PROVE  LateInv'
      BY <1>6, MarkDoes DEF LateInv, Active
<1>7. CASE \/ \E j \in Workers : CallProvider(j)
           \/ \E m \in Mailboxes : UserRevokes(m)
      BY <1>7 DEF CallProvider, UserRevokes, flows, history, LateInv, Active
<1>.  QED BY <1>1, <1>2, <1>3, <1>4, <1>5, <1>6, <1>7, StepCases

\* Disconnecting one workspace never ends the grant a sibling was connected with when the
\* disconnect began, as long as both rows hold tokens of their own mailboxes: disconnectGmail
\* revokes only when it counted no active sibling of the address.
THEOREM SiblingsSpared == Spec => SiblingKeepsItsGrant
<1>1. Init => LateInv
      BY DEF Init, LateInv, Idle
<1>2. Typed /\ LateInv /\ [Next]_vars => LateInv'
      BY LateStep
<1>3. ASSUME Typed, LateInv, [Next]_vars, NEW w \in Workspaces, NEW v \in Workspaces,
             disc[w].at = "revoke", disc'[w].at = "scrub", TokenMail(disc[w].token) = disc[w].mail,
             v # w, Active(v), v \notin late, OwnToken(v), Live(conn[v].token)
      PROVE  grants'[conn[v].token].live
      <2>1. disc' # disc
            BY <1>3
      <2>2. RevokeGrant(w)
            <3>1. PICK u \in Workspaces : Disconnects(u)
                  BY <1>3, <2>1, StepCases, ExchangeDoes, RequestDoes, PersistDoes, StoreDoes, MarkDoes
                  DEF Quiet, CallProvider, UserRevokes, flows
            <3>2. u = w
                  BY <1>3, <3>1, DisconnectDoes
            <3>3. disc \in [Workspaces -> Discs]
                  BY <1>3 DEF Typed, FlowsTyped
            <3>.  QED BY <1>3, <3>1, <3>2, <3>3 DEF Disconnects, DisconnectReads, Disconnect,
                     DisconnectFlips, DisconnectCounts, StopWatch, DisconnectScrubs, DisconnectDies,
                     Disc, Discs, Idle
      <2>3. conn[v].token \in Grants /\ grants[conn[v].token].mail = conn[v].mail
            BY <1>3, TokenIsGrant DEF Live, OwnToken, Typed, RowsTyped, Rows
      <2>4. conn[v].mail # disc[w].mail
            BY <1>3 DEF LateInv
      <2>5. grants' = grants \/ grants' = Without(disc[w].mail)
            BY <1>3, <2>2 DEF RevokeGrant
      <2>.  QED BY <1>3, <2>3, <2>4, <2>5, WithoutKeeps DEF Live
<1>4. Typed /\ LateInv /\ [Next]_vars =>
         [\A w, v \in Workspaces :
             (/\ disc[w].at = "revoke" /\ disc'[w].at = "scrub"
              /\ TokenMail(disc[w].token) = disc[w].mail
              /\ v # w /\ Active(v) /\ v \notin late /\ OwnToken(v) /\ Live(conn[v].token))
             => grants'[conn[v].token].live]_vars
      BY <1>3
<1>.  QED BY <1>1, <1>2, <1>4, InitTyped, NextTyped, PTL DEF Spec, SiblingKeepsItsGrant

-----------------------------------------------------------------------------
(* A web connect erases the inboxes it rotates out.                        *)

Wrote(w) == link[w].at \in {"forget", "clean"}

\* A workspace has only the inbox of its row, but for what a web connect that has written the
\* row is still to erase.
Unmixed(w) ==
    /\ Wrote(w) => link[w].mail = conn[w].mail
    /\ link[w].at = "clean" => link[w].web
    /\ w \notin mixed /\ (~Wrote(w) \/ ~link[w].web) => accounts[w] \subseteq {conn[w].mail}

MixedInv == \A w \in Workspaces : Unmixed(w)

LEMMA UnmixedKept ==
    ASSUME NEW v \in Workspaces, Unmixed(v), conn'[v].mail = conn[v].mail,
           link'[v] = link[v] \/ ~(Wrote(v) \/ Wrote(v)'),
           v \in mixed => v \in mixed', accounts'[v] \subseteq accounts[v]
    PROVE  Unmixed(v)'
BY DEF Unmixed, Wrote

\* The steps of a connect after the exchange.
LEMMA MixedConnect ==
    ASSUME Typed, MixedInv, NEW w \in Workspaces,
           \/ ConnectFails(w) \/ ForgetNudge(w) \/ EraseStaleAccounts(w)
           \/ EraseFails(w) \/ ConnectDies(w)
    PROVE  MixedInv'
<1>.  /\ link \in [Workspaces -> Links]
      /\ accounts \in [Workspaces -> SUBSET Mailboxes]
      BY DEF Typed, FlowsTyped, RowsTyped
<1>1. /\ conn' = conn
      /\ \A v \in Workspaces \ {w} : /\ link'[v] = link[v] /\ accounts'[v] = accounts[v]
                                     /\ v \in mixed => v \in mixed'
      BY DEF ConnectFails, ForgetNudge, EraseStaleAccounts, EraseFails, ConnectDies, history
<1>2. Unmixed(w)
      BY DEF MixedInv
<1>3. ASSUME ConnectFails(w)
      PROVE  Unmixed(w)'
      BY <1>2, <1>3 DEF ConnectFails, Unmixed, Wrote, NoLink
<1>4. ASSUME ForgetNudge(w)
      PROVE  Unmixed(w)'
      <2>1. /\ UNCHANGED <<conn, accounts, mixed>> /\ link[w].at = "forget"
            /\ link'[w] = IF link[w].web THEN [link[w] EXCEPT !.at = "clean"] ELSE NoLink
            BY <1>4 DEF ForgetNudge, history
      <2>.  QED BY <1>2, <2>1 DEF Unmixed, Wrote, NoLink, Links
<1>5. ASSUME EraseStaleAccounts(w)
      PROVE  Unmixed(w)'
      <2>1. /\ conn' = conn /\ mixed' = mixed \ {w} /\ link[w].at = "clean"
            /\ link'[w] = NoLink /\ accounts'[w] = accounts[w] \cap {link[w].mail}
            BY <1>5 DEF EraseStaleAccounts
      <2>.  QED BY <1>2, <2>1 DEF Unmixed, Wrote, NoLink
<1>6. ASSUME EraseFails(w)
      PROVE  Unmixed(w)'
      <2>1. link'[w] = NoLink /\ w \in mixed'
            BY <1>6 DEF EraseFails
      <2>.  QED BY <2>1 DEF Unmixed, Wrote, NoLink
<1>7. ASSUME ConnectDies(w)
      PROVE  Unmixed(w)'
      <2>1. /\ conn' = conn /\ accounts' = accounts /\ link'[w] = NoLink
            /\ Wrote(w) /\ mixed' = IF link[w].web THEN mixed \cup {w} ELSE mixed
            BY <1>7 DEF ConnectDies, Wrote
      <2>.  QED BY <1>2, <2>1 DEF Unmixed, Wrote, NoLink
<1>8. Unmixed(w)'
      BY <1>3, <1>4, <1>5, <1>6, <1>7
<1>9. \A v \in Workspaces \ {w} : Unmixed(v)'
      BY <1>1, UnmixedKept DEF MixedInv
<1>.  QED BY <1>8, <1>9 DEF MixedInv

LEMMA MixedStep ==
    ASSUME Typed, MixedInv, [Next]_vars
    PROVE  MixedInv'
<1>.  /\ link \in [Workspaces -> Links]
      /\ accounts \in [Workspaces -> SUBSET Mailboxes]
      BY DEF Typed, FlowsTyped, RowsTyped
<1>1. CASE Quiet
      BY <1>1, UnmixedKept DEF Quiet, SameRow, MixedInv
<1>2. ASSUME NEW w \in Workspaces, Persist(w)
      PROVE  MixedInv'
      <2>1. /\ conn'[w].mail = link[w].mail /\ SameRows({w}) /\ accounts' = accounts
            /\ link[w].at = "granted" /\ link' = [link EXCEPT ![w].at = "forget"]
            /\ mixed \subseteq mixed'
            /\ conn[w].mail \notin {NoMailbox, link[w].mail} /\ ~link[w].web => w \in mixed'
            BY <1>2, PersistDoes DEF Persist
      <2>2. /\ link'[w].at = "forget" /\ link'[w].mail = link[w].mail /\ link'[w].web = link[w].web
            /\ \A v \in Workspaces \ {w} : link'[v] = link[v]
            BY <2>1 DEF Links
      <2>3. Unmixed(w)'
            <3>1. ASSUME ~link[w].web, w \notin mixed'
                  PROVE  accounts[w] \subseteq {link[w].mail}
                  BY <2>1, <3>1, Bounds DEF MixedInv, Unmixed, Wrote
            <3>.  QED BY <2>1, <2>2, <3>1 DEF Unmixed, Wrote
      <2>.  QED BY <2>1, <2>2, <2>3, UnmixedKept DEF SameRows, SameRow, MixedInv
<1>3. ASSUME NEW w \in Workspaces, UpgradeStores(w)
      PROVE  MixedInv'
      BY <1>3, StoreDoes, UnmixedKept DEF SameRows, SameRow, MixedInv
<1>4. ASSUME NEW w \in Workspaces, Exchanges(w)
      PROVE  MixedInv'
      BY <1>4, ExchangeDoes, UnmixedKept DEF MixedInv, Wrote
<1>5. ASSUME NEW w \in Workspaces, Requests(w)
      PROVE  MixedInv'
      <2>1. CASE UpgradeChecks(w) \/ UpgradeFails(w)
            BY <2>1, UnmixedKept DEF UpgradeChecks, UpgradeFails, history, MixedInv
      <2>.  QED BY <1>5, <2>1, MixedConnect DEF Requests
<1>6. ASSUME NEW w \in Workspaces, Disconnects(w)
      PROVE  MixedInv'
      BY <1>6, DisconnectDoes, UnmixedKept DEF SameRows, SameRow, MixedInv
<1>7. ASSUME NEW j \in Workers, CallProvider(j)
      PROVE  MixedInv'
      <2>1. PICK w \in Workspaces : w = Of(j)
            BY <1>7, JobOf DEF CallProvider
      <2>2. /\ UNCHANGED <<conn, link>> /\ mixed \subseteq mixed'
            /\ accounts'[w] = accounts[w] \cup {job[j].mail}
            /\ conn[w].mail # job[j].mail => w \in mixed'
            /\ \A v \in Workspaces \ {w} : accounts'[v] = accounts[v]
            BY <1>7, <2>1 DEF CallProvider, connects
      <2>3. Unmixed(w)'
            BY <2>2 DEF MixedInv, Unmixed, Wrote
      <2>4. \A v \in Workspaces \ {w} : Unmixed(v)'
            BY <2>2, UnmixedKept DEF MixedInv
      <2>.  QED BY <2>3, <2>4 DEF MixedInv
<1>8. CASE \/ \E j \in Workers : MarkAuthFailed(j)
           \/ \E m \in Mailboxes : UserRevokes(m)
      BY <1>8, MarkDoes, UnmixedKept DEF UserRevokes, flows, history, MixedInv
<1>.  QED BY <1>1, <1>2, <1>3, <1>4, <1>5, <1>6, <1>7, <1>8, StepCases

\* Once a web connect whose erase ran is through, the workspace keeps no inbox of another
\* mailbox, unless a job that had read the row before created one (eraseStaleEmailAccounts).
THEOREM RotatedInboxErased == Spec => []PriorInboxErased
<1>1. Init => MixedInv
      BY DEF Init, MixedInv, Unmixed, Wrote, NoLink
<1>2. Typed /\ MixedInv /\ [Next]_vars => MixedInv'
      BY MixedStep
<1>3. MixedInv => PriorInboxErased
      BY DEF MixedInv, Unmixed, Wrote, PriorInboxErased
<1>.  QED BY <1>1, <1>2, <1>3, InitTyped, NextTyped, PTL DEF Spec
=============================================================================
