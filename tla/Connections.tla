----------------------------- MODULE Connections -----------------------------
(***************************************************************************)
(* The mailbox connection of each workspace (EmailConnection): connecting  *)
(* and reconnecting it from the web and from the API, widening its grant,  *)
(* disconnecting it by hand (gmail-disconnect.ts) or on an authentication  *)
(* failure (gmail-connection-status.ts), and its push watch.  Mailboxes    *)
(* are Gmail's.  Grants and watches live at the provider.                  *)
(***************************************************************************)
EXTENDS Integers, FiniteSets

CONSTANTS
    Workspaces,      \* workspaces, each with at most one connection
    Mailboxes,       \* mailboxes of the user
    Workers,         \* background jobs that may run at once
    MaxGrants,       \* bound: grants minted
    MaxMishaps       \* bound: grants removed by the user, failed calls, crashes

Grants == 1 .. MaxGrants
NoMailbox == "none"

ASSUME ConnectionsAssumption ==
    /\ NoMailbox \notin Mailboxes
    /\ {MaxGrants, MaxMishaps} \subseteq Nat

VARIABLES
    conn,     \* conn[w]: the EmailConnection row
    grants,   \* grants[g]: mailbox of the refresh token, and whether it is honoured
    watches,  \* mailboxes with a push watch at the provider
    accounts, \* accounts[w]: mailboxes with an EmailAccount in the workspace
    nudged,   \* workspaces whose members see a "gmail_disconnected" notification
    disc,     \* disc[w]: the disconnect under way
    link,     \* link[w]: the OAuth callback or connect request under way
    upgrade,  \* upgrade[w]: the callback under way that widens the grant
    reg,      \* reg[w]: the watch registration that follows a connect
    renewal,  \* the connections the worker's renewal tick has yet to stamp
    job,      \* job[j]: a background job that calls the provider
    credit,   \* history: connects of w that no authentication failure has ended
    late,     \* history: workspaces that connected while a sibling was disconnecting
    loose,    \* history: mailboxes whose grant may be left over for a known cause
    mixed,    \* history: workspaces that may hold an inbox rotated out
    overtaken,  \* history: workspaces that connected between an upgrade's check and write
    mishaps

vars == <<conn, grants, watches, accounts, nudged, disc, link, upgrade, reg, renewal, job,
          credit, late, loose, mixed, overtaken, mishaps>>

provider == <<grants, watches>>
connects == <<link, upgrade>>
flows == <<disc, link, upgrade, reg, renewal, job>>
history == <<credit, late, loose, mixed, overtaken>>

NoRow == [status |-> "NONE", mail |-> NoMailbox, token |-> 0, stamp |-> "none"]
NoLink == [at |-> "idle", mail |-> NoMailbox, token |-> 0, web |-> FALSE]
Idle == [at |-> "idle", mail |-> NoMailbox, token |-> 0]

Init ==
    /\ conn = [w \in Workspaces |-> NoRow]
    /\ grants = [g \in Grants |-> [mail |-> NoMailbox, live |-> FALSE]]
    /\ watches = {}
    /\ accounts = [w \in Workspaces |-> {}]
    /\ nudged = {}
    /\ disc = [w \in Workspaces |-> Idle]
    /\ link = [w \in Workspaces |-> NoLink]
    /\ upgrade = [w \in Workspaces |-> Idle]
    /\ reg = [w \in Workspaces |-> "idle"]
    /\ renewal = {}
    /\ job = [j \in Workers |-> [at |-> "idle", mail |-> NoMailbox, token |-> 0, ws |-> {}]]
    /\ credit = [w \in Workspaces |-> 0]
    /\ late = {} /\ loose = {} /\ mixed = {} /\ overtaken = {}
    /\ mishaps = 0

Active(w) == conn[w].status = "ACTIVE"
Live(g) == g # 0 /\ grants[g].live
TokenMail(g) == IF g = 0 THEN NoMailbox ELSE grants[g].mail

NextGrant == Cardinality({g \in Grants : grants[g].mail # NoMailbox}) + 1
Mint(m) == grants' = [grants EXCEPT ![NextGrant] = [mail |-> m, live |-> TRUE]]

\* Revoking a token ends the grant of its mailbox.
Without(m) == [g \in Grants |-> IF grants[g].mail = m
                                THEN [grants[g] EXCEPT !.live = FALSE] ELSE grants[g]]

Mishap == mishaps < MaxMishaps /\ mishaps' = mishaps + 1

-----------------------------------------------------------------------------
(* Connecting: the code is exchanged, which mints a grant; the row is      *)
(* written, the nudge removed, then (on the web) the inboxes rotated out   *)
(* are erased, and the hooks fired.                                        *)

Disconnecting(m) == \E v \in Workspaces : disc[v].at # "idle" /\ disc[v].mail = m

\* The person consents with any mailbox of theirs.
Exchange(w, m, web) ==
    /\ link[w].at = "idle" /\ NextGrant \in Grants
    /\ Mint(m)
    /\ link' = [link EXCEPT ![w] = [at |-> "granted", mail |-> m, token |-> NextGrant, web |-> web]]
    /\ UNCHANGED <<conn, watches, accounts, nudged, disc, upgrade, reg, renewal, job,
                   history, mishaps>>

\* A scope is missing, the profile is refused, a call fails or the process dies: the
\* grant that was minted stays at the provider, and no row has its token.
ConnectFails(w) ==
    /\ link[w].at = "granted"
    /\ link' = [link EXCEPT ![w] = NoLink]
    /\ loose' = loose \cup {link[w].mail}
    /\ UNCHANGED <<conn, provider, accounts, nudged, disc, upgrade, reg, renewal, job,
                   credit, late, mixed, overtaken, mishaps>>

\* upsertEmailConnection resets every field of the row.
Persist(w) ==
    LET m == link[w].mail
        rotated == conn[w].mail \notin {NoMailbox, m}
    IN  /\ link[w].at = "granted"
        /\ conn' = [conn EXCEPT ![w] = [status |-> "ACTIVE", mail |-> m,
                                        token |-> link[w].token, stamp |-> "none"]]
        /\ link' = [link EXCEPT ![w].at = "forget"]
        /\ credit' = [credit EXCEPT ![w] = @ + 1]
        /\ late' = IF Disconnecting(m) THEN late \cup {w} ELSE late \ {w}
        /\ loose' = loose \cup (IF rotated THEN {conn[w].mail} ELSE {})
                          \cup (IF disc[w].at # "idle" THEN {m} ELSE {})
        /\ mixed' = IF rotated /\ ~link[w].web THEN mixed \cup {w} ELSE mixed
        /\ overtaken' = IF upgrade[w].at = "checked" THEN overtaken \cup {w} ELSE overtaken \ {w}
        /\ UNCHANGED <<provider, accounts, nudged, disc, upgrade, reg, renewal, job, mishaps>>

\* The hooks are not awaited: the registration runs on its own (the sync they also
\* enqueue is one of the jobs), and one of an earlier connect may still run.
Hooked(w) == IF reg[w] = "idle" THEN [reg EXCEPT ![w] = "call"] ELSE reg

\* The API goes on to its hooks; the web first erases the inboxes rotated out.
ForgetNudge(w) ==
    /\ link[w].at = "forget"
    /\ nudged' = nudged \ {w}
    /\ link' = [link EXCEPT ![w] = IF @.web THEN [@ EXCEPT !.at = "clean"] ELSE NoLink]
    /\ reg' = IF link[w].web THEN reg ELSE Hooked(w)
    /\ UNCHANGED <<conn, provider, accounts, disc, upgrade, renewal, job, history, mishaps>>

KeepAccounts(w) ==   \* mutant: the accounts are looked up by another key, and none is found
    /\ link[w].at = "clean"
    /\ link' = [link EXCEPT ![w] = NoLink] /\ reg' = Hooked(w)
    /\ mixed' = mixed \ {w}
    /\ UNCHANGED <<conn, provider, accounts, nudged, disc, upgrade, renewal, job,
                   credit, late, loose, overtaken, mishaps>>

EraseStaleAccounts(w) ==
    /\ link[w].at = "clean"
    /\ accounts' = [accounts EXCEPT ![w] = @ \cap {link[w].mail}]
    /\ link' = [link EXCEPT ![w] = NoLink] /\ reg' = Hooked(w)
    /\ mixed' = mixed \ {w}
    /\ UNCHANGED <<conn, provider, nudged, disc, upgrade, renewal, job,
                   credit, late, loose, overtaken, mishaps>>

\* The erase is best-effort: its failure is logged, and the callback goes on to the hooks.
EraseFails(w) ==
    /\ link[w].at = "clean" /\ Mishap
    /\ link' = [link EXCEPT ![w] = NoLink] /\ reg' = Hooked(w)
    /\ mixed' = mixed \cup {w}
    /\ UNCHANGED <<conn, provider, accounts, nudged, disc, upgrade, renewal, job,
                   credit, late, loose, overtaken>>

\* The process dies after the row was written: nothing is erased, and no hook is fired.
ConnectDies(w) ==
    /\ link[w].at \in {"forget", "clean"} /\ Mishap
    /\ link' = [link EXCEPT ![w] = NoLink]
    /\ mixed' = IF link[w].web THEN mixed \cup {w} ELSE mixed
    /\ UNCHANGED <<conn, provider, accounts, nudged, disc, upgrade, reg, renewal, job,
                   credit, late, loose, overtaken>>

-----------------------------------------------------------------------------
(* Widening the grant (handleWritebackUpgrade): the code is exchanged, the *)
(* row is read and its mailbox compared, and the token is written to       *)
(* whatever row the workspace has by then.                                 *)

UpgradeExchange(w, m) ==
    /\ upgrade[w].at = "idle" /\ NextGrant \in Grants
    /\ Mint(m)
    /\ upgrade' = [upgrade EXCEPT ![w] = [at |-> "granted", mail |-> m, token |-> NextGrant]]
    /\ UNCHANGED <<conn, watches, accounts, nudged, disc, link, reg, renewal, job,
                   history, mishaps>>

UpgradeUnchecked(w) ==   \* mutant: a token minted for another mailbox is taken too
    /\ upgrade[w].at = "granted" /\ conn[w].mail # NoMailbox
    /\ upgrade' = [upgrade EXCEPT ![w].at = "checked"]
    /\ UNCHANGED <<conn, provider, accounts, nudged, disc, link, reg, renewal, job,
                   history, mishaps>>

UpgradeChecks(w) ==
    /\ upgrade[w].at = "granted" /\ conn[w].mail = upgrade[w].mail
    /\ upgrade' = [upgrade EXCEPT ![w].at = "checked"]
    /\ UNCHANGED <<conn, provider, accounts, nudged, disc, link, reg, renewal, job,
                   history, mishaps>>

\* No connection, another mailbox, a failed call or a dead process: the grant that was
\* minted stays at the provider.
UpgradeFails(w) ==
    /\ upgrade[w].at # "idle"
    /\ upgrade' = [upgrade EXCEPT ![w] = Idle]
    /\ loose' = loose \cup {upgrade[w].mail}
    /\ UNCHANGED <<conn, provider, accounts, nudged, disc, link, reg, renewal, job,
                   credit, late, mixed, overtaken, mishaps>>

\* Nothing but the token is touched, the status included.
UpgradeStores(w) ==
    LET m == upgrade[w].mail
    IN  /\ upgrade[w].at = "checked"
        /\ conn' = [conn EXCEPT ![w].token = upgrade[w].token]
        /\ upgrade' = [upgrade EXCEPT ![w] = Idle]
        /\ loose' = loose \cup (IF disc[w].at # "idle" THEN {m} ELSE {})
                          \cup (IF conn[w].mail # m THEN {m, conn[w].mail} ELSE {})
        /\ UNCHANGED <<provider, accounts, nudged, disc, link, reg, renewal, job,
                       credit, late, mixed, overtaken, mishaps>>

-----------------------------------------------------------------------------
(* The push watch.                                                         *)

\* registerGmailWatch: an inactive connection, or a refused call, ends it.
RegisterCalls(w) ==
    LET served == Active(w) /\ Live(conn[w].token)
    IN  /\ reg[w] = "call"
        /\ watches' = IF served THEN watches \cup {TokenMail(conn[w].token)} ELSE watches
        /\ reg' = [reg EXCEPT ![w] = IF served THEN "stamp" ELSE "idle"]
        /\ UNCHANGED <<conn, grants, accounts, nudged, disc, connects, renewal, job, history, mishaps>>

\* The expiry is written to whatever row the workspace has by then.
RegisterStamps(w) ==
    /\ reg[w] = "stamp"
    /\ conn' = [conn EXCEPT ![w].stamp = "good"]
    /\ reg' = [reg EXCEPT ![w] = "idle"]
    /\ UNCHANGED <<provider, accounts, nudged, disc, connects, renewal, job, history, mishaps>>

DueAtExpiry(m) ==   \* mutant: a connection never registered is not looked for
    {w \in Workspaces : Active(w) /\ conn[w].mail = m /\ conn[w].stamp = "due"}

\* Never registered, or within 25 hours of the expiry that was stamped.
Due(m) == {w \in Workspaces : Active(w) /\ conn[w].mail = m /\ conn[w].stamp # "good"}

\* renewAllGmailWatches: one registration per address, with the token of whichever of its
\* connections the query returned first; all of them are stamped.  When the first one's
\* token is refused, the tick does nothing for the address.
RenewalCalls(m) ==
    /\ renewal = {}
    /\ \E primary \in Due(m) :
          /\ Live(conn[primary].token)
          /\ watches' = watches \cup {TokenMail(conn[primary].token)}
    /\ renewal' = Due(m)
    /\ UNCHANGED <<conn, grants, accounts, nudged, disc, connects, reg, job, history, mishaps>>

RenewalStamps ==
    /\ renewal # {}
    /\ conn' = [w \in Workspaces |-> IF w \in renewal
                                     THEN [conn[w] EXCEPT !.stamp = "good"] ELSE conn[w]]
    /\ renewal' = {}
    /\ UNCHANGED <<provider, accounts, nudged, disc, connects, reg, job, history, mishaps>>

\* Six days pass.
StampAges(w) ==
    /\ conn[w].stamp = "good"
    /\ conn' = [conn EXCEPT ![w].stamp = "due"]
    /\ UNCHANGED <<provider, accounts, nudged, flows, history, mishaps>>

\* The provider ends a watch after seven.
WatchExpires(m) ==
    /\ m \in watches
    /\ \A w \in Workspaces : conn[w].mail = m => conn[w].stamp # "good"
    /\ watches' = watches \ {m}
    /\ UNCHANGED <<conn, grants, accounts, nudged, flows, history, mishaps>>

-----------------------------------------------------------------------------
(* disconnectGmail.                                                        *)

Disc(w, step) == disc' = [disc EXCEPT ![w].at = step]

DisconnectReads(w) ==
    /\ disc[w].at = "idle" /\ conn[w].status # "NONE"
    /\ disc' = [disc EXCEPT ![w] = [at |-> "flip", mail |-> conn[w].mail, token |-> conn[w].token]]
    /\ UNCHANGED <<conn, provider, accounts, nudged, connects, reg, renewal, job,
                   history, mishaps>>

DisconnectFlips(w) ==
    /\ disc[w].at = "flip"
    /\ conn' = [conn EXCEPT ![w].status = "DISCONNECTED"]
    /\ Disc(w, "count")
    /\ UNCHANGED <<provider, accounts, nudged, connects, reg, renewal, job, history, mishaps>>

SiblingsOfAnyStatus(w) ==   \* mutant: a connection that was disconnected still counts
    {v \in Workspaces \ {w} : conn[v].mail = disc[w].mail}

NoSiblings(w) == {}         \* mutant: only the workspace's own connection is looked at

\* countActiveSiblingConnections: by the address that was read.
ActiveSiblings(w) == {v \in Workspaces \ {w} : Active(v) /\ conn[v].mail = disc[w].mail}

\* The nudge is deleted and the siblings are counted.
DisconnectCounts(w) ==
    /\ disc[w].at = "count"
    /\ nudged' = nudged \ {w}
    /\ Disc(w, IF ActiveSiblings(w) = {} /\ disc[w].token # 0 THEN "stop" ELSE "scrub")
    /\ UNCHANGED <<conn, provider, accounts, connects, reg, renewal, job, history, mishaps>>

\* The watch stopped is that of the token's mailbox; a failure is logged.
StopWatch(w) ==
    /\ disc[w].at = "stop"
    /\ Disc(w, "revoke")
    /\ \/ /\ watches' = IF Live(disc[w].token)
                        THEN watches \ {TokenMail(disc[w].token)} ELSE watches
          /\ UNCHANGED mishaps
       \/ Live(disc[w].token) /\ Mishap /\ UNCHANGED watches
    /\ UNCHANGED <<conn, grants, accounts, nudged, connects, reg, renewal, job, history>>

\* A token that is no longer honoured is refused, and a call may fail: what grant the
\* mailbox has otherwise is left over.
RevokeGrant(w) ==
    /\ disc[w].at = "revoke"
    /\ Disc(w, "scrub")
    /\ \/ /\ Live(disc[w].token)
          /\ grants' = Without(TokenMail(disc[w].token))
          /\ UNCHANGED <<loose, mishaps>>
       \/ /\ IF Live(disc[w].token) THEN Mishap ELSE UNCHANGED mishaps
          /\ loose' = loose \cup {disc[w].mail}
          /\ UNCHANGED grants
    /\ UNCHANGED <<conn, watches, accounts, nudged, connects, reg, renewal, job,
                   credit, late, mixed, overtaken>>

\* The row is scrubbed whatever it holds by then, and the data erased on request.
DisconnectScrubs(w) ==
    /\ disc[w].at = "scrub"
    /\ conn' = [conn EXCEPT ![w].token = 0, ![w].stamp = "none"]
    /\ disc' = [disc EXCEPT ![w] = Idle]
    /\ \E erase \in BOOLEAN :
          accounts' = IF erase THEN [accounts EXCEPT ![w] = @ \ {disc[w].mail}] ELSE accounts
    /\ UNCHANGED <<provider, nudged, connects, reg, renewal, job, history, mishaps>>

\* The process dies, or an update of the row fails: the rest is not done, and the
\* member may disconnect again.
DisconnectDies(w) ==
    /\ disc[w].at # "idle" /\ Mishap
    /\ disc' = [disc EXCEPT ![w] = Idle]
    /\ UNCHANGED <<conn, provider, accounts, nudged, connects, reg, renewal, job, history>>

-----------------------------------------------------------------------------
(* Background jobs, and what an authentication failure does.               *)

JobIdle == [at |-> "idle", mail |-> NoMailbox, token |-> 0, ws |-> {}]
Of(j) == CHOOSE w \in Workspaces : w \in job[j].ws

\* A tick, a push or a connect enqueued a sync, or a thread its sorting: the job
\* skips a connection that is not ACTIVE.
JobReads(j, w) ==
    /\ job[j].at = "idle" /\ Active(w)
    /\ job' = [job EXCEPT ![j] = [at |-> "call", mail |-> conn[w].mail,
                                  token |-> conn[w].token, ws |-> {w}]]
    /\ UNCHANGED <<conn, provider, accounts, nudged, disc, connects, reg, renewal, history, mishaps>>

AuthErrorIsAnyError(t) == FALSE   \* mutant: a refused refresh is an error like any other

\* A refused refresh is a MailAuthError; a token that cannot be decrypted, as the
\* empty one, is not.
IsAuthError(t) == t # 0 /\ ~Live(t)

\* ensureEmailAccount creates the account of the mailbox the job read, and the
\* provider is called with the token it read.
CallProvider(j) ==
    LET w == Of(j)
    IN  /\ job[j].at = "call"
        /\ accounts' = [accounts EXCEPT ![w] = @ \cup {job[j].mail}]
        /\ job' = [job EXCEPT ![j] = IF IsAuthError(job[j].token)
                                     THEN [@ EXCEPT !.at = "flip"] ELSE JobIdle]
        /\ mixed' = IF conn[w].mail # job[j].mail THEN mixed \cup {w} ELSE mixed
        /\ UNCHANGED <<conn, provider, nudged, disc, connects, reg, renewal,
                       credit, late, loose, overtaken, mishaps>>

FlipAnyStatus(j) ==   \* mutant: the update does not ask that the row be ACTIVE
    /\ job[j].at = "flip"
    /\ conn' = [conn EXCEPT ![Of(j)].status = "DISCONNECTED"]
    /\ job' = [job EXCEPT ![j].at = "tell"]
    /\ credit' = [credit EXCEPT ![Of(j)] = @ - 1]
    /\ UNCHANGED <<provider, accounts, nudged, disc, connects, reg, renewal,
                   late, loose, mixed, overtaken, mishaps>>

\* markGmailConnectionAuthFailed: only the job that flips the row goes on to tell.
MarkAuthFailed(j) ==
    LET w == Of(j)
    IN  /\ job[j].at = "flip"
        /\ IF Active(w)
           THEN /\ conn' = [conn EXCEPT ![w].status = "DISCONNECTED"]
                /\ job' = [job EXCEPT ![j].at = "tell"]
                /\ credit' = [credit EXCEPT ![w] = @ - 1]
           ELSE job' = [job EXCEPT ![j] = JobIdle] /\ UNCHANGED <<conn, credit>>
        /\ UNCHANGED <<provider, accounts, nudged, disc, connects, reg, renewal,
                       late, loose, mixed, overtaken, mishaps>>

NotifyMembers(j) ==
    /\ job[j].at = "tell"
    /\ nudged' = nudged \cup job[j].ws
    /\ job' = [job EXCEPT ![j] = JobIdle]
    /\ UNCHANGED <<conn, provider, accounts, disc, connects, reg, renewal, history, mishaps>>

WorkerDies(j) ==
    /\ job[j].at # "idle" /\ Mishap
    /\ job' = [job EXCEPT ![j] = JobIdle]
    /\ UNCHANGED <<conn, provider, accounts, nudged, disc, connects, reg, renewal, history>>

\* The user removes the app's access at the provider.
UserRevokes(m) ==
    /\ \E g \in Grants : grants[g] = [mail |-> m, live |-> TRUE]
    /\ Mishap
    /\ grants' = Without(m)
    /\ UNCHANGED <<conn, watches, accounts, nudged, flows, history>>

-----------------------------------------------------------------------------
(* The specification.                                                      *)

Connect(w) ==
    \/ ConnectFails(w)
    \/ Persist(w)
    \/ ForgetNudge(w)
    \/ EraseStaleAccounts(w)
    \/ EraseFails(w)

Upgrade(w) ==
    \/ UpgradeChecks(w)
    \/ UpgradeFails(w)
    \/ UpgradeStores(w)

Register(w) ==
    \/ RegisterCalls(w)
    \/ RegisterStamps(w)

Disconnect(w) ==
    \/ DisconnectFlips(w)
    \/ DisconnectCounts(w)
    \/ StopWatch(w)
    \/ RevokeGrant(w)
    \/ DisconnectScrubs(w)

Job(j) ==
    \/ CallProvider(j)
    \/ MarkAuthFailed(j)
    \/ NotifyMembers(j)

Next ==
    \/ \E w \in Workspaces :
          \/ \E m \in Mailboxes :
                UpgradeExchange(w, m) \/ \E web \in BOOLEAN : Exchange(w, m, web)
          \/ Connect(w) \/ ConnectDies(w) \/ Upgrade(w) \/ Register(w)
          \/ DisconnectReads(w) \/ Disconnect(w) \/ DisconnectDies(w) \/ StampAges(w)
          \/ \E j \in Workers : JobReads(j, w)
    \/ \E m \in Mailboxes : RenewalCalls(m) \/ WatchExpires(m) \/ UserRevokes(m)
    \/ RenewalStamps
    \/ \E j \in Workers : Job(j) \/ WorkerDies(j)

Spec == Init /\ [][Next]_vars

-----------------------------------------------------------------------------
(* Properties.                                                             *)

\* Rows, grants and flows have their types, and a row's token is of its mailbox, unless
\* a connect came between the check and the write of an upgrade (handleWritebackUpgrade).
ConnectionsTypeOK ==
    /\ \A w \in Workspaces :
          /\ conn[w].status \in {"NONE", "ACTIVE", "DISCONNECTED"}
          /\ conn[w].stamp \in {"none", "good", "due"}
          /\ conn[w].token \in 0 .. MaxGrants
          /\ conn[w].token # 0 /\ w \notin overtaken => TokenMail(conn[w].token) = conn[w].mail
          /\ accounts[w] \subseteq Mailboxes
    /\ watches \subseteq Mailboxes
    /\ mishaps \in 0 .. MaxMishaps

\* However many jobs meet one dead grant, and however late, the members are told of
\* a lost connection at most once for each time it was connected.
ToldOncePerConnection == \A w \in Workspaces : credit[w] >= 0

OwnToken(w) == TokenMail(conn[w].token) = conn[w].mail

\* Disconnecting one workspace never ends the grant of a sibling that was connected
\* when the disconnect began: its sync is not broken (gmail-disconnect.ts).  Both are to
\* hold tokens of their own mailboxes, since the siblings are counted by address and the
\* grant is revoked by token.
SiblingKeepsItsGrant ==
    [][\A w, v \in Workspaces :
          (/\ disc[w].at = "revoke" /\ disc'[w].at = "scrub"
           /\ TokenMail(disc[w].token) = disc[w].mail
           /\ v # w /\ Active(v) /\ v \notin late /\ OwnToken(v) /\ Live(conn[v].token))
          => grants'[conn[v].token].live]_vars

\* A row, a connect or an upgrade has a token of the mailbox.
TokenKept(m) ==
    \E w \in Workspaces :
        \/ conn[w].token # 0 /\ TokenMail(conn[w].token) = m
        \/ link[w].at = "granted" /\ link[w].mail = m
        \/ upgrade[w].at # "idle" /\ upgrade[w].mail = m

\* Two workspaces that disconnect one mailbox, at once or in turn, leave no grant of
\* it behind once nothing has a token of it: the one that flips last finds no active
\* sibling.  A grant may be left when a connect or an upgrade failed after its exchange, a
\* revocation failed, a workspace was rotated away from the mailbox, or it was given a new
\* token while it was itself disconnecting.
LastDisconnectRevokes ==
    \A m \in Mailboxes \ loose :
        ~TokenKept(m) => \A g \in Grants : grants[g].mail = m => ~grants[g].live

\* A web connect that could erase leaves no inbox but the one connected, unless a job
\* that had read the row before was still to create its account.
PriorInboxErased ==
    \A w \in Workspaces \ mixed :
        Active(w) /\ link[w].at \in {"idle", "granted"} => accounts[w] \subseteq {conn[w].mail}

\* A connection does not stay ACTIVE on a grant the provider no longer honours
\* (an empty token is not one: it fails as any other error does).
DeadGrantNoticed ==
    \A w \in Workspaces, g \in Grants :
        []<>(conn[w].token = g /\ Active(w) => Live(g))

\* Push comes back: an ACTIVE connection whose grant is honoured has a watch again
\* and again, unless another ACTIVE row of its mailbox holds an empty token (the
\* renewal of the mailbox may pick that row for good).
PushComesBack ==
    \A w \in Workspaces :
        []<>(Active(w) /\ Live(conn[w].token) =>
               \/ conn[w].mail \in watches
               \/ \E v \in Workspaces : Active(v) /\ conn[v].mail = conn[w].mail
                                        /\ conn[v].token = 0)
=============================================================================
