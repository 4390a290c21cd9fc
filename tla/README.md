# A TLA+ verification of aziru

aziru files the mail of a shared inbox into a workspace's taxonomy. An API takes
requests and webhooks, a worker runs queued jobs against Gmail or Outlook and a
model, PostgreSQL (Prisma) keeps the state and Redis (BullMQ) the queues; a web
app, a browser extension and a mobile app show it. This directory models the
parts where those actors meet and can go wrong: TLC checks small instances, and
TLAPS proves the safety properties of every modelled component for all instances.

## The system's parts

| part | state | operations | what is hard | what makes it correct |
|---|---|---|---|---|
| thread sorter (`apps/worker/src/jobs/classify-thread.ts`) | thread status, stamps, classification rows | one job handler of some fourteen awaits, its finally block and the failed event | two jobs of a thread at once, retries, stalls, a crash between any two awaits | no status without a row, a manual move stays, a failed thread is retried |
| usage meters (`packages/db/src/usage-meter.ts`) | one row per inbox, kind and month; idempotency markers; backfill grants | record, resolve quota, resolve backfill budget, prune | duplicated work, check-then-act gates, two workspaces on one inbox | each unit is charged once, overshoot is bounded |
| sorting requests (`apps/api/src/routes/sorting-queue.ts`, `classify.ts`, `triage.ts`) | switches, stamps | pause, resume, cancel, route, re-route, sort, move | select-then-update, enqueue after commit | requests do not undo one another, nothing stays stamped |
| recovery sweeps (`sync-inbox.ts`, end of the handler) | none of their own | quota, failed, stale and armed sweeps | the four together must reach every thread that stopped | a waiting thread is taken up again |
| inbox sync (`sync-inbox.ts`, the rest) | history cursor, thread and message rows, done marks | discover, fetch, store, enqueue, advance | retry after a partial run, expired cursor, two providers | no change behind the cursor is missing |
| historical backfill (`backfill-inbox.ts`, `sweep-inbox.ts`) | claim, cursor, generation, counters | claim, page, continue, finish, reset | two workers, a reset in mid-run, crash before the continuation | it finishes, misses nothing, keeps to the pooled budget |
| taxonomy import (`taxonomy-import.ts`) | folders, threads | map, migrate, re-sort | long transaction after an earlier read | threads of unmapped folders are sorted again |
| folder tree (`taxonomy-edges.ts`, `taxonomy-nodes.ts`, `workspace-ops.ts`, `inbox.ts`) | nodes, edges, the folders threads point at | connect, move, disconnect, create, delete, import, reset | checks and writes in statements of their own, without a lock | it stays a tree, the cap holds, a deletion strands no thread |
| labels (`provision-folder-labels.ts`, `writeback-thread-label.ts`) | links, labels in the mailbox | provision, write back, heal | two jobs over one mailbox and one tree that users rename | a thread carries the label of its folder and no other |
| connections (`gmail-disconnect.ts`, `gmail-connection-status.ts`, `provider-connect.ts`, `oauth-callback.ts`) | connection status, tokens, watches | connect, widen, rotate, disconnect, flip, renew | shared mailboxes, many jobs failing at once | one notice, no revoke under a sibling, no grant left behind |
| sessions (`packages/auth/src/refresh-token.ts`, `api-client/src/bearer-transport.ts`) | refresh-token families, session epoch, the client's store | issue, rotate, revoke, refresh on a 401 | lost answers, two contexts over one store | one unused token per family, a session ends for a cause |
| billing (`billing-provision.ts`, `webhook/route.ts`, `subscription-cleanup.ts`) | plan of a workspace, trial claims, pending cancellations | check out, provision, cancel, delete | events in any order and more than once | one trial per identity, a plan ends with its subscription |
| generation (`taxonomy-generate.ts`, `generate-taxonomy.ts`) | state row, proposal, meter | admit, check, generate, commit | limiter asked twice, stalls | charged once per proposal |
| drafts and summaries (`drafts.ts`, `thread-summary.ts`) | rows, claims, meters | claim, generate, save, charge, supersede | two requests for one thread, dead requests | one text at a time, charged if made |
| placement (`packages/ai/src/embedding/sorter.ts`) | none | gate, compare branches, descend, fall back | a chain of thresholds with early exits | evidence decides, bulk mail asks nobody |
| clients, notifications, provider adapters, AI prompts | see `PROJECT.json` | | | |

They interact through shared rows (hardly any locks: conditional updates,
idempotency markers and short transactions), through queues (an enqueue is a
second, separate write after the rows it belongs to), through the scheduler's
ticks, and through what providers, Stripe and users do meanwhile. `PROJECT.json`
lists every component with its status and every hazard with the line where it
bites.

## Modules

| module | models |
|---|---|
| `UsageLedger` | the abstract promise of a meter: a unit is charged once, the meter is the number of units |
| `ThreadSorting` | the classify queue, its worker, the requests and sweeps that feed it, moves, the monthly sort meter; it implements `UsageLedger` |
| `InboxSync` | one mailbox at Gmail or Outlook, the sync-inbox job that mirrors it, the sorts it asks for, done marks |
| `BackfillInbox` | the historical import of a mailbox by the workspaces that share it, under one pooled budget |
| `TaxonomyTree` | the folder tree under overlapping requests |
| `LabelWriteback` | folders mirrored as Gmail labels, and the labels of threads |
| `Connections` | connections, grants and push watches of workspaces that share mailboxes |
| `Sessions` | refresh-token families and the contexts of one client |
| `Billing` | checkouts, subscriptions, the trial, deletions |
| `TaxonomyGeneration`, `Drafts`, `Summaries` | what the model writes: admission, claim, result, charge |
| `Placement` | the decision of the sorter for one thread |
| `MCThreadSorting`, `MCInboxSync`, `MCFiling`, `MCWorkspace`, `MCConnections`, `MCProgress`, `MCAccounts` | instances for TLC |
| `UsageLedgerProofs`, `ThreadSortingProofs`, `MailboxProofs` (`InboxSync`, `LabelWriteback`), `ConnectionsProofs`, `SessionsProofs`, `BackfillProofs`, `BillingProofs`, `WorkspaceProofs` (`Drafts`, `Summaries`, `TaxonomyGeneration`, `TaxonomyTree`, `Placement`) | the proofs |

Each module models one component; what it needs of another is an action of its
own environment (the sorter's sync tick, the backfill's disconnect). `ThreadSorting`
composes the sorter with the requests and sweeps around it. The remaining composition is
in the MC modules, where a behaviour is about one part (`part`) and the others hold
nothing, so that one run answers for several components without their product.

### `ThreadSorting`

A job is named by its thread and the prefix of its deduplication id (its *kind*),
because BullMQ collapses an enqueue into a waiting or running job of the same id:
`job[<<t, k>>]` is idle, queued, or at a step of the handler. Each step stands for
one await of `classify-thread.ts` that touches shared state:

    Load -> CheckPin -> CountRows -> CheckQuota -> StampThread -> Sort
         -> Commit -> WriteStatus -> PersistTriage -> Settle [-> FailedEvent]

`Defer`, `FileNoText` and `ReviewNoText` are its side exits. Anything that returns
goes to `Settle`, the finally block; anything that throws goes there with `ok`
false and on to `FailedEvent`, which BullMQ raises after *every* failed attempt.
`Crash` takes a running job back to the queue without its finally block, until it
has stalled too often.

A bulk enqueue is three actions, as it is three awaits in the code: pick the
threads (`PickRecovery`, `Resume`, `RouteUnrouted`, `Reroute`, `ImportTaxonomy`),
stamp them with an unconditional update (`EnqueueRecovery`, `EnqueueForRouting`,
`ApplyImport`), and `AddBulk`, which may be lost (`LoseAdd`). A sync runs its four
sweeps in order (`StartRecovery`, `sweeps`).

What is abstracted:
- The fetch, the embedding and the model are one step, `Sort`, that ends in any
  outcome the code distinguishes (`Placement` says which). Every throwing await up to
  and including the triage write is represented by a throw at `Sort`, `Commit`,
  `WriteStatus`, `FileNoText`, `ReviewNoText` or `PersistTriage`; a database fault at
  the pin or the count behaves like one at `Sort`.
- A crash hits one job at a time. A worker that is stalled but alive is left out.
- Threads are not deleted, the plan's limit does not change, and an endpoint has
  one request at a time between its read and its write.
- `LIVE`, `BACKFILL` and `REROUTE` rows count as "AUTO" when they are the latest:
  no code tells them apart there.
- Setting the routing boundary and reading the unrouted threads is one step. So is the
  cancel, which removes jobs and clears stamps in two awaits.
- A sweep takes all the threads it selects, where the code takes at most 200 at a time.

### `InboxSync`

The mailbox is its history, a sequence of changes: mail in, mail out, a message
removed, a thread hidden or shown by a label. A position in the history is a
cursor, a message is named by the position it arrived at, and so the positions
are also time. What a provider answers (`ChangedSince`, `RemovedSince`,
`SentOnlySince`, `ListRecent`, `Box`, `Gone`) is a function of the history, with the
differences between Gmail and Outlook that the code has to cope with: Outlook
reports a removal without its thread and finds no thread once its inbox messages
are gone; Gmail keeps trashed messages and reports label changes.

The handler of `sync-inbox.ts` is a path through `sync.at`:

    Begin -> DiscoverFirst | DiscoverDelta | CursorExpired, ReadProfile, ReadRecent
          -> DropSentOnly -> (Fetch -> Store)* -> EnqueueClassify -> AdvanceCursor

Between any two of these the mailbox and the user (`Resolve`) may act, the attempt
may fail (`Fail`, with the flip of the connection when the error is an auth error),
its worker may die (`Crash`), or the writes of one thread may end half-way
(`FailInStore`, only where the constant `Tears` allows it). The job then starts
again from the cursor it had.

Three variables are not in the code. `owedFrom[t]` says since when the sync answers
for the changes of a thread: since the first cursor, or, for a thread that a full
resync did not list among the recent ones, since the cursor that resync set. `unasked` and `torn`
remember the threads an attempt had stored, or half stored, when it failed.

What is abstracted: the historical backfill is over or has not begun; one sync is
queued or running at a time, as the shared deduplication id has it; the folder
cursors of Outlook are one; hidden means spam or promotions, for a whole thread,
with neither of them included by the settings; blacklisted senders and drafts are
left out; the pausing of sorting and the taxonomy are the constant `Sorting`.

### `BackfillInbox`

The mailbox lists threads `1 .. Mail`, newest first; a page token is the number of
threads before it. `state[w]` is the `ProviderSyncState` row, `slot[w]` the job under
the deduplication id, `extra[w]` the continuations, which are added without one, and
`run[r]` the attempt a worker is in. The handler is

    Begin -> Claim -> ReadClaimed -> ResolveBudget [-> ClaimGrace] -> ImportPage*
          -> RouteArmed -> Commit -> AddContinuation

with `NoticeDisconnect`, `ResetDisconnected`, `Fail` and `Crash` beside it, and
`SyncTick`, `SweepInbox`, `RouteUnrouted`, `ArmAutoRouteBacklog`, `Disconnect`,
`EraseEmailAccountData`, `Reconnect` and `Age` (an hour under a claim) around it.
`seen` and `trimmed` are history: threads examined, and threads a page left out for want
of budget, since the account was made or last swept. One month of the meter is
modelled; contents, trash flags, notifications are left out.

### `TaxonomyTree` and `LabelWriteback`

In `TaxonomyTree` a request reads and checks in one step and writes in a later one,
as the routes do: `ConnectReads`, `ConnectChecksCycle`, `ConnectWrites` and so on.
`races` counts the pairs of tree writes that overlap, the measure in which the properties
speak: requests that overlap none keep the tree (`LoneEditsKeepTree`), one overlapping
pair does not make a cycle that the sorter's descent can enter (`DescentEnds`). A deletion
may name any folder that was there as the destination, the deleted one too;
`DeletionMovesThreads` speaks of the destinations that are another folder. An
import replaces the tree by any valid one in one step (the code reads the root, the folders and
the latest classifications before its transaction); a reset wipes, then seeds
step by step. A dead request stops where it is (`Crash`); no property says that a
deletion that stops half-way is completed.

In `LabelWriteback` the two workers share one provisioning routine (`ReadsTree`,
`ReadsLinks`, `Renames`, `Lists`, `Creates`, `Records`); the writer reads the thread's
folder and the links, provisions when a link is missing, and applies one change (`Applies`,
which stands for the read of the message labels and the modify that follows). `adrift` is
the history of threads that the code knows no further job will reconcile: a lost or
coalesced add, a failed only attempt, a switched-off mailbox, a label the user deleted, a
rename whose name was taken, provisioning runs that overlapped and saw different trees, a
run that did not live to record its links.

### `Connections` and `Sessions`

A grant `g` is a refresh token at Google with its mailbox and whether it is honoured.
The three flows of a workspace are paths of their own and interleave at every await:

    Exchange -> Persist -> ForgetNudge [-> EraseStaleAccounts] -> RegisterCalls -> RegisterStamps
    UpgradeExchange -> UpgradeChecks -> UpgradeStores
    DisconnectReads -> DisconnectFlips -> DisconnectCounts [-> StopWatch -> RevokeGrant]
          -> DisconnectScrubs

The exchange of a code mints a grant before anything is stored. After it a connect may fail
(`ConnectFails`: scope, profile, upsert) and so may an upgrade (`UpgradeFails`: no
connection, `wrong_account`, the update); the grant then stays at Google and no row has it.
The erase of the web path is best-effort (`EraseFails`), the process may die in each flow
(`ConnectDies`, `DisconnectDies`). An upgrade compares mailboxes in one await and
writes the token in the next, by workspace, so a `Persist` may come between. A disconnect
counts siblings by the address it read, and stops and revokes by the token it read
(`TokenMail`). A job reads a row, calls the provider and, on an auth error, flips the row
and notifies (`JobReads`, `CallProvider`, `MarkAuthFailed`, `NotifyMembers`).

Five variables are history, and say what the properties set apart because the code does it:
- `credit`: connects not yet ended by an authentication failure;
- `late`: workspaces that connected while a sibling was disconnecting;
- `loose`: mailboxes with a known reason for a leftover grant (an exchange whose connect or
  upgrade failed, a failed revocation, a rotation, a token stored while the row was
  disconnecting, or an upgrade's token stored in another mailbox's row);
- `mixed`: workspaces where an inbox rotated out may stay (the API's connect, which never
  erases; an erase that failed or never came; a job of the old mailbox that still
  created its account), until an erase succeeds;
- `overtaken`: workspaces that connected between an upgrade's check and its write.

What is abstracted: a workspace has one connect, one upgrade and one disconnect under way
at a time; `ensureEmailAccount` and the call that follows are one step; mailboxes are Gmail's.
The renewal serves one address at a time and may start from any due connection of the
address whose token is honoured, where `apps/worker/src/index.ts:76` takes the first of the
query; push is checked with one workspace, where that is the same.

In `Sessions` a token is live, used within the grace, used beyond it, or gone; a
family is a chain of them. `rotateRefreshToken` is `FindToken` and the transaction
`Consume`; the client is `Unauthorized`, `DoRefresh`, `Accept`, `Refused`,
`LoseRefresh`. `causes` remembers what may end the session since the sign-in.
Database transactions are single steps; what two of them could do to one another
under READ COMMITTED is not modelled.

### `Billing`

One person with one email address and card opens checkout sessions for upgrades;
Stripe's events wait in `events` and may come in any order and twice. `prov[c]` is the
provisioning a caller (webhook or success page) is in: `ProvisionFromCheckoutSession`,
`RetrieveSubscription`, `ClaimTrial`, `StripTrial` or `DropUnpaid`, `CommitProvision`.
Beside it: `HandleSubscriptionUpdated`/`Deleted`, `HandlePaymentSucceeded`,
`AssembleBillingState` (opening the settings), `CancelSubscription`, the deletion of
workspaces and of the account, and `ProcessPending` of the worker's tick.

What is abstracted: sessions that create a workspace, plan changes between paid tiers, cards
apart from emails, period dates, arrears notices, renewals, members and the audit log;
"updated" events matter only for the cancel flag; the find-then-update of a webhook handler
and of the settings' reconcile is one step; the settings may reconcile whenever they are
opened, where the code skips it for a subscription it knows to be ending, unless forced;
`DeleteWorkspace` is of one that is not the owner's only one; the defensive claim of
`deleteUserCascade` never applies, because a used trial implies a claim.

### `TaxonomyGeneration`, `Drafts`, `Summaries`, `Placement`

The first three have one shape: a request checks, claims under a lock or through a
deduplication id, asks the model, writes the result and charges the inbox, and may fail or
die between any two; a claim turns stale with time (`GoesStale`, `Later`).
`TaxonomyGeneration` has the limiter both as the request asks it and as the job
asks it again, with ages in place of times. `Placement` has no concurrency: it is
the decision of `sortThreadByEmbedding` as one path (`Gate`, `CompareBranches`,
`EnterSoleChild`, `EnterBestChild`, `Stop...`, `File`) over every tree, similarity and
catch-all of an instance. Similarities are integers in units of T * ln 2, in which the
softmax weights are powers of two and the comparisons exact; `thetaMin` is 3.75 of
these, rounded up to 4; reference threads are part of a similarity; the model's
answers are arbitrary, and its replays and throws are "thrown".

## Runs

| run | question | bounds |
|---|---|---|
| `SortRequests` | Under all requests at once, is every sorted status backed by a row, and does a moved thread stay? | one thread, six job kinds, every optional event but faults |
| `SortRecovery` | Do the failed and stale sweeps get every pending thread moving again when sorts throw, the connection is lost, a worker dies or an enqueue is lost? | one thread, three kinds, two attempts, one crash |
| `SortFaults` | Is a charged sort always landed and charged once, with two jobs of a thread at once over a month's end? | one thread, two live kinds, faults everywhere, two crashes, a stall, two attempts, two months |
| `SortQuota` | Is the gate's overshoot bounded, do the meters follow the ledger, do deferred threads resume? | two threads, two kinds, one sort a month, two months |
| `Filing` | Is mail mirrored and filed right: is every change behind the cursor stored, do done marks yield, is a changed message set asked a sort for, do folders stay a tree, do labels follow them? | see the parts below |
| `Workspace` | Does a finished backfill mean that all was looked at, is the pooled budget kept to; are results charged and not doubled; does evidence place a thread? | see below |
| `Connections` | Is a loss told once, does the last disconnect revoke and no earlier one, does a rotated inbox leave nothing behind? | two workspaces, two mailboxes, two jobs, four grants, one mishap; see below |
| `Progress` | Does the backfill end, does every change get behind the cursor, does a client leave a dead session and keep a living one? | see below |
| `Accounts` | Is a dead grant noticed, does push come back, does a plan end with its subscription, a vanished payer's subscription end, a payment unlock; is there one trial per person? | see below |
| `SortAttempts` | Does the attempt counter count permanent failures? It does not. | one thread, three attempts |
| `SortImport` | Does a thread that an import leaves for a re-sort get it? Not a moved one. | one thread, import and stale sweep |
| `InboxRetry` | Does a retry ask for the sort the failed attempt owed? It does not. | one thread, one fault |

The parts of the runs with several:

- `Filing`: *mirror* is two threads of either provider, a mailbox of three changes, one
  fault, a page of one recent thread; *torn* the same for one thread with stores that end
  half-way. *edged* is three folders, two requests and one overlap; *growing* a
  cap of two, two folders to come, imports and resets; *filing* a thread
  that is filed while folders go. *failing* is one folder with two edits and two mishaps,
  *renaming* two folders over three paths with three edits.
- `Workspace`: three threads in pages of two, one of them sent-only, a chunk of one page,
  a cap of two. *backfill* is two workspaces and two workers with one intervention of a
  user, *stumbling* with one fault instead, *lone* one workspace with both and a second
  fault. *alone* is one workspace that generates (cap, mail and jobs of two,
  two faults), *pooled* two with one generation left. *replies* is one thread and two
  requests (limit two, three rows, one fault), *letters* two threads and a limit of one,
  *digests* two threads, two versions, two claims, one fault. *placing* is every tree of
  four folders with similarities -3, 3, 4 and 9, the gate at 4 and two candidates.
- `Connections`: *shared* is two workspaces of one mailbox, *racing* two jobs of one,
  *rotating* one workspace with two mailboxes and a job, connected from the web or the
  API; these mint two grants. *crossing* has four, without mishaps: a sibling is connected to
  the inbox, and the other workspace is connected to it too, then changes its mailbox while it
  widens its grant, and one of them disconnects at a time. Push is left to `Accounts`.
- `Progress`: *backfill* is one workspace and two workers, with one reset and one fault;
  *delta* one thread, two attempts, three changes, one fault; *session* the extension's
  panel and background worker, three tokens, one upset.
- `Accounts`: *connection* is one connection and one job, two grants, one mishap, with
  connects by the API and one connect or upgrade at a time (`OneRequest`); *plan*
  one subscription with a trial and all that a person does; *failing* one that is paid at
  once, with an account deletion and one mishap. *twice* is two checkout sessions under
  webhook and page, *again* an account deleted and registered anew, both without the fairness
  of the rest.

Why these are enough. One thread is enough for the first three sorter runs because the
handler and the sweeps never relate two threads except through the meter; what matters
is the number of jobs *of one thread* in flight, and the kinds give each scenario at
least two. The quota is where threads compete, so `SortQuota` has two for one sort.
`MaxWaiting = 1` means that users and new mail wait while something is queued; jobs that
run, requeues and sweeps are not held back by it, so that two jobs of a thread still
overlap. In *mirror*, two threads are what it takes for one of them to fall out of a
page of one; three changes are a message that was there, one that arrives, and one more
event on either thread: every order of an arrival, a removal and a label change
around a sync. A backfill of three threads in pages of two has a page that the budget cuts
and a last page that is not full. Two grants are the one that dies and the one that
replaces it; the token of one mailbox in the row of another takes the third, and a sibling to suffer
from it the fourth; three tokens a parent, its child and the rotation of either. An overlap of two
tree requests is the least that the checks do not exclude, and `races` says
in the property how many there were. The proofs have none of these bounds.

`SYMMETRY` is used in two safety runs without a temporal property but one boxed action:
names given to a set of two (threads in one part, requests or folders in another) are
interchangeable, because nothing in the part tells them apart. `CHECK_DEADLOCK FALSE` is
set because a system whose users, mail and months have come to an end (the bounds) has
nothing left to do.

## Fairness

- Sorter, `FairSpec`: weak fairness of each job (`Work(j)`: a BullMQ worker polls its
  queue), of `AddBulk`, of the sync tick and its sweeps (the scheduler of
  `apps/worker/src/index.ts`), of `Age` (time passes) and of the second half of a request
  already begun. The liveness properties are conditional on `<>[]Healthy`: in the end the
  workspace stays connected, unpaused, routable and below its limit. The event `gone` is
  left out of `SortRecovery`: a thread deleted at the provider is retried by the failed
  sweep without ever being sorted.
- `FairDelta`: the sync's worker and the scheduler's tick; `ChangesReachCursor` is
  conditional on `<>[]conn`.
- `FairBackfill`: each worker, the writes of an erased attempt (which fail), the tick, and
  the hour that passes under a claim. `BackfillFinishes` is conditional on a connection that
  stays.
- `FairSession`: the contexts of an open client, which polls; the lapse of the cache and of
  access tokens; the sign-out already begun.
- `FairConnection`: requests that were taken are carried through; the scheduler, which syncs
  each ACTIVE connection every minute; the renewal's daily tick.
- `FairPlan`: a provisioning, a deletion and the worker's tick that have begun go on; Stripe
  tells of ends and payments until it is answered; trials run out and arrears end one way or
  the other. The person and the page in the browser owe nothing.

Nothing is owed by users, mail, crashes, faults, mishaps or the taxonomy anywhere.

## What the violation runs show

- `SortAttempts`: BullMQ's `failed` event fires per attempt, so `classifyAttempts`
  counts attempts and a thread is marked failed while its retry is queued.
- `SortImport`: the import sets a moved thread of an unmapped folder to PENDING for
  a re-sort, the job's pin check skips it, and no sweep takes it up.
- `InboxRetry`: an attempt stores a new message and fails when it adds the classify
  job. The retry decides by the rows that are stored now, finds nothing new, asks
  for no sort and advances the cursor. The stale sweep would take the thread up
  only if it were PENDING. `ChangesSorted` shows that nothing else loses a sort: the
  threads in `unasked` are the only ones.

## Proofs

Every theorem is about a component's own `Spec`, with arbitrary constants. Modules with a named
assumption are proved about under it; for the others the theorem states what it needs: finite,
non-empty sets where something is counted and limits in Nat (`DraftsCharged`,
`SummariesCharged`, `GenerationCharged`), distinct ids and a seeded tree within the cap
(`TreeSizes`), a None that is no folder, path or label and threads not named like the two
provisioning jobs (`LabelSizes`), integer similarities and a positive gate
(`PlacementSizes`). No theorem bounds the number of threads, folders, labels, requests,
workspaces, workers, tokens, grants, faults or months.

| theorem | module | says |
|---|---|---|
| `LedgerKept` | `UsageLedgerProofs` | the ledger balances |
| `TypeCorrect` | `ThreadSortingProofs` | `TypeOK` |
| `StatusAlwaysBacked`, `ChargedAlwaysLanded`, `PinAlwaysHolds` | `ThreadSortingProofs` | `StatusBackedByRow`, `ChargedSortsLanded`, `PinHolds` |
| `SorterImplementsLedger`, `MeterAlwaysCounts`, `OvershootAlwaysBounded` | `ThreadSortingProofs` | `ImplementsLedger`, `MeterCountsDistinctThreads`, `OvershootBounded` |
| `SyncTypeCorrect`, `ChangesAlwaysSorted`, `MailAlwaysMirrored`, `DoneAlwaysYields` | `MailboxProofs` | `TypeOK`, `ChangesSorted`, `NoChangeLost`, `DoneYieldsToNewMail` |
| `LabelsAlwaysFollow` | `MailboxProofs` | `LabelsTypeOK`, `LabelsFollowFolders` |
| `ConnectionsTyped`, `ToldAtMostOnce`, `LastOneRevokes`, `SiblingsSpared`, `RotatedInboxErased` | `ConnectionsProofs` | `ConnectionsTypeOK`, `ToldOncePerConnection`, `LastDisconnectRevokes`, `SiblingKeepsItsGrant`, `PriorInboxErased` |
| `SessionsTyped`, `RotationSingleUse`, `EndsForCause` | `SessionsProofs` | `SessionsTypeOK`, `OneUnusedToken`, `SessionEndsForCause` |
| `DoneAlwaysScanned`, `PoolAlwaysBounded` | `BackfillProofs` | `DoneMeansScanned`, `PoolOvershootBounded` |
| `BillingTyped`, `OneTrialAlways` | `BillingProofs` | `BillingTypeOK`, `OneTrialPerIdentity` |
| `DraftsAlone`, `DraftsCharged`, `DraftsLeaveOne` | `WorkspaceProofs` | `DraftsTypeOK`, `OneGenerationPerThread`; `ChargedForDrafts`, `DraftOvershootBounded`; `OneProposalAtRest` |
| `SummariesFit`, `SummariesCharged` | `WorkspaceProofs` | `SummariesTypeOK`, `ServedTextFits`, `OneGenerationPerThread`; `ChargedForTexts`, `SummaryOvershootBounded` |
| `GenerationCharged` | `WorkspaceProofs` | `GenerationTypeOK`, `ChargedForProposals`, `GenerationOvershootBounded` |
| `LoneEditsKept`, `DeletionsMoveThreads`, `FoldersCapped`, `DescentAlwaysEnds` | `WorkspaceProofs` | `TreeTypeOK`, `LoneEditsKeepTree`; `DeletionMovesThreads`; `FolderCapOvershootBounded`; `DescentEnds` |
| `EvidencePlaces` | `WorkspaceProofs` | `PlacementTypeOK`, `BestMatchOnTheWay`, `GateOfReachable`, `BulkAsksNobody` |

**Sorter.** `TypeOK` is inductive as it stands. A status is written after its row, so the
strengthening `RowInv` says which steps a job can only reach with a row behind it, and what
the job remembers of its month until it commits. Every step is a charge of one new thread
or a stutter of `UsageLedger`, by a case split over the actions: only `Commit` touches the
meter; `LedgerKept` is an invariant of the abstract ledger and is carried over through the
refinement. The overshoot needs `GateInv`: a job past the gate read the meter below the
limit, the jobs that run are at most `Concurrency`, and each of them adds at most one.

**Inbox sync.** `NoChangeLost` speaks of a cursor at rest; a proof has to say what is true
between the steps of an attempt. `MirrorInv` has four parts. `RestInv`: for every thread,
`Kept` relates rows, cursor and `owedFrom`. `ResyncInv`: the two reads after an expired
cursor, in either order. `FlightInv`: the same `Kept`, but for the cursor the attempt will
write (`sync.upTo`), holds already of every thread it no longer has to fetch; hence
advancing the cursor is safe once the list is empty. `SnapInv`: a snapshot fetched but not
yet stored is one of a moment at or after that cursor. The proof corrected the
model twice: on Outlook a thread that lapsed from a resync is not answered for by a later
removal of a message that was never stored (`owedFrom` now says so), and a Gmail
thread with inbound mail between `owedFrom` and the cursor is imported even when it has
changes after the cursor, which the first invariant did not say. `ChangesSorted` rests on
`AskInv`: outside `unasked` and the attempt's own list, the last sort asked for is of the
rows stored.

**Connections.** The notice is a matter of credit (`CreditInv`): an ACTIVE row carries one,
a flip spends it. Tokens are tied to mailboxes in three places: in rows (`RowToken`, but for the
`overtaken`), in the hands of a connect (`LinkToken`) and of an upgrade (`UpgradeToken`, whose
check still holds unless it was overtaken). The grant is a matter of holders: `HolderInv` says that
an honoured grant of a mailbox that is not `loose` has a row whose disconnect, if any, has yet to
find out whether it is the last, or a connect or an upgrade that has its token; and `CrossInv`
that outside `loose` a token sits in a row of its mailbox, and a row being disconnected is still
the row that was read. The count of active siblings after the own flip
hands the duty to whoever flips later, so the last one keeps it. `LateInv`: past the count, an
active row of the mailbox connected since; with the two tokens of their own mailboxes the
revocation of one cannot end the other. `MixedInv`: outside a web connect under way and
`mixed`, a row's accounts are of its mailbox.

**Sessions.** With the types, that the tokens of a family form one chain, `OneUnusedToken`
is inductive: the transaction that mints the child is the one that uses up the parent.
`SessionEndsForCause` is a property of steps; `CauseInv` says that while no cause has occurred
every token the client stores, sends or is being answered with is sound (its row is there
and has not expired) and no refresh is refused, so there is nothing that could clear the
store.

**Backfill.** `DoneMeansScanned` speaks of the end of a chain of attempts, of which some
failed, were taken over after an hour or were superseded by a sweep. `RowsOK` says that the
cursor of a row never runs ahead of what was examined (`Covered`: every thread before
it was seen, or cut off by the budget). `AttemptsOK` says the same of the
cursor an attempt carries, provided the attempt still owns the row: it never has a newer account or
generation than the row, so an attempt that a sweep or an erasure left behind has no
claim on it, and the guard of `Commit` (`Owned`) is what makes the two parts meet. That the
guard is needed is the mutant `SweepKeepsGeneration`. Two attempts may own one generation at once;
the invariant holds of each, because what one of them examined stays examined.
`PoolOvershootBounded` rests on `HoldersOK`: of the attempts that hold budget, the one that resolved
its ceiling last will respect what was used then, and each other worker can add at most a
chunk to that (`Room`); `GraceOK` says what an attempt that is about to double the
cap knows. How large a chunk can be is where the proof corrected the property. It was stated
for a chunk of whole pages, as 500 threads in pages of 100 suggest; but a page that the budget
trims and that has sent-only threads does not end the loop, the chunk goes on with a count
that is no multiple of a page, and its last page may begin one thread before it is full:
`ChunkLength` is `Chunk + PageSize - 1`.

**Billing.** The trial granted is the one the claim names (`ClaimOK`), and a claim is never
given up; that bounds the number. That no workspace is in another trial takes the order of a
provisioning: what it read of the subscription is old when it commits. `Onward` says what
does not change meanwhile: a subscription that has begun does not go back, and a trial that is over
stays over. So a caller past the check commits either the claimed subscription or one
whose trial has ended (`ProvSound`), and a workspace keeps what was committed (`RowSound`).

**Drafts and summaries.** `NewestGenerates`: a row that is generated and not taken for dead is the
newest of its thread, since a claim re-checks under the lock. `TidyInv` follows every old
proposal to its end: all proposals of a thread but the newest are about to be withdrawn by
a request that has replaced them (`Awaited`), and a request that generates owns a row of its
thread (`OwnsRow`). For summaries `HoldsClaim` says that a request that generates, unless it
outlived its claim, holds the thread's claim for the messages it read and is the only one,
so that what it saves fits. The meters are counted together with the requests that are yet to
charge, and those that saw room under the limit are at most all requests.

**Generation.** What is charged is what was saved, by the same idempotency token
(`GenerationCounted`). A run that is asking the model began while the meter was below the cap,
and one whose token is there already will not charge again; `GenerationRoom` adds the others
(`Charging`), at most one for each workspace, to the meter.

**Tree.** `TreeInv` says that as long as nothing has raced, what a request read is still true when it
writes: `Connects`, `Moves` and `Seeds` for what it is about to add, `Deletes` for the
threads it is about to strand. That makes the check for a cycle sound; the reach of a folder
(`Below`) is shown to be the least set that is closed under the edges, by counting: a set that
grows at each of as many rounds as there are nodes has all of them. `TreeRoom` adds to the nodes the
requests that may create one without counting again. `DescentEnds` allows one overlap:
`OneFlaw` says that it gives a folder a second parent or closes a cycle and never both, and `Aims`
what a request overlapped once still knows. In a cycle without second parents every folder's
parent lies on the cycle, so no way leads from the root into it (`NoWayIntoCycle`).

**Labels.** The statement had to be corrected first: beyond the bounds of the run it was false. An
interrupted exchange of two names leaves two folders linked to one label, which the next run
does not notice; runs that overlap hand their error to each other; a label that a
user deletes can take several runs to heal. That is what the code does, so the threads it
touches are now in `adrift`, for these reasons. `LabelsInv` has four parts. `LabelsTyped` and
`WorkersOK` (the job a busy worker holds). `RunsOK`, whose heart is `Together`: runs that
overlap are all astray, or none is and they saw the same tree; and a run that is not astray
renames only labels no other folder has (`RenamesRight`) and finds every label that is
still there under its folder's path (`FindsRight`), so that it moves a link only off a dead
label. `ThreadsOK`: a thread without a job is `Settled`, one in the writer's hands is `InHand`.

**Placement.** The invariant is that every best match lies at, above or below the node the descent is
at (`OnLine`). It survives a step because a child that is entered scores higher than each
of its siblings, and a score is the best similarity at or below a folder. That the
spread of the softmax says so takes arithmetic the provers do not have: 2^n is handled as the
number of subsets of n things, and the sum over the siblings is at least any two of its terms.

TLC checked each property on a run's instance before it was proved, and with it the larger
inductive invariants (sorter, sync, connections, sessions, backfill, billing, labels, the descent).
A corrected property was checked again, with its mutant.

Some proofs need an induction. Where the library's theorem would take an operator as a parameter,
which the provers cannot instantiate, the argument is by a least counterexample instead: a set
of numbers that is not empty has a least one (`LeastNumber`, from the well-foundedness of <). The
maximum of a finite set, the value of a fold and of a recursive function, and the existence of both
are proved that way.

### Only model-checked

- Everything about liveness (`SortRecovery`, `DeferredEventuallyResumes`, `Progress`,
  `Accounts`): the prover reaches neither ENABLED nor fairness.
- What the composed runs state of their parts (`MetersFollowResults`, `OneTextPerThread`,
  `FolderCapOvershootBounded`, `DeletionKeepsThreads`, `FoldersStayTree`, `LabelsFollowFolders`,
  `PlacementFollowsEvidence`, and the type invariants of `MCFiling` and `MCWorkspace`). These are
  the component properties above at the fixed sizes of one part; the theorems are about the
  components themselves, for all sizes.
- The refutations of the violation runs.

## Observations

Corners met while modelling that no run is about. Each is what the code does; where
a comment says otherwise, it is quoted.

Sorting and sync
- `classify-thread.ts:437` files a thread without text with a LIVE row and no charge, and the
  guard counts that row, other than the comment at 627-632 has it.
- Route-unrouted (`sorting-queue.ts:324`) enqueues what is there and then arms the backfill,
  which reads the flag once, after its claim: threads imported by the attempt in flight wait
  for a later one.
- A thread deleted at the provider fails on every attempt of the failed sweep until its five
  attempts are used (`sync-inbox.ts:282`).
- Outlook: a thread missed during an expired cursor's resync can later have the removal of
  a message it never stored go unnoticed; its rows stay incomplete until new mail arrives in
  it. An attempt that creates the row of an Outlook thread and fails before its messages
  leaves the same, if the new message is then removed (`torn`).

Backfill
- The chunk's dedup token has the inbox but not the workspace, and generations restart at 0
  after an erasure: two workspaces can present one token, and the meter under-counts
  (`backfill-inbox.ts` 246-255 expects tokens to differ).
- A page that the budget trims is finished with limit NONE when it was the last
  ("NONE — everything that fits was loaded", 695-701).
- A page that the budget trims need not end the attempt, other than 533 has it ("If the page was
  cap-trimmed, the while condition ends the loop next."): its sent-only threads do not count
  towards the ceiling. The attempt then goes on behind the threads it cut off, and its chunk
  can pass 500 by a page less one.
- A call that fails after DONE is written (753) makes the catch write ERROR over DONE. A read after
  the claim that follows another run's DONE scans again from the start.

Connections
- `handleWritebackUpgrade` (`oauth-callback.ts` 285-313) compares the mailbox of its token with
  the row and then updates the row by workspace id. A connect of another mailbox that
  persists between the two leaves mailbox B's row with A's token, although the comparison
  "Prevents upgrading connection A's grant with a token minted for mailbox B" (294-296). A
  disconnect of that row then counts the siblings by B (`gmail-disconnect.ts:110`) and
  revokes A (138), under an active sibling of A; hence `SiblingKeepsItsGrant` asks that both
  tokens are of their rows' mailboxes, and `ConnectionsTypeOK` sets the `overtaken` rows apart.
- The scrub at the end of a disconnect can land on a row that was reconnected meanwhile:
  ACTIVE with an empty token. Decrypting it is a plain error, not an auth error, so nobody is told; as the
  renewal's primary such a row keeps the mailbox from being renewed.
- A stale job with the old token flips a row that was reconnected with a good one.
- The API's connect never erases the accounts of the mailbox before, the web's does. When its erase
  fails (it is "Best-effort", `oauth-callback.ts:201`), nothing tries it again before the next
  connect. A connect or an upgrade that fails after its exchange leaves a grant at Google that
  no row knows. A registration
  under way for the old mailbox stamps the row of the new one. Rotation never revokes the
  old grant. A crash between the flip and the notice tells nobody, and the notice may
  outlive a reconnect ("never lingers", `notifications.ts` 168-172).

Sessions
- A refresh token is "never spent twice" (`bearer-transport.ts` 69-70) by one transport; panel and
  background each have one, over one store (`summaryHandler.ts` 28-45).
- A refresh under way across a sign-out and sign-in can clear the new session, or restore the
  tokens of the one signed out. Any answer that is not ok clears the tokens, a 500 or 429 too.

Folder tree and labels
- Two overlapping re-parents cut a cycle off from the root; one slow request that overlaps two
  writes could make one the root reaches, and the sorter's descent has no visited set.
- Overlapping resets, or a reset and an import, make two roots and catch-alls; a reset that
  dies between wipe and seed leaves none; a node delete that fails leaves the folder emptied
  and cut off, and one that names the folder itself as the destination (`taxonomy-nodes.ts:379`)
  moves nothing, so that the foreign key clears the folder of its threads. An import accepts a catch-all without a parent, which
  `taxonomy-edges.ts` 301-304 says "is never unreachable".
- Jobs added by the API have one attempt (`apps/api/src/queues.ts` 52-65), so "rethrow so the BullMQ
  retry re-reads the fresh link" (`writeback-thread-label.ts:110`) does not happen for a move.
- Chained or swapped renames orphan a label (against `provision-folder-labels.ts` 141-146), and so
  do overlapping provisioning runs that saw different trees. Edge moves enqueue no provisioning.

Generation, drafts, summaries
- The limiter is given `updatedAt` as the time of the last completed run, but the request's and
  the job's own RUNNING write moves it (`taxonomy-generate.ts` 139-143,
  `generate-taxonomy.ts` 67-99): after one FAILED or INSUFFICIENT run every admitted job finds
  itself in the cooldown and skips ("Timestamp of the last completed attempt of any
  outcome", `shared/src/taxonomy-generation.ts:175`).
- An API that dies between RUNNING and the add leaves RUNNING, shown as FAILED after ten
  minutes, over a proposal that was ready. An import while RUNNING does not clear the proposal, which
  a skipped run shows as READY again.
- The quota gate of drafts reads the meter, which is charged after success, so rows that are
  GENERATING do not count against it (`drafts.ts` 44-55 and 188-190 say they do). A
  request that outlives five minutes leaves two proposals. A summary request that outlives two writes its
  text over a newer claim's signature.

Sorter
- Confidence is not "bounded by [THETA_MIN, 1]" (`sorter.ts`, near 1175). The gate is not
  "logically equivalent" to the one before it (12-15) when nodes are cut off from the root. A reference
  lifts the spread too, so that it can turn a confident placement into an escalation.

Billing
- A checkout that completes while its account is being deleted, after the deletion listed what to cancel,
  leaves a subscription without a user (`subscription-cleanup.ts:33`).
- Webhook and success page that overlap both run the rescan (`backfill-reset.ts`, "exactly
  once per unlock"). A late checkout event or a reload of the success page after a plan change
  writes the session's old plan.
- A second checkout overwrites the first subscription's id, which keeps billing; deleting a paid
  workspace cancels nothing; a payment at a trial's end before the workspace knows its
  subscription waits for the next invoice; a subscription that ends during its provisioning leaves the
  plan until the settings are opened.
- Creating a free workspace is a count, then a create (`workspace-ops.ts:21`). A crash between the
  workspace and `ensureInboxTaxonomy` (`billing-provision.ts:361`) leaves it without an Inbox.

## Plan

1. The first sync beside the backfill: one mailbox under both `InboxSync` and `BackfillInbox`.
2. Sessions that create a workspace, Outlook subscriptions, bridge codes, claim-before-send of
   the lifecycle mails.

## Not modelled, and why

Prompts, embeddings, templates and the generation's tree algorithms are data
transformation whose result the models leave open. The user interfaces are views
over the API. Notifications, push and mail are best-effort and read back by
nothing. Provider adapters appear by what a call may answer. Single-row request
handlers have no interleaving worth a model. Registration, sign-in with a provider,
bridge codes and token signing keep no state that two actors change at once, but for what
`Sessions` has. The pruning of idempotency markers comes long after any retry.
