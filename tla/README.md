# A verification development for PersonaliseKings

PersonaliseKings lets a shop sell personalised products. A WooCommerce plugin
sends the shop's order events to a platform; the platform turns them into print
jobs for designs that shoppers have committed in a customiser. What is hard in
it is not any one function but what happens *between* functions: two processes
with a database each, joined by requests that get lost; a database and an object
store that do not commit together; workers that crash or stall in the middle of
a job another worker then takes; events that arrive in any order; operators,
shoppers and clean-up that write the same rows meanwhile.

This directory holds TLA+ modules for these parts, TLC configurations that
check them on small instances, and proofs, checked by TLAPS, of what matters
most for instances of every size. Paths below are relative to `src/`; line
numbers of documents refer to `README.md` (the repository's) and, as Plan.md, to
`PersonaliseKings-Webapp-Plan.md`. `PROJECT.json` maps every definition to the
lines it models.

Contents: [inventory](#inventory-of-the-system), [modules](#the-modules),
[runs](#what-is-checked), [fairness](#fairness), [proofs](#what-is-proved),
[divergences](#where-the-code-and-its-documents-differ),
[abstractions](#what-the-models-leave-out), [not modelled](#not-modelled),
[plan](#plan).

## Inventory of the system

### Order events, from the shop to the print queue

| Component | State it keeps | Operations | What is hard, and what makes it correct |
|---|---|---|---|
| **Connector outbox** `apps/woocommerce-connector/includes/class-pkc-outbox.php`, `class-pkc-order-sync.php` | the `pkc_outbox` table (status, claim token and time, generation, attempts, frozen payload), the reconciliation watermark, the connected store, scheduler actions | order hooks queue events; a scan of modified orders queues what hooks missed; a claimed row is examined, superseded or frozen, posted, and finished or retried; a sweep recovers stale claims and wakes due rows; merchant retries, cancels, resyncs | Hooks die with their request, wake-ups and answers get lost, workers stall, the order changes between the check and the request, one-second timestamps. Correct: no change is lost; one event id is one content for ever; an envelope does not contradict itself; a claim is its owner's. |
| **Connector inbox** `apps/api/src/connector-events.ts`, `apps/worker-maintenance/src/connector-inbox.ts`, `packages/connector-processing/src/index.ts` | `WebhookDelivery` rows (identity, status, claim token and time, attempts, next attempt), BullMQ wake-ups | receive (deduplicate, store, wake), claim, process under the fence, record an error, reconcile wake-ups | A worker outlives its claim; a commit's answer is lost; Redis restarts empty; two requests share part of an identity. Correct: acknowledged events are settled, effects applied once, claims exclusive, retries capped. |
| **Order processing** `packages/connector-processing/src/index.ts`; admin order sync and print-job routes in `apps/web-admin/app/api` | orders with their last event, line items, artwork snapshots, print jobs, session statuses | one serializable transaction per event: staleness, validation, jobs for new paid lines, cancellation or review of dropped and ended ones | Events are late, reordered, of one second; the same rows are written by shoppers, the admin sync, operators and erasure, which check in one statement and write in a later one. Correct: the latest event wins, a line has one job, queued work is wanted, started work is an operator's to decide. |

The outbox posts to the API, whose receipt is a row of the inbox; the inbox's
workers run order processing. Nothing else joins the two databases: the answer
to the post is the only thing the plugin learns.

### Customers' media

| Component | State, operations | What is hard, and what makes it correct |
|---|---|---|
| **Uploads and promotion** `apps/api/src/embed.ts`, `apps/web-admin/app/api/assets` | upload intents, objects under temporary keys, accepted and rejected copies; intent, PUT, completion by the shopper or an operator | Promotion reads the row, copies the object and updates the row later; two of them, and clean-up, race. Correct: an accepted upload has its bytes, no object is forgotten. |
| **Temporary uploads** `apps/worker-maintenance/src/index.ts`, `retention.ts` | expired rows claimed as deleted before their objects; compensation when that fails | The compensation comes after an erasure took the row. It revives nothing. |
| **Sessions, commits, previews** `embed.ts` | session, revisions; a commit is one serializable transaction, its preview is drawn afterwards | Artwork is looked up before the transaction, and erased meanwhile. What a shopper committed keeps its artwork. |
| **Proof jobs** `apps/worker-proof/src/index.ts` | `ProofJob` claimed by time; the object is written before the row | A lost commit answer, a stale claim. A revision has one proof, and a ready job has it. |
| **Customer data deletion** `apps/worker-maintenance/src/deletion.ts`, the deletion-request routes | `DeletionRequest` with claim time, plan, attempts; prepare (serializable), delete objects one by one with a renewed claim, finalise | A crash among the objects; a claim lost between two of them; a request retried while in hand. Planned data stays deleted, and all of it goes. |
| **Queue reconciliation** `apps/worker-maintenance/src/reconciliation.ts` | repairs stale or exhausted proof jobs and deletion requests, recreates missing proof jobs | Repairs race the workers. |

### Operations, access and connection

| Component | State, operations | What is hard, and what makes it correct |
|---|---|---|
| **Generated artifacts** `apps/worker-maintenance/src/artifact-cleanup.ts`, `packages/storage`, the download and retention-hold routes | retention, hold, download lease, cleanup claim, deletion time | A signed URL is made before its lease; a hold races a claim; a claim goes stale during the deletion. No bytes vanish under a lease or a hold. |
| **Operational checks, alert delivery** `operational-checks.ts`, `alert-delivery.ts` | alerts with a notification version; deliveries with claim tokens | Checks, acknowledgements and resolutions race; delivery is at least once and in any order. The receiver can tell where an alert stands. |
| **Staff authentication** `packages/auth`, `apps/web-admin/app/api/auth` | sessions, TOTP time steps, recovery codes, passkey challenges and counters | Every factor is read in one statement and used up in a later one. It counts once; what is revoked stays so. |
| **Store connection** `apps/web-admin/app/api/stores`, `lib/store-signing-keys.ts`, the re-encryption command | handshake attempts, encrypted credentials, signing keys (active, retired, revoked) | Callbacks, health checks, revocation, rotation and re-encryption in any order, in transactions that lock no store. Late ones change nothing newer, a store is connected by the one stored credential only, and every row keeps its own secret. |

The rest - designs, mappings, staff and settings routes, the design engine, the
storage adapter, request plumbing, contracts, front ends, the schema - is listed
under [not modelled](#not-modelled). `PROJECT.json` lists all components with
their sources, and under `hazards` each place where the code can go wrong in a
way a test would hardly reach, with the property that watches it.

## The modules

| Module | Models | Builds on |
|---|---|---|
| `InboxContract` | what the inbox promises, with no workers or time: an envelope is unknown, accepted, then applied or rejected, once | |
| `ConnectorInbox` | the inbox in full | refines `InboxContract` |
| `OrderProcessing` | the effects of an event, and all other writers of the rows it reads | |
| `OutboxContract` | what the outbox promises of each event, with no workers, claims, wake-ups or scans: one content; delivered, superseded or in the merchant's hands, for a reason | |
| `ConnectorOutbox` | the plugin's outbox, hooks, scan, sweep and controls | refines `OutboxContract` |
| `MediaState` | the rows and objects that customers' media consist of, and what all processes on them have in common: steps, faults, undoing a write | |
| `Uploads`, `ProofJobs`, `DeletionRequests` | one kind of process each: uploads, promotion and retention; commits, previews and proofs; erasure | `MediaState` |
| `CustomerMedia` | the three together | all of them |
| `GeneratedArtifacts` | the retention, cleanup, leases and holds of production artifacts | |
| `OperationalAlerts` | the checks that watch that cleanup, their alerts, and the delivery of alerts | `GeneratedArtifacts` |
| `StaffAccess` | how staff get and lose sessions | |
| `StoreConnection` | credentials, signing keys, health checks, re-encryption | |
| `MC...` | instances for TLC | the module of their name |
| `...Proofs` | theorems about `ConnectorInbox`, `OrderProcessing`, `ConnectorOutbox`, `CustomerMedia`, `OperationalAlerts`, `StaffAccess`, `StoreConnection` | the module of their name |
| `OutboxDeliveryProofs` | theorems about what becomes of the outbox's events: no change is lost, the contract is kept, and the platform assumed is the inbox | `ConnectorOutboxProofs`, `InboxContract` |

Three conventions hold throughout. *Time is an action, not a number*: a claim
"goes stale", a lease or a retention "ends", so that any order of deadlines is
covered. *A claim column holds its owner's name* or a token, and the `WHERE` of an
update is an operator of its own (`OwnsProof`, `StillPending`, `Eligible`, ...),
which is where a fence can be missing. *A read and a later write are two actions*
wherever the code does not put them into one transaction.

### ConnectorInbox

`status`, `claimToken`, `attempts`, `due`, `stale` are the columns of a row per
envelope; `stale` stands for `claimedAt` older than fifteen minutes and `due`
for `nextAttemptAt <= NOW()`. A token is a number that is never drawn again
(`randomUUID`). `lock` is the row lock that the processing transaction takes
with `FOR UPDATE` and holds to its end; that makes an open transaction visible
to `Claim`, which skips locked rows.

One receipt is two steps because the store is looked up outside the transaction
(`CheckStore`, then `Accept`, `Duplicate` or `Conflict`). One delivery is a
claim, the opening of the transaction with its fence (`Open`, `LoseClaim`,
`StoreUnavailable`), its end (`Commit`, `Throw`, `InvalidStored`) and, after an
error, the outcome (`RecordError`, `ForgetError`), each a transaction of its
own. `Commit` may lose its answer: then the worker goes on to `RecordError`
with a row that is already processed. `Crash` may come between any two.

### OrderProcessing

Processing an event is one step, `Apply`, `Skip`, `Refuse` or `GiveUp`: the code
runs it in one serializable transaction under an advisory lock on the order
(`packages/connector-processing/src/index.ts:354`). So are a commit
(`embed.ts:457`) and the preparation of an erasure (`deletion.ts:202`). The two
operator routes are two steps each (`CheckRegenerate`, `Regenerate`;
`CheckManual`, `CreateManual`) since they write by id what they have checked
before. A print job is a *slot*: order, revision, and whether an event or an
operator made it. `Events` is a constant, and each event is settled at most
once, which `ConnectorInbox` guarantees; in which order is left open, since
retries and several workers give no order.

### ConnectorOutbox

A row's identity is its event key: order, store, type, second, and what makes
the key unique (a fingerprint of the content for a snapshot, the status for an
occurrence). A worker examines the order (`Examine`), then replaces a row that
the order no longer agrees with (`Replace`, `Superseded`) or freezes the content
and posts it (`Post`); the answer is `Deliver`, `Reject` or `TryLater`.
The platform accepts a posted request at any later time (`Accept`), and never two
contents for one event id. Generations are abstracted: `awake` holds the rows
with a wake-up of their present generation, since one of an older generation
never claims. A token is new for each claim, so that it is the row's exactly
while its worker is the row's `owner`. The scan reads one order after the other
(`StartScan`, `ScanOrder`, `FinishScan`), so orders change while it runs. It looks
back from the watermark by `Overlap`. Until a scan has succeeded there is no
watermark (0), and each scan looks back from its own start, by `Interval` and
`Overlap` (15 and 5 minutes in the code, `class-pkc-order-sync.php:292-296`); none
starts while no store is connected. `firstScan` remembers when the first one
that succeeded began (history).

`OutboxContract` sees of this the rows alone: a claimed or waiting row is an open
event, the first `Post` is its `Freeze`, `Accept` is its `Receive`, and the
statements that finish a row have their namesakes. `Succeeds` is its notion of a
replacement: a later snapshot of the order, of a content the row does not say.

### CustomerMedia

A `version` row has a status, an object key, and who set its `deletedAt`;
`stored` is the set of keys the object store holds. Each process is a record in
`worker`: its step, its job, and the keys it has on its hands - written and not yet
recorded, or given up and not yet deleted. An upload goes from `CreateUpload`
through `CheckIntent` and `PutObject` (the body may arrive after the row is
gone) to promotion: read, `WriteCopy`, a fenced `Finalise`, and `DropSource` or
`Discard`. `ClaimExpired`, `DeleteExpired`, `Compensate` are retention clean-up.
`CheckArtwork`, `CommitRevision` and `DrawPreview`, `RecordPreview` are one API
request; the preview's row brings the proof job, which `ClaimProof`,
`RenderProof`, `CompleteProof` and `FailProof` carry out. A deletion request is
claimed, planned (`Prepare`), executed object by object with a renewed claim
(`Renew`, `EraseObject`), and finished (`FinaliseErasure`).

A fault is one of: a crash, a claim that goes stale in hand, an object deletion
that fails with the object gone or not, a commit whose answer is lost. `adrift` is a
history variable: the keys that a fault, or a write the code does not fence, has left
to nobody. The properties say that *only* those are unaccounted for.

### GeneratedArtifacts and OperationalAlerts

An artifact's row is its retention (`over`), hold, download lease, cleanup claim and
deletion (`gone`). A download signs a URL and then asks for the lease; the URL is
handed out only with it, so both are one action. A cleanup claims, reads its claim
again, deletes the bytes and records that, each a step. Checks and acknowledgements
of a merchant hold an advisory lock from their first read to their commit
(`operational-checks.ts`), so that a check is one step: it looks at the artifacts,
opens, escalates or resolves one alert per rule, and queues a delivery for each new
version with the alert as it then is. Whether a count or an age makes a finding a
warning or critical is a choice.

### StaffAccess

Requests are processes: each reads a session, code or challenge, and uses it up
in a later statement. `Password` and `CreatePending` are two statements, as are
the use of a factor (`UseTotp`, `UseRecoveryCode`, `Enrol`) and the completion of
the session (`Complete`). `PasskeyLogin` and `Register` are transactions.
`session[s].by` remembers the factor that completed a session.

### StoreConnection

A transaction here is not one step, since nothing locks the store and all but the
rotation of a key run at READ COMMITTED. What cancels open attempts (`Authorize`,
`ConnectManually`, `Revoke`) is three steps: `Begin` chooses the attempts as the
statement does when it starts; `Hold` has waited for those that another transaction
has locked, keeps what is still open, and lets a revocation choose the credential
and the keys it will see; the commit writes to these and no others. `Refuse` and
`Denied` are the claim of one attempt and the end of that transaction. A callback's
transaction is one step, since it begins with a claim that waits for whoever has
locked the attempt. `Abort` ends a request at any time: a deadlock, a unique key, a
crash. `ReadAttempt` and `Callback`, `BeginHealth` and `RecordHealth`, `ReadRow` and
`MigrateRow` are reads and writes between which all others come. A ciphertext is
whose secret it holds and which key wraps it; `mirror` is the store's copy of the
latest signing key.

## What is checked

All runs are exhaustive. Bounds have names (`MaxSlow`, `MaxFaults`, ...) and are
in the guards of the actions they bound.

| Run | Instance | What it shows |
|---|---|---|
| `MCConnectorInbox` | two workers, two envelopes that share an event id, two attempts, two slow claims, two crashes, fairness | `AppliedOnce`, `RetryBudget`, `ClaimIsExclusive`, that the inbox implements its contract (`ImplementsContract`), and `AcknowledgedIsSettled`: an event answered with 200 ends processed or failed |
| `MCOrderProcessing` | two orders, three revisions of which two belong to one resumed session, five events some of one second, an admin sync, an operator request | `OneJobPerLine`, `RevisionHasOneOrder`, `LatestEventWins`, `QueuedWorkIsWanted`, `QueuedWorkIsOrdered`, `ErasedIsUnordered`, `OperatorsDecide` |
| `MCConnectorOutbox` | a paid order is refunded in part within two seconds, one fault, a scan at any time; the paid and update hooks do not run | `ContentAgrees`, `IdleMeansDelivered` |
| `MCConnectorOutboxClaims` | two workers, one slow claim, an order whose lines change | `FrozenEnvelope`, `ClaimsEndByTheirOwners`, that the outbox implements its contract (`ImplementsOutboxContract`) |
| `MCConnectorOutboxLive` | no hook is ever seen; two seconds, one fault, one merchant's control, one change of store, fairness | `Delivered`: the platform gets to know an order the first scan reaches, or a row is given up in sight of the merchant |
| `MCCustomerMedia` | one upload in one revision, a shopper's and an operator's promotion, two proof workers, one cleaner, two erasers, one request with two attempts and a retry, one fault | `AcceptedHasBytes`, `EveryObjectIsKnown`, `ErasedIsGone`, `PlannedStaysDeleted`, `RevisionsKeepArtwork`, `OneProofPerRevision` |
| `MCOperationalAlerts` | two cleaners and a reader of one artifact, two rules with two notices, two senders, one fault | `AvailableHasBytes`, `PromisedHasBytes`, `ReceiverKnows`, `VerdictsByOwners` |
| `MCStaffAccess` | one user with three sessions, two challenges, two passkeys (one allowed), two time steps, one recovery code, two requests at once | `OneSessionPerFactor`, `EnrolledOnce`, `NothingIsUndone` |
| `MCStoreConnection` | two attempts, two credentials, two keys, two requests (or one and re-encryption) at once, one row under the new wrapping key | `TypeOK`: one credential at most is stored, and a store is connected only by it; `CancelledNeverConnects`, `SecretsStayWithTheirRows` |
| `LatePayment`, `Sync`, `Revert` | see [below](#where-the-code-and-its-documents-differ) | counterexamples |

`TypeOK` is checked with each module, and says besides types which columns are
set together.

**Why the bounds are enough.** A fence can only be missed by a worker whose
claim another worker has taken over: that needs two workers and one claim that
goes stale in hand; two let the roles change twice. Two attempts distinguish
"retry" from "give up" and let a stale take-over exceed the maximum. Two envelopes
with a common event id but different keys are the smallest set on which a
partial identity matters. In `OrderProcessing` two orders are needed for the
exclusion of a revision from other orders, two revisions of one session
for lines of the same session, a line that is dropped and added again for the
job of its first payment, and a tie of an edit and a cancellation in one second
for the priority of types. In the outbox an order changes twice, the
second time in the second of the first, in the next, or during a scan; one fault
at every place shows each recovery, and the rows of different orders do not
interact (each has its own row, claim and content; they share only the
watermark, which moves after all of them). The instances of the outbox divide
the features among them, because each multiplies the states: faults and time in
the first, slow workers in the second, controls and stores in the third. That a
merchant's control meets a slow worker, or a fault one of the contract's steps, is
in no instance; there the theorems cover `ClaimsEndByTheirOwners` and the contract.
`Overlap` and `Interval` are 0 in all of them, which is to say shorter than the
model's second: a scan in second 2 leaves out what changed in second 1 if it is
the first that succeeds, or if the watermark is 2, so scans do pass orders over. Larger
values only let a scan read more; the proofs have any.
`MCConnectorOutboxLive` has no hooks, so that every row comes from a scan, and
the first one is as likely to be late as any.
`Hooks` names the hooks that run in an instance; all others are lost, as when a
request dies before it has run any, or a plugin suppresses them.
The hooks for a status and for a reversed refund are modelled and are in no
instance.

In `CustomerMedia` rows of different uploads share no object, and a plan
collects the derivatives of one upload's sessions, so one upload with a preview
and two possible proofs shows every kind of row that is erased. Every pair of
processes that write one row is there: two promotions, two proof workers, a
cleaner and an eraser, two erasers of one request. One fault at any step is one
crash, stall, storage error or lost answer; the second eraser or worker then
meets what it left. In `OperationalAlerts` one artifact is enough because rows
share nothing; two notices let an alert be opened and then escalated, acknowledged or
resolved, and delivered in either order. Reopening is a third version, and only the proof
covers it; the proof also covers the rules that the instance leaves out, whose
alerts differ in `Findings` alone. In `StaffAccess` any misuse takes two
requests with one factor; a third session lets two requests open one each beside the one
they come from. In `StoreConnection` a late request meets at most one newer
attempt, credential or key, and every race is of two: `MaxBusy` is the number of
requests, with re-encryption, that are under way at once. `MaxMigrated` stops
re-encryption from reading once a row is under the target key: one such row
shows the step, since a row's own ciphertext is all its write depends on.

Deadlock is checked for the inbox, which always has a step. The other systems
stop when their events, sessions, keys or clock are used up, so their runs do
not check it; what must not get stuck there is stated as a liveness property
or, like `IdleMeansDelivered`, about the states in which nothing is left to do.

Symmetry is used where processes or rows are interchangeable and no liveness is
checked: promoters, workers and erasers of `CustomerMedia`, workers of
`MCConnectorOutboxClaims`, cleaners and senders, and the sets of `StaffAccess` and
`StoreConnection`. The one `CHOOSE` over interchangeable values (`TheKey`) is over
keys, whose order of deletion no property tells apart.

For each property `PROJECT.json` names a mutant: a definition of the model with
a plausible bug of its code, marked `MUTANT` in the module, under which TLC finds
the property violated in the same instance.

## Fairness

Fairness is only assumed of what the code schedules for ever:

* **Inbox.** The maintenance loop polls without end and processes a batch per
  poll (`apps/worker-maintenance/src/index.ts`), which is weak fairness of `Claim`
  for each row; a worker's next statement runs unless it crashes, which is weak
  fairness of `Work`; the clock passes `nextAttemptAt` and the stale limit. No
  fairness is assumed of wake-ups, of the store being connected or of requests:
  `AcknowledgedIsSettled` holds with every wake-up lost (README.md:76).
* **Outbox.** Action Scheduler runs the recurring sweep and scan and the
  wake-ups it has; a request that is not lost runs its hooks. `Replace`,
  `Post` and `Deliver` are *strongly* fair: `TryLater` is possible whenever they
  are, and a platform or a database that fails every attempt for ever refutes
  any delivery. This is the assumption the retries are written for.

The other modules state no fairness: their properties are about safety. That a
deletion request ends, or a notice is sent, is not checked; the graphs of those
instances are too large for a liveness check, and smaller ones leave out the
very races.

## What is proved

TLAPS checks these theorems for every value of the constants that satisfies the
modules' named assumptions (`InboxAssumption`, `OrderAssumption`,
`OutboxAssumption`, `MediaAssumption`, `MediaKinds`, `OperationsAssumption`,
`StaffAssumption`, `StoreAssumption`): any number of workers, rows, orders, sessions
and requests. In each module an inductive invariant is the conjunction of the named
parts below; the theorems follow from it.

**ConnectorInboxProofs.** `ClaimIsExclusive` is not inductive. What makes it so is

* `Tokens`: no token of a row or a worker is later than the last one drawn, and
  two workers never hold the same one; so a new claim fences every older holder;
* `Locks`: the lock of a row belongs to a worker whose transaction is open on
  it, and whose token is the row's; so `Claim` cannot take over a row in the
  middle of its transaction, however stale, and the fenced completion in
  `Commit` cannot miss.

`RetriesAreCapped` needs `UnreceivedIsFresh` (a row that does not exist has used
no attempt). `EffectsAreAppliedOnce` and `IdentitiesAreUnique` are inductive with
the types: the fence of `Commit` and the lookup of `Accept` carry them.
`InboxImplementsContract` maps each step of the inbox to a step of the contract
or to one that leaves every fate alone; `AcceptIsNew` gives the contract's guard,
that no accepted envelope shares an identity with a new one.

**OrderProcessingProofs.** `TypeCorrect` includes that an event's job exists
exactly if one was made, so `EventsMakeOneJob` follows from the guard over *all*
jobs, cancelled ones included. `RevisionsHaveOneOrder` follows from the validation
of an event's revisions. `TheLatestEventWins` rests on `StaleIsEarlier` and
`LaterIsTransitive`: time and priority make a total preorder, so that what is
skipped is never later than what stands, nor than what stands afterwards.
`QueuedWorkIsAlwaysWanted` needs `LatestEventWins`: a dropped line is found by
comparing an event with `lines`, and only while those are the last event's does
this find all the work the last event asked for. `QueuedWorkIsAlwaysOrdered`
builds on it. Work waits because a paid event ordered its session, which only an
event can change: commits and erasures leave ordered sessions alone
(`SessionSteps`). An event of another order reaches only sessions it has used
(`LinesUsed`), which the property leaves aside; an event of the same order that takes the
session away drops the line or ends the order, and cancels the work in both
cases, since what stays queued is on that event. `OperatorsDecideAlways` splits
on the steps that write print jobs (`PrintSteps`). `ErasedIsNeverOrdered` is
strengthened by `VettedIsProduced`: what an operator's create request has checked
has a snapshot, and a snapshot never goes away (`SnapshotSteps`), so that the
late write of that request gives no erased session its first job.

**ConnectorOutboxProofs.** `FrozenEnvelope` rests on three facts: rows never go
away and keep their identity (`Table`, `Grows`); a row's payload is set once, by
a delivery that compared the order's content with the row's type and
fingerprint (`PayloadsAgree`); and what was sent is the payload of its row
(`SentIsFrozen`). `EnvelopesAgree` is the second of them. `OwnersEndClaims` goes
through the statements that end a claim: each matches the owner, or takes
stale rows only.

**OutboxDeliveryProofs.** `ChangesAreNotLost` says of any number of orders, workers,
faults and controls what the instance says of one order: a change that a scan has
passed is delivered or given up in sight, whichever hooks, wake-ups, workers and
answers are lost - unless the first scan that succeeded began too late to look back
to it, which the property leaves aside (`Within`). Its invariant (`Books`) has these parts:

* `Covered`: an order the last scan has passed, or the running one is done with, and
  that the first one reached, has a snapshot row of what it is, under the second of
  its last change (`HasRow`). This is inductive because the watermark moves to the
  second in which the scan *started*, and the next scan looks at that second again.
  The scan that sets what is within reach (`FirstScan`) is the first that succeeded,
  or else the one that runs;
* `Overtaken`: a snapshot that was superseded, or that a worker is about to
  supersede, is not what its order is, or is of an earlier second than the order's
  last change; so the row of `HasRow` is never a superseded one;
* `DeliveredIsAccepted`: a delivered row's request is one the platform accepted;
* `Timely` and `SnapshotsTell`: nothing is of the future, and a snapshot's type is
  that of its content.

The theorem has one hypothesis, `EditsAreNew`: no order is changed to what a
snapshot row of that very second says already. It is not a weakness of the proof:
the `Revert` run violates the property by just such a change. So a change is lost in
these two ways and no other: it goes back on itself within a second, or it is older
than the first successful scan reaches and its hooks were lost too. One change per
second would not be enough, as a worker may queue a replacement from what it has
read earlier. `MovingOnLosesNothing` discharges this hypothesis, and not the reach
of the first scan, for a shop whose orders only move forward, by any rank of their
contents, as placing, paying and refunding do.

`OutboxImplementsContract` is the refinement: each statement on the table is one step of
`OutboxContract`, or changes nothing the contract sees. Freezing before sending
gives the platform one content per event (`FrozenEnvelope`); the rest needs
`Ledger`: a worker puts a row aside because it has read what the row does not say, and
once it marks the row superseded, a replacement of that content, no earlier than
the row, is in the table (`Succeeded`, `Dated`). This is as much as the code
promises: that the replacement itself is still to be delivered does not follow,
and the `Revert` run shows why.

The platform is external to `ConnectorOutbox`. `AcceptIsTheInboxs` says that what
`Accept` assumes of it is neither more nor less than the acceptance step of
`InboxContract`, with two requests overlapping if they are for one event, and
`PlatformKeepsTheContract` that the receipts of a whole run are a behaviour of
that contract. As `ConnectorInbox` implements it (`InboxImplementsContract`), the
two sides of the wire fit together; that an exact duplicate is answered with 200, on
which `Deliver` relies, is the inbox's `Duplicate`.

**CustomerMediaProofs.** Nothing in these properties is inductive by itself: each
process acts on what it read some steps ago, so the invariant must say what its read
still means. It says so for three things that never come back.

* A row is *doomed* once an erasure has deleted it. No step undoes that, and an
  object is `Written` if it is stored, adrift, or its row is doomed. So a promotion
  whose copy was made earlier either finds the copy when it records it, or finds
  its row doomed and records nothing; the same holds of previews and proofs.
* A revision is *fresh* while it has no preview, proof or job. The request that draws
  its preview holds a fresh revision to its end; a revision that does not exist is
  fresh, unless its session was erased (`SessionsOK`), and then the rows it left
  are adrift (`LeftOver`).
* A plan (`PlanOK`) holds doomed rows and archived or erased sessions only, covers
  every revision that uses the subject and every row of theirs that is not adrift,
  and stays so until it is finalised, whatever is retried.

`HandsOK` says, for each kind of process and each of its steps, what the keys on
its hands are; `HandsApart` that no two processes of different jobs hold the same
object; `Accounted` that storage holds nothing but what rows, plans and hands name.
The last is stronger than `EveryObjectIsKnown`: an eraser's hands do not count,
since its plan does, which is why it may crash. The proof of a step is in two
halves: its effect on the rows and on its own process, by a lemma per action; and
`OthersKeep`, which shows once that all other processes keep what they hold under
any step that moves rows and objects as `RowSteps` and `StorageSteps` say.

**OperationalAlertsProofs.** The bytes of an artifact are safe because a cleanup
claim is never given back: what is withheld from readers stays withheld
(`InHandIsWithheld`), whoever is still deleting under an old claim, and what is
withheld is neither leased nor held (`WithheldIsFree`); a grant has its lease
(`GrantedIsLeased`). `TheReceiverKnows` rests on `LastTells`: a version is
queued with the alert as it is, and until the next version the alert's status
stays and its severity does not rise; and on what is sent being queued
(`SentIsQueued`), so that nothing newer than the alert is ever received.

**StaffAccessProofs.** `FactorsOpenOneSession` needs to know where a used-up
factor is: in one request that has not ended, or in the session it completed,
never in two places (`FactorsAreUsedOnce`). That a passkey's limit holds counts the
set before and after one registration (`OnePasskeyMore`).
`NothingComesBack` compares each step's two states.

**StoreConnectionProofs.** Each conditional update is safe for a reason of its
own: a claimed attempt is no longer open, and what a transaction has locked stays
open until it ends and is locked by no other (`HoldsAgree`), so nothing
cancels a claimed one (`AttemptsAgree`); a health check writes only over the
credential it used, which is in force as long as the store refers to it
(`StatusAgrees`); and a row that still holds the ciphertext that was read still
holds the same secret (`SecretsAgree`). `TypeCorrect` holds for transactions that
commit in any order their locks allow. It does not say that a revoked store has no
stored credential, because that is [not so](#where-the-code-and-its-documents-differ).

**Model-checked only.** The liveness properties `AcknowledgedIsSettled` and
`Delivered`: liveness under fairness, `ENABLED` and induction over data are
beyond the prover and stay with TLC; no module uses a recursive operator. All
other properties of the passing runs are theorems, `IdleMeansDelivered` under the
hypothesis above.

## Where the code and its documents differ

* **`LatePayment` / `PaidOrderIsProduced`.** Plan.md:1263 says print generation
  triggers when the order is paid. An order that is cancelled before it is paid
  (a stock hold that ends), and then paid, is not produced: its session is
  cancelled, an actionable paid event only accepts committed and ordered
  sessions (`packages/connector-processing/src/index.ts:167`), and the event is
  refused as a permanent error.
* **`Sync` / `StaleWorkCannotSurvive`.** README.md:134 and Plan.md:99 say that
  removing a line cancels its queued work. The admin order sync recreates line
  items without their revisions (`apps/web-admin/app/api/orders/route.ts:81`), so
  a later event finds nothing it has dropped, and the job stays queued.
  `LatestEventWins` and `QueuedWorkIsWanted` leave synced orders aside for this.
* **`Revert` / `IdleMeansDelivered`.** README.md:132 says the scan advances its
  watermark only after every result is present in the local queue. Queuing
  answers true for any row of the identity, also for a superseded one
  (`class-pkc-order-sync.php:434`, `:603`). An order that is edited and edited
  back within a second, and examined in between, has only superseded rows left: the
  replacement and the scan both find the first one, and nothing is delivered.

Three more differences shape a property instead of a run of its own.

**Changes before the first scan.** Plan.md:819 calls the scheduled scans what
provides eventual correctness. The first scan that succeeds starts without a
watermark and takes 15 minutes before its own start for it, less 5 of overlap
(`class-pkc-order-sync.php:292-296`), then sets the watermark to its start (`:329`).
Scans do nothing before the plugin is configured (`:281`), and one that fails leaves
no watermark. A change whose hooks were lost more than 20 minutes before that scan
is never queued, though the watermark passes it. `IdleMeansDelivered` and
`Delivered` except exactly these orders.

**Revocation.** README.md:122 says that revoking a store deletes its credential and
invalidates outstanding approval attempts. The transaction deletes the credential,
revokes the keys and only then updates the store
(`apps/web-admin/app/api/stores/[storeId]/woocommerce/revoke/route.ts:22-28`), at
READ COMMITTED. If keys typed in, an authorization or a new signing key are
committed after the statement that should have met them and before the store's
update, the store is revoked with a credential still stored, an attempt still open
or a key not revoked. In `StoreConnection` these states are reachable (two requests,
seven steps), so `TypeOK` does not exclude them; it says what does hold of them: the
store refers to no credential and is not connected.

**Previews.** README.md:104 lists
previews among what an erasure removes. A preview is drawn after the commit's
transaction from artwork looked up before it, and `RecordPreview` does not look
at the session; if an erasure archives the session in between, the preview's row
and object come after the plan and are in none. `ErasedIsGone` and
`EveryObjectIsKnown` except exactly those previews, and the proofs drawn from
them, by putting their keys into `adrift`.

## What the models leave out

* **Data.** Customer inputs, render specifications, quantities, prices, audit rows and
  the platform's own outbox table, which nothing reads. An event's lines are the set of
  revisions they name; an order's content in the outbox is a model value with a
  status and whether something is refunded. Passwords and the cryptography of
  codes, assertions and ciphertexts.
* **Delays.** `nextAttemptAt` and `nextCleanupAttemptAt` only put a claim off;
  attempts are kept, back-off is not. The window of a TOTP code is a free choice
  of the time step. A transaction is one step, except in `StoreConnection`: for
  serializable ones that is what their isolation gives, and the others begin
  with a lock or a conditional update on the row they are about. In
  `OrderProcessing` in particular nothing is shown of what the database does with two
  events at once.
* **Inbox.** The signature check in front of the receipt: envelopes are verified
  ones. An envelope is its identity and the digest of its content, so that a
  repeated request is a duplicate and a reused key with another content is a
  conflict.
* **Orders.** The print worker's rendering: the production exporter is disabled, so a
  claimed job ends in review in one transaction. Snapshots are those of existing
  jobs.
* **Outbox.** A claim that is lost between freezing, renewal and request is one that is
  lost before them; the retention clean-up of finished rows, the adoption of
  actions queued by older plugin versions, the scan's lock (one scan at a time)
  and the sweep's batch of a hundred rows. Each modelled edit touches the
  order's modification time; an edit of line items alone that does not is left out.
* **Media.** Rate limits and sizes, and what a preview or proof looks like. An
  operator's upload is an upload without a session.
* **Alerts.** The rule `merchant.settings_missing`, the pruning of old check
  runs, and the ages and counts of findings.
* **Staff.** Roles have no values: a change of role revokes sessions. Two owners who
  demote each other at once are a hazard without a property
  (`apps/web-admin/app/api/staff/[staffUserId]/route.ts:33`). Recovery codes that
  are never shown, because the answer to the confirmation is lost, are as good as
  none.
* **Store.** The WooCommerce side: an approval is a callback that may come at any
  time, an API request has one of its outcomes. Staff roles and `expiresAt`,
  which only refuse a callback: then it ends as `Abort` does, so the model has
  every behaviour of the code and more.

## Not modelled

* **Designs, product mappings, staff and settings routes; the admin's own creation of a
  customisation; the embed token**: single statements with no protocol.
* **Design engine and render schema**: pure functions of floating-point
  geometry, for which TLC has no values.
* **Storage adapter, media validation, rate limits, body and JSON parsing, telemetry,
  configuration**: I/O and per-process counters. The object store is a set of
  keys in the modules that use it.
* **Customiser, admin and storefront front ends**: browser user interfaces; what
  they ask of the API are actions of the modules.
* **Schema, seed, contracts**: the schema is the modules' state, its
  constraints are guards; contracts say which messages there are.

## Plan

Done: the path of an order event, customers' media, artifacts and alerts, staff
access and the store's connection, each with proofs. What would add most next:

1. A composition of outbox, inbox and order processing over one order: whether the
   platform's order ends as the shop's, given events of one second (the hazard at
   `packages/connector-processing/src/index.ts:392`).
2. Contracts for media and alerts as there are for inbox and outbox: what a reader of
   a session or of the webhook may rely on, without claims and steps.
3. Liveness of deletion requests and notices, over an instance that abstracts the
   objects away.
4. Values for roles in `StaffAccess`, for the race of two owners.
