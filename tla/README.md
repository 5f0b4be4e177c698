# Verification of the gateway's money, once-only work and shared limits

The repository is an API gateway: it forwards model requests of its users to
upstream providers and accounts for them, sells balance and subscriptions, and
is run by administrators. This directory holds TLA+ models of the parts where
concurrency and failure decide whether money and work are counted once, limits
are kept and changes arrive, the TLC configurations that check them, and TLAPS
proofs of nearly all of their safety properties for every value of the
constants. The models follow the Go code under `backend/`, statement by statement;
`PROJECT.json` maps each definition to its lines.

## 1. The system

All server instances share one PostgreSQL database and, if configured, one
Redis. There is no process-wide serialisation: two requests for the same object
meet only in the database, in conditional updates, unique indexes and leases,
or in Redis scripts. The process may stop at any statement. Outside actors are
payment providers (which redeliver notifications and may answer late or never),
upstream model providers, payers, users and administrators.

| Component | State | Operations | Hard because |
|---|---|---|---|
| Payment order and fulfilment (`payment_order*.go`, `payment_fulfillment.go`, `redeem_service.go`) | order row with status, paid_at, updated_at as lease version; redeem code; audit log; rebate claim | create, webhook, cancel, expire, reconcile, verify, retry | six kinds of call on one row, leases by timestamp, provider queries between read and write, crashes between grant and completion |
| Payment refunds (`payment_refund.go`) | order row, user balance, audit log, refunds at the gateway | request, prepare, execute, roll back, query, finalize | money leaves in two places (balance and gateway) with no common transaction; answers get lost, rollbacks fail |
| Idempotency coordinator (`idempotency.go`, `idempotency_repo.go`) | one row per scope and key: status, fingerprint, lock, expiry, response | claim, reclaim, execute, mark, clean up | stale reads, locks that end under a slow owner, unconditional marks |
| System operation lock (`system_operation_lock_service.go`) | one row of the same table, one renewing goroutine per holder | acquire, renew, release | renewal racing takeover |
| Usage billing (`usage_billing_repo.go`) | dedup rows and archive, balance, key and account quotas | apply, archive | once-only across retries and the retention job |
| Batch image jobs (`batch_image_public.go`, `_billing_recovery.go`, `_processor.go`, `_settlement.go`, `_repo.go`) | job rows, holds (frozen balance), retries | submit, cancel, sweep, poll, index, capture, release | a hold must be settled or released once, by whichever of four actors gets there |
| Batch image queue (`batch_image_queue.go`, `batch_image_worker.go`) | ready list, delayed and active sets, inflight keys, job locks | enqueue, reserve, heartbeat, requeue, ack, recover | locks that end under a live worker, crashes between Redis calls |
| Scheduler snapshot and outbox (`scheduler_snapshot_service.go`, `scheduler_cache.go`, `scheduler_outbox_repo.go`) | outbox, watermark, bucket epoch, tombstone, snapshot, account copies | append, poll, rebuild, retire, publish | ids not in commit order, writers that loaded before a retirement |
| Concurrency slots (`concurrency_service.go`, `concurrency_cache.go`, `openai_live.go`) | slot set, live leases, wait counter, active index in Redis | acquire, release, wait, convert, refresh, clean up | expiry under running requests, startup cleanup beside live instances |
| OAuth refresh (`oauth_refresh_api.go`, `token_refresh_service.go`, `gemini_token_cache.go`) | credentials, process mutex, Redis lock, cooldown | lock, re-read, refresh, store, disable, reauthorise | rotating refresh tokens, a lock without an owner |
| Order admission (`payment_order.go`), usage record worker pool, OpenAI WebSocket pool, user message queue, quota flusher, leader lock, prompt audit queue | counts, pools, locks and dirty sets | see their files | not modelled yet |
| Gateway forwarding, provider clients, affiliate ledgers, update service, web front end, generated code | | | data conversion, I/O or no shared state; not modelled |

What makes them correct: an order is granted exactly what was paid, once, and
what was paid is not lost; a refund takes the balance once and is reported only
when the gateway has paid; a protected operation takes effect once per key; two
system operations exclude each other; a usage event is charged once; a hold is
settled or released; a limit is not exceeded; a token that was rotated is not
lost; a change reaches the scheduler. `PROJECT.json` lists under "hazards" the
lines where each may go wrong and the properties that would show it.

## 2. Modules

| Module | Content |
|---|---|
| `PaymentOrder` | one order, any number of calls of the six kinds, crashes and failing requests |
| `OrderPromise` | the abstract specification: pay, grant, settle the rebate, complete, each once and in that order |
| `PaymentOrderProofs` | its theorems |
| `PaymentRefund`, `PaymentRefundProofs` | refunding one completed balance order |
| `IdempotencyStore` | one row of `idempotency_records` and the statements on it |
| `Idempotency`, `IdempotencyProofs` | `IdempotencyCoordinator.Execute` over that row |
| `SystemOperationLock` | the system operation lock over such a row |
| `UsageBillingDedup` | the claim every billing transaction begins with, and the archive of old claims |
| `BalanceHolds` | reserve, capture and release of a hold, over `UsageBillingDedup` |
| `JobQueue` | the abstract specification of a queue that delivers a job until it is acknowledged |
| `BatchImageQueue` | the Redis queue and the worker loops; implements `JobQueue` |
| `BatchImage` | jobs from submission to settlement, over `BalanceHolds` and the queue that `JobQueue` promises |
| `BatchImageQueueProofs`, `BatchImageProofs` | their theorems |
| `UsageBilling` | the charging transaction, over `UsageBillingDedup` |
| `SchedulerOutbox`, `SchedulerBucket` | the outbox table with its watermark; one bucket of the snapshot cache with epoch, tombstone, lock and lease |
| `SchedulerSnapshot`, `SchedulerSnapshotProofs` | pollers, full rebuilds and readers; composes `UsageBilling`, `SchedulerOutbox` and `SchedulerBucket` |
| `Concurrency`, `ConcurrencyProofs` | slots, wait queue, live leases and index of one account |
| `OAuthRefresh`, `OAuthRefreshProofs` | the refresh of one account's credentials by several instances |
| `MC...` | symmetry sets for TLC; the cfg files give the constants |

### How code becomes actions

A running request, sweep or webhook delivery is a *call*, an element of
`Workers` or `Calls`; `pc[w]` names its next statement. Each SQL statement,
transaction and provider request is one action named after the function that
sends it, so any other call may run in between; the code between two
statements belongs to the action before it. Values a call has read are kept in
per-call variables (`known`, `lease`, `plan`, `held`, `from`): they may be stale
when they are used, as they are in the code. Conditional updates are guarded by
their WHERE clause; the alternative of zero affected rows is a disjunct or an
action of its own.

A failing statement has no effect in `PaymentOrder` and `PaymentRefund`, and the
call goes on as the code does after the error; a failing gateway request may or
may not have had its effect. A crash ends a call between two statements. In the
idempotency modules failure, cancellation and crash all end the call where it
stands (`Abandon`).

The batch image, scheduler, concurrency and OAuth modules count failing calls
and crashes (`faults`, `crashes`) against bounds. Where a handler's remaining
calls depend only on what was decided before, its program counter is the
sequence of the calls still to make (`todo`); otherwise it is the name of the
next call (`submit`, `cancel`, `sweep`, `work`, `step`). A Lua script or a MULTI
block is one action, since Redis runs it as one.

**History variables.** Some properties hold except after an event that the code
lets pass by design. The event is then recorded, and the property names it:
`dropped` (a job's only queue entry was refused or never made), `lapsed` (a lock
ended under its worker), `outrun` (a system lock that was taken over ran out under
its operation), `lost` (a request's slot was removed under it),
`missed` (waiters that were not counted), `forgotten` (how often the refund code
lost sight of what is held) and `disturbed` (a late query failed a refund under
way or done), `excused` (a lost enqueue or a lease that ran out, in the
scheduler; a missing lock, an unstored answer or an administrator, in OAuth). No
action reads them as a guard, and each property
still fails under its mutant.

**Time.** No model counts up to a last instant. `PaymentOrder` keeps the age of
`updated_at` and the time left until `expires_at`, saturating. The idempotency
row keeps what is left of `locked_until` and `expires_at`. A call reads the
clock once, at its start, and compares with that time later, so the row's times
are compared with minus the call's age.

**Identities.** `updated_at` is compared for equality as a lease version; it is
drawn from `Versions`, never equal to one that a running call holds. Row ids of
`idempotency_records` are drawn likewise from `Ids`. Reuse of identities that
nobody remembers keeps the state spaces finite.

**What is abstracted.** Amounts are matched or not matched in orders, small
integers in refunds. Fingerprints, operation ids and stored responses are model
values, a response being the fingerprint of the request it answers. Providers
come in three kinds: *keyed* (a repeated refund is recognised and can be
queried), *unkeyed*, and *unpaid* (there is nothing to refund).

TTLs and ages in Redis are not counted: a key may expire at any time under a live
owner as one of the bounded faults, and must expire in the end when nobody
renews it.

### The newer modules

*Batch images.* `Submit`, `Cancel`, `Sweep` and `Pipeline` are the public
handler, the cancellation, the sweep over submissions that never reached the
provider, and the worker's processing of one status. Two workers may have the
same job, as they may when a job lock ends under a slow one. A result is
indexed at one of the costs in `Costs`; the download and parsing of results and
the provider's clients are left out. `OtherFrozen` is what the user has frozen
for other batches, which capture and release could take by mistake.

*Queue.* `BatchImageQueue` refines `JobQueue` with `pending` mapped to the jobs in
the list or one of the sets. `BatchImage` uses just those operations, so that the
two can be checked apart.

*Scheduler.* One group with one account. The account's quota is exhausted by a
charge of `UsageBilling`, whose transaction writes an outbox row; the gateway's
view is the cached copy (`meta`) and the bucket's snapshot (`active`). Versions of
snapshots are left out, since with one account they have the same members. An
event that is written outside a transaction gets its id and becomes visible in one
step, a single autocommitted INSERT; ids overtake each other through the insert
inside the billing transaction, whose commit comes later. Lag
monitor, coalescing and bulk events are not modelled.

*Concurrency.* The slots of one account; user slots are the same scripts over
other keys. A request's slot goes when the request ends or, before that, when its
client does (`Disconnect`), and its upstream call may then go on without it. A
session refreshes its lease while its sideband connection is up; while it redials,
or waits for `ExpiresAt` after a failed claim or store (`offline`), it does not.
Members of crashed requests cannot be told apart and are counted. Two
simplifications: a failing write of the active index is not modelled apart, and
the startup pass reads the index and removes the slots in one action.

*OAuth.* A credential is a generation and the grant it descends from; the
provider rotates, so presenting a generation twice is rejected. `grok` tells
whether the account's platform persists conditionally. One administrator works
at a time, and the statements of ClearAccountError are one action. A request whose
refresh fails may write to the account itself: for Grok an error or a cooldown,
for Antigravity a cooldown. An access token that has run out is a credential at
`MaxAge`.

## 3. Runs

| Run | Instance | Shows |
|---|---|---|
| `payment_order` | 2 calls, all 6 kinds, both order types, 1 crash, 1 failing request | granted at most once, only if paid; completed means served; paid is never undone; implements `OrderPromise` |
| `payment_order_live` | 2 calls, webhooks and expiry, 1 crash | an acknowledged delivery means a settled order; a paid order is completed or recorded as too late |
| `payment_refund` | 2 calls, amounts 1 and 2 of 2, every provider kind, 3 attempts, 1 failing statement | one refund at a time, and the row REFUNDING under it |
| `payment_refund_query` | requests, refunds and queries of one amount, 3 attempts, 1 crash, 2 failing statements, a charge that makes a deficit; 2,541,954 states | the balance taken once, and once more for each time the code loses sight of it; refunded means paid back and is final; never overdraws |
| `idempotency` | 2 calls that may die any number of times, 2 payloads, 3 ids, TTL 3, lock 2; 144,245 states | one effect until expiry, exclusive execution, responses under their own fingerprint, orphans are released |
| `system_lock` | 3 operations of up to twice the lock time, which is 3, TTL 8, claims 1 late, renewals 1 apart; 315,169 states | an operation that created the row is alone; those that took it over are until one outlives its lock |
| `batch_image` | 1 job, 2 workers, hold 2, balance 1 or 2, 2 frozen for others, cost 1 or 3, 2 retries, 3 faults, 1 crash; 590,688 states | no hold is paid from another's; completed means charged its items' cost; a failed job is not running upstream; a hold is forgotten, and a charge refunded, only in the named cases; finished stays finished |
| `batch_image_live` | the same with 1 worker, 4 faults; 110,434 states | a hold is captured or released in the end |
| `batch_queue` | 1 job, 3 workers, 3 lapses, 2 faults, 2 crashes; 178,138 states | the inflight key never outlives the entries; one rightful owner; implements `JobQueue`; a queued job is worked on |
| `scheduler` | 1 poller, 1 rebuilder, 1 reader, 1 administrative change, 1 fault; about 900,000 states | usage charged once; snapshots fenced by retirement; consumed events are reconciled; the cache converges |
| `concurrency` | 3 requests at 2 instances, one of them a live session, limit 1, queue 1, 1 fault; 701,073 states | over-admission bounded by the slots lost or given back early; the queue by the uncounted; sessions have leases; leftovers go |
| `oauth_refresh` | 2 workers and 1 request at 2 instances, a token that ages twice, 1 administrative operation, 1 fault; 917,000 states | no token presented twice; a new grant survives; only the rejected token, or a request's expired one, disables; tokens are renewed |

`TypeOK` of each module that a run checks is proved for every instance (section 5).

### Why the bounds are enough to be interesting

Two calls make every race of a read in one call with a write in the other, and
a third participant is often there without being a call: the payer, the
gateway, usage billing, the clock, and a call that crashed and left its lease.
With three versions a new update always finds a fresh one while two calls hold
old ones. Time units are one lease, one grace period, one order timeout: all
orders of their ends occur. Three refund attempts allow a failure, a retry and
a repetition after a success. In the idempotency run, TTL 3, lock time 2 and
calls no older than 2 let records expire, be reclaimed, be deleted and be created
again, and since a call may die and a new one take its place, two are enough for
a stale reader and a new owner. Two payloads are enough to tell *own* from
*other*.

In the batch run a hold equals the larger balance and differs from both costs, so a
capture below and above the hold occurs, and so does a balance that does not suffice;
three faults allow the settlement's two retries to fail and one call besides. The
queue has three workers because a worker that lost its lock, its successor and the one
that follows after a second loss are needed to release somebody else's lock. In the
scheduler run one change of the group and one fault are enough for a writer to load
before a retirement and write after it. The concurrency run has a limit of one and a
queue of one, with three requests: one inside, one waiting, one turned away; two
instances, so that one starts while the other's requests run. One request is a
session, which shares the limit with two that are not. The OAuth run has two
instances, so both locks matter; a token that first comes close to its expiry and then
runs out, so that a request may condemn the account of a valid grant; and one fault, a
missing lock or a lost answer. In the system lock's run two lock times fit into the
longest operation and its row still outlives it, as an hour outlives fifteen minutes.
In the query run two failing statements are the rollback and its audit entry, or its
read.

Deadlock is not checked where everything may come to rest: refunds (an order may
stay refunded, or in REFUNDING after a crash), batch jobs that are finished,
concurrency when no request is left, and OAuth when the bound on expiries is
used up. The other runs check it.

`ExclusiveExecution` is checked, and proved, for claims made within the lock
time of the call's start (`MaxStall < LockTime`) and calls shorter than the TTL
(`MaxAge < TTL`). The code does not enforce either: `locked_until` is computed
from the clock at the call's start, so a claim that hangs longer than
ProcessingTimeout comes with a lock that is already over. `OneOperationAtATime`
is checked for operations of twice the lock time, which live on their renewals. It
needs a claim and the longest gap between renewals that reach the store to fit into
the lock time (`MaxStall + MaxGap < LockTime`; the ticker runs at a third of it) and
the row to outlive the operation (`MaxAge + MaxStall < TTL`).

### Fairness

`PaymentOrder!Fairness`: a running call takes its next step and time passes
(weak fairness); the provider redelivers until a delivery is acknowledged,
which is what webhooks are for; the sweep is a ticker; somebody who contends
for the redeem lock again and again gets it; and from some time on the lease
duration (five minutes) suffices for its holder, since otherwise holders could
take the lease from each other for ever. The sweep and deliveries need a free
call slot, hence strong fairness. No fairness is assumed of payers, users,
administrators or failures.

`Idempotency!FairSpec`: statements are answered, time passes, and the cleanup
ticker recurs. Nothing is assumed of clients.

`BatchImage!Fairness`: requests in progress, the sweep's ticker and the worker
loops keep running, time passes, and the provider finishes what it started.
Nobody has to cancel. `BatchImageQueue!Fairness`: the worker, mover and recovery
loops run, and keys and scores that nobody renews grow old. Nobody has to enqueue.

`SchedulerSnapshot!Fairness`: both loops are on timers, calls return,
transactions end, TTLs run out. Nothing says that a gateway request arrives: the
cache converges without one. `Concurrency!Fairness`: calls return, waits and
requests time out, an upstream call ends, the lease's ticker runs while a sideband
is up and the cleanup's always, TTLs run out. A session may be long and its sideband
may come and go for ever: `ExpireOffline`, the end of a session without a sideband,
is strongly fair because `ExpiresAt` arrives whatever the redial loop does. No
client need go, and a stopped instance need not start again.
`OAuthRefresh!Fairness`: calls return or time out, leases and cooldowns run out,
and the refresh loop recurs.

Faults and crashes are never fair, and their bounds mean that liveness is shown
for behaviours in which they stop.

The refund module has no liveness property: every step of a refund is started
by an administrator, and the code retries nothing by itself. The lock module
has none either: a lock that is not released ends with its lease.

## 4. Disagreements met while modelling

The properties above are those that hold. Where the code does something else than
a comment, a test or a document says, the models keep what the code does, and the
properties name the case. File names are those of `backend/internal/`.

Payments:

1. *A stale worker overwrites a newer owner.* `acquirePaymentFulfillmentLease`
   takes the lease and reads its version back in two statements
   (`service/payment_fulfillment.go:297`); in between the lease may have been taken
   over, and what is read is the newer owner's version. The comment at line 852 says
   that stale workers cannot do this. It costs a misleading status, no money.
2. *A refund takes the balance twice.* After a failed rollback, a retry that stays
   pending hides REFUND_ROLLBACK_FAILED from the finalization
   (`service/payment_refund.go:454`, against the comment at 307). And a late query that
   finds the refund refused writes REFUND_FAILED whatever the status is, also over the
   claim of a retry in progress. Hence `ExclusiveRefund` is
   checked without queries. The audit entry itself may fail to be written or, since
   `hasAuditLog` ignores its error, to be read, and the next attempt deducts again.
   `DeductedAtMostOnce` counts these cases (`forgotten`): each costs the order's
   amount once more and no more; it excepts the late REFUND_FAILED (`disturbed`).
3. *An order is marked refunded in an amount not paid.* The unique audit entry
   REFUND_PENDING keeps the first refund's id; a query after a retry with another
   amount asks for the wrong refund (`service/payment_refund.go:570`, docs/PAYMENT.md:255).
   Hence the query run has one amount.
4. A payment made between `cancelCore`'s query and its update lands on an EXPIRED
   order that no sweep looks at again; verification accepts EXPIRED orders of any
   age and storing the trade number restarts their grace period; a rolled-back
   refund raises `total_recharged`; a crash after the refund's claim leaves the order
   REFUNDING, a status that no operation accepts.

Once-only work:

5. *A fresh success is executed again.* `TryReclaim` does not compare `expires_at`
   (`repository/idempotency_repo.go:118`): of two requests that read the same expired
   success, the second reclaims what the first has just finished. Hence "until
   expiry" in `OneEffectUntilExpiry`.
6. *A lock that was taken over is never renewed.* `TryReclaim` leaves
   `request_fingerprint`, on which `ExtendProcessingLock` insists
   (`service/system_operation_lock_service.go:175`). An update may take fifteen minutes
   (`handler/admin/system_handler.go:27`), the lease is thirty seconds
   (`service/idempotency.go:74`). On the first operation's row it is renewed; every later
   one takes the row over, runs unprotected when the lease is over, and its late
   release frees the lock of whoever came after it. The comment at
   `system_handler.go:37` says that another attempt meets the lock. Hence `outrun` and
   `OwnsRow` in `OneOperationAtATime`.

Batch images:

7. *A hold can be left behind.* Cancelling, or the sweep, may claim the release's
   request id before the submission reserves; the reservation then succeeds, and its
   release is taken for a repetition (`Phantom`). The same happens to a job whose last
   enqueue is refused or never made (`dropped`), and to one that two workers have at
   once after its lock has lapsed: one of them may acknowledge a settling job that the
   other is still working on, or that a third worker has failed meanwhile, and nobody
   comes back to its hold (`OutOfSight`).
8. *A captured job can be refunded.* When the update after a committed capture fails
   until the retries are used up, the job is failed and its hold released although
   it was charged; the release then takes what is frozen for other batches, or fails
   when there is not enough. `RefundedAfterChargeIsGivenUp` and
   `FrozenCoversHolds` say that this is the only way.

Scheduling, limits and tokens:

9. *Outbox ids become visible out of order.* A row that commits after a higher id was
   consumed is never polled; the comment at `repository/scheduler_outbox_repo.go:129` says
   that ten seconds' grace before deletion gives it the chance to be consumed. Only the
   full rebuild repairs that, which is what `Converges` shows.
10. *A starting instance clears what belongs to live ones.* The startup cleanup takes
    every slot without its own prefix, and the wait counter, for a dead process's
    (`repository/concurrency_cache.go:1238-1245`), also while other instances run. Hence
    `lost` and `missed` in the bounds.
11. `service/openai_live.go:123` speaks of an atomic handover from slot to lease; the
    script does not look at the slot, so a session may be admitted beside the request
    that took the slot when it had aged.
12. *A slot is given back before its use ends.* `wrapReleaseOnDone` releases it when
    the client goes (`handler/gateway_helper.go:196`), but image generation and usage
    draining continue on a context detached from the client, as
    `openai_images_upstream_context_test.go` requires. Hence `Detached` in
    `OverAdmissionIsBounded`.
13. *A session may outlive its lease.* While it redials its sideband
    (`service/openai_live.go:660`) or waits for its expiry after a failed claim or store
    (line 766) nobody refreshes the lease, and the session goes on uncounted; the comment
    at line 575 wants to prevent that. `SessionsHaveLeases` holds because each session
    ends at `ExpiresAt`.
14. *A valid grant is disabled.* A Grok request that ends up with an access token that
    has run out, because somebody else's refresh is not done, say, sets the account to
    error, although its refresh token is good (`service/grok_token_provider.go:129`,
    `service/grok_credential_failure.go:254`). Hence the second alternative in
    `DisabledForItsToken`. A request's cooldown, on the other hand, does not keep the
    workers away: their query leaves out only accounts that are cooling because the
    refresh's retries were exhausted.
15. Clearing an account's error leaves `schedulable` false, so a reauthorised account
    is not refreshed until it is enabled; and reauthorisation drops `_token_version`,
    by which cached tokens are told to be old (`service/token_cache_invalidator.go:78`).

## 5. Proofs

All theorems hold for every value of the constants that the named assumptions
allow: any number of calls, any times and bounds. Each has the form of an
inductive invariant with one proof step per action.

**PaymentOrder** (`PaymentOrderProofs`). `TypeCorrect`, `GrantedOnce`,
`GrantedPaid`, `CompletedServed`, `FailedCanRetry`, `NeverUndone`, `AckedSettled`
and `Refinement`. "Granted at most once" is not inductive: it must be known that
the redeem code (balance) or the audit entry (subscription) says how often was
granted, whoever holds the lease (`GrantInv`), and what a call has granted by
the time it reaches each statement (`HolderInv`). That the order is paid when it
is fulfilled rests on `RowInv` (paid_at and the statuses go together) and
`CallInv` (a call that confirms or fulfils has seen a payment). The lease itself
is *not* part of the argument: two holders at once are harmless for the grant,
which is why item 1 of section 4 costs a misleading status and no money.
`AckedSettled` says that `AckedOnlyWhenSettled` holds until a request fails, whatever
the kinds of call: `AckInv` adds what a delivery has seen of the row at its last
statements, and `Onwards` that the row cannot go back on it. (A failing read is
swallowed and acknowledged, hence the condition.) `Refinement`
shows that every step is a step of `OrderPromise` or leaves it unchanged.

**PaymentRefund** (`PaymentRefundProofs`). `TypeCorrect` and `NeverOverdraws` hold
without assumption. `OneRefundAtATime`, `RefundedPaidBack` and `RefundedStays` assume
that no queries occur (`"query" \notin Ops`): item 3 of section 4 refutes the second of
them otherwise, and a query's final writes are not guarded by the claim. Their invariant
`RefundInv` adds that a call about to report success has the gateway's success in hand.
`QueriedPaidBack` and `QueriedStays` state the last two *with* queries, for refunds of
one amount (any two members of `Amounts` are equal). A provider that can be queried then
opens a single refund, so a query is about the refund the row means, and `QueryInv` can
say what a query knows when it writes. `OneRefundAtATime` does fail there: a late query
that finds the refund refused writes REFUND_FAILED over the claim of a retry, and
another refund may start beside it. `QueryInv` therefore says that refunds exclude each
other *or the gateway has refused the refund*, and a refused refund is never paid back,
so no order is marked refunded wrongly or reopened. `TakenOnce`
assumes nothing: any operations, queries among them, and any number of failing
statements. `HeldInv` says that, unless a query has disturbed a refund, refunds exclude
each other, and that when the order can be refunded no more is held than is out of sight
(`OutOfSight`, the order's amount for each time it was `forgotten`) and what the audit log
tells of (`Known`). A refund that has deducted holds that much more until it gives it
back, records the failure or succeeds.

**Idempotency** (`IdempotencyProofs`). `TypeCorrect`. `OneEffect`: as long as no record
has expired (`EffectInv`) no call takes the expired path, the executing call has the
row, and a row that can be claimed means that nothing has succeeded. `ResponseOwn`
(`ResponseInv`): a call that still finds the row whose id it remembers finds its own
fingerprint, because ids are not reused under it and a reclaim needs the same
fingerprint; this holds however slow a call is. `Exclusive` under `MaxStall < LockTime`
and `MaxAge < TTL`: `ExclusiveInv` relates the row's two times to its owner's age, and
the ages of the owner and of a call about to reclaim: the latter read the row before the
owner claimed it, so it started at most `MaxStall` after the owner. The last section of
the module instantiates `SystemOperationLock`, which keeps its row in the same table and
uses the same repository calls: `LockExclusive` shows its `TypeOK` and
`OneOperationAtATime` under `MaxStall + MaxGap < LockTime` and `MaxAge + MaxStall < TTL`,
for operations of any length below the TTL. `LockInv` says that the row of a running
operation lives as long as the operation; that whoever created it still has its
fingerprint in it, so that its renewals are accepted, and has a lock that lasts until the
next one; and that, before a lock was outrun, whoever took the row over has it locked.
`LockTimesInv` bounds what a call has seen before its claim and between renewals.

**BatchImageQueue** (`BatchImageQueueProofs`). `TypeCorrect`; `InflightQueued`, which
the scripts keep by themselves once the ready list is seen as a set (`Waiting`, with
lemmas on pushing and popping); `OneOwner` from `OwnerInv`: a worker between taking and
releasing a lock that has not lapsed is the one the lock names. `Refinement`: every
script is a step of `JobQueue` or leaves the set of queued jobs alone, so `BatchImage`
may be composed with `JobQueue` instead.

**BatchImage** (`BatchImageProofs`). `TypeCorrect`, `FrozenCovered`,
`CompletedCharged`, `FailedNotRunning`, `HoldRemembered`, `RefundedWhenGivenUp` and the
action property `StayFinished`, from one invariant. Its parts: `MoneyInv` (the dedup
rows are the record of what has moved, so a repeated capture or release is
recognised), `SubmitInv` (how far the submission has come), `RowInv` (what a status
says of the provider and the money), `RefundInv` (what a release may follow),
`CareInv` (somebody leads to the hold), `WorkInv` (what a worker knows of its job at
each step, and how much of it survives a lapsed lock), `LockInv` (two workers have a
job only after a lapse) and `FrozenInv`, the balance of the frozen money as an equation:
the frozen balance plus one hold for each job that was both captured and released is
what others have frozen plus one hold for each outstanding job. The inequality
`FrozenCoversHolds` alone is not inductive. The equation counts jobs, hence the
assumption `IsFiniteSet(Jobs)`. The attempt to prove `HoldRemembered` showed that it was
too strong for three workers, an instance TLC had not been given: a job may also be
forgotten after it has *failed* under a lapsed lock. `OutOfSight` names that case now.

**SchedulerSnapshot** (`SchedulerSnapshotProofs`). `Fencing`, from `FenceInv`: the
activation compares the writer's token with the epoch, whereas the property speaks of
the epoch of the load; what connects them is that every writer loads after it has taken
its token (`MemOK`) and epochs only grow. `ChargedByClaim`, an action property of the
billing transaction: a step that charges claims a request nobody had claimed, in either
table, and charges its cost; no step forgets a claim. `KeyStatusTrue`: the key's status
agrees with its quota, and its use with the balance. `EveryClaimOnce`: the balance has
lost exactly the costs of the claimed requests (`ChargedInv`). The sum is written as the
number of charged units, so that a new claim adds a disjoint set of units and no
induction over a sum is needed. `Reconciled`: when every event is consumed and nobody is
at work, the bucket is retired exactly when the group is disabled, unless an event or a
lease was lost. `ReconcileInv` says where a change that is not settled can still be:
ahead of the watermark, and ahead of the last id of every poller that is past the
group's lifecycle in its batch; a group event that still has its dedup key is ahead of
everyone; and whoever reads the group and decides by it holds the lease. This holds for
any number of pollers, rebuilders and readers; the assumption that the three sets are
disjoint says that a process runs one of the loops. `TypeCorrect` uses both invariants:
that a remembered token belongs to an epoch that has been is `FenceInv`, that a
remembered id has been given out is `ReconcileInv`.

**Concurrency** (`ConcurrencyProofs`). `TypeCorrect`, `OverAdmissionBounded` and
`QueueBounded`. The first bound is not inductive, since admission looks at the members
in Redis and not at the requests: `RequestInv` says that whoever uses the account has
its slot or its lease, or is recorded in `lost`, or goes on without its client, and
`MemberInv` that the owners of either, counted once, are within the limit. That is why
the lease may exceed the limit by one: its owner is already among them. `QueueInv`
says that every queued request is counted or recorded in `missed`. Both count
requests, hence `IsFiniteSet(Requests)`.

**OAuthRefresh** (`OAuthRefreshProofs`). `TypeCorrect`, `RotatedOnce`, `GrantKept` and
`DisabledByItsToken`. `OnceInv` holds the argument for the first: as long as nothing
has broken the discipline, the caller inside has the lock and so is alone, the token
it is going to present is valid, and the stored one is valid or its successor is in
the hands of the caller inside. `MutexInv` says that callers of one instance exclude
each other whatever happens to the lock, `RejectedInv` that a rejected token stays
rejected and an expired one expired, and `AdminInv` that nobody gives the account a
new grant between the administrator's read and write; the last two carry the action
properties.

**Only model-checked.** Liveness (`PaidIsCompleted`, `OrphanIsReleased`,
`HoldIsSettled`, `QueuedIsProcessed`, `Converges`, `SessionsHaveLeases`,
`LeftoversGo`, `TokenIsRenewed`) is out of the prover's reach, as is everything else
that needs fairness or ENABLED. Every invariant and every safety property of the runs
is stated by a theorem. `RefundedMeansPaidBack` for refunds of several amounts
together with queries is not stated, since item 3 of section 4 refutes it.

## 6. What is left out, and the plan

Within the modelled parts: refunds of subscription orders, provider selection,
order admission, the public redemption path, requests without an idempotency
key (they run unprotected by design), the text of stored responses, usage charged to
subscriptions and rate windows, the balance cache, user slots and WebSocket ingress
leases, the cache of access tokens, and what a request does for an account without a
token or with an invalid proxy. The notes in `PROJECT.json` name them per
component.

To model next: **subscription refunds** as an extension of `PaymentRefund`; **order
admission** over several orders of a user, whose limits are counted under READ
COMMITTED (`service/payment_order.go:243`); the usage record pool, the quota
flusher, the leader lock, the user message queue, the prompt audit queue and the
WebSocket pool. Known exposures there and at the edges of the models, not covered by
a property: a webhook acknowledged when the order could not be read
(`service/payment_fulfillment.go:80`), and a request number with the time in it, which makes
a retried partial refund a new one (`payment/provider/alipay.go:344`).

Not planned: gateway forwarding and protocol conversion (transformations of
unbounded text), provider clients (signing and I/O; their answers are
nondeterministic choices of the models), affiliate ledgers, the update service,
generated code and the web front end. These are most of the repository's lines.
