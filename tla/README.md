# Verification of the relay service

A TLA+ development of the parts of claude-relay-service whose correctness
depends on the order of steps: the recharge orders, their refunds, the balance
ledger behind both, the concurrency leases of an API key with their queue, the
spending limits of account groups, the queue of user messages of an account,
and the settlement of Gemini interactions.  TLC checks the models on small
instances; TLAPS proves every invariant and action property that the runs check,
and the refinement, for every value of the constants.  `PROJECT.json` lists the
components, the runs, the source lines each definition stands for, the
hazards, the findings and the theorems.

Paths below are relative to `src/src/` of the repository copy unless they
start with `src/`.

- [1. Inventory](#1-inventory)
- [2. Modules, and how they correspond to the code](#2-modules-and-how-they-correspond-to-the-code)
- [3. Runs](#3-runs)
- [4. Fairness](#4-fairness)
- [5. Proofs](#5-proofs)
- [6. Where the code and its promises differ](#6-where-the-code-and-its-promises-differ)
- [7. What is not modelled](#7-what-is-not-modelled)
- [8. Plan](#8-plan)

To run: `tlc -config X.cfg MCModule` for a row of section 3,
`tlapm XProofs.tla` for a proof module.

## 1. Inventory

The service is a Node.js process; several may share one Redis.  A handler runs
without interruption between two awaits, so a **step of a model is what
happens at one await**: one Redis command, one Lua script, one call of a
payment channel.  Handlers, timers, the cron and webhooks interleave between
steps; a crash may end any of them at any step.

### Components that keep shared state

**Payment orders** (`modules/payment/payment_order_service.js`,
`payment_order_repository.js`, `payment_provider_repository.js`,
`payment_webhook_routes.js`, the cron in `app.js`).
State: the order hash and its status indexes, a create lock per API key, the
key's recharge total of the day, a reservation hash per channel instance and
day.  Operations: create, webhook, verify, manual completion, cancel, expiry
and paid scan of the cron, reconcile of reservations.  Correct when quota is
credited exactly for confirmed payments, a genuine payment is never refused,
one of another amount never confirmed, limits hold under concurrent creation, and no order or reservation is left
behind by a crash.

**Refunds** (`payment_order_service.js` from line 650).
State: the order's markers `channelRefundAttemptAt` and `channelRefundedAt`,
`reversedQuota`, a refund lock per order.  Operations: approve, re-entry of an
order in REFUNDING, verdict on a channel call whose outcome is unknown,
rollback, finalize with three attempts.  Correct when money goes out at most
once and for exactly the quota taken, and the customer never ends with both.

**Balance ledger** (`payment_balance_ledger.js`, `payment.*` in
`infra/redis_lua.js`).  State: credited, reversed and baseline totals per key,
sets of applied reference ids, a recovery hash of refunds.  Operations: credit
once, reverse with clipping, unreverse, baseline if absent.  Correct when each
reference id counts once and totals equal the records.

**Concurrency leases and queue** (`infra/middleware_auth.js`,
`infra/redis_concurrency_store.js`, `infra/redis_concurrency_queue_store.js`,
`common/gateway_ws_api_key_auth.js`).  State: a sorted set of leases per key,
a counter of queued requests with a TTL.  Operations: acquire, give back,
enqueue, poll, leave, renew, release, forced cleanup after the maximal
lifetime, administrative clears, sweeps.  Correct when the limit holds, nobody
takes another's lease, every lease and every count comes back, and nobody
queues for ever.

**Group USD policy** (`modules/account/account_group_policy.js`, the `group*`
scripts of `infra/redis_lua.js`, `infra/middleware_auth.js`, the schedulers).
State: cost counters per day, week and month, and one hold key per group.
Operations: reserve on scheduling, settle with the usage, release on every
error and on closing.  Correct when the counters are what was spent and
reserved, whoever settles, across midnight, and spending passes a limit by one
request at most.

**User message queue** (`modules/user/user_message_queue_service.js`,
`userMessageQueue.*` in `infra/redis_lua.js`).  State: a lock with a TTL and the
time of the last completion per account.  Operations: acquire by polling,
release by the holder, cleanup of all locks when a server starts.  Correct when
messages of an account go upstream one at a time and a delay apart, and nobody
waits beyond the timeout.

**Gemini interactions** (`modules/relay/relay_gemini_interactions_service.js`,
`infra/redis_gemini_interactions_store.js`).  State: a record per interaction, a
set of pending ones, a lease, a deduplication key of the charge.  Operations:
create, read, stream, cancel, delete, and a poll on every server; each merges
what it heard and settles.  Correct when the cost is charged once, the usage
counted once, and both happen in the end.

**Account token refresh lock**
(`modules/account/account_token_refresh_service.js`): a Redis lock whose owner
id is remembered per process.  **Order status index**
(`payment_order_repository.js`): sorted sets by status that heal themselves
when read.  **Grok video settlement**
(`modules/relay/relay_grok_relay_service.js`): claim, release and finish of a
job's settlement.  **Quota cards and their redeem lock**: redeem once, lock out
after failures.  **Proxy pool**: compare-and-set of assignments.  **API keys and
the rate-limit window**: a hash per key; a window start that is read and then
set.

### Components that are mostly data or I/O

Account schedulers and sticky sessions, relay services and protocol
translators, the WebSocket pool, pricing and statistics, migrations,
notifications, caches and loggers, the admin pages.  `PROJECT.json` says of
each why it is left out.

### Interactions

An order's confirmation writes the order (a status CAS), the key's day total,
the instance's reservation hash, the ledger, the key's baseline and its billing
mode, each in a command of its own.  A refund reads the ledger, changes the
order's status, takes quota back from the ledger, writes a marker, calls the
channel and writes the result.  Requests consume the balance at any time.  An
HTTP request and a WebSocket turn of the same key compete for the same lease
set; the request also goes through the queue, whose probes use the lease set
too.  An admitted request then passes a scheduler, which takes the hold of its
account's group, and for a user message the lock of the account; recording its
usage settles the hold, closing its response releases it.  These are separate
keys that no code path reads together, so each has a module of its own.

### What is hard

- Webhook, verification, cron and user act on one order at once, each on a
  snapshot that is stale after every await.
- Any write may fail, succeed with its answer lost, or be the last thing a
  process does.  A channel call may time out after it paid.
- Locks have TTLs and are not renewed; leases have TTLs and are.
- A candidate for a lease counts itself before it knows whether it fits.
- A client may leave before anybody listens for it.
- A hold or a lock may belong to somebody else by the time it is given back.
- A record is read, changed over several awaits and written back whole.
- A decrement that failed cannot tell whether it was applied.

`PROJECT.json` ("hazards") has the full list, each at its line, with the
properties that would catch it going wrong.

## 2. Modules, and how they correspond to the code

| module | models | built on |
|---|---|---|
| `PaymentOrder` | the order's life up to COMPLETED | |
| `RefundRules` | arithmetic of `payment_rules.js` | |
| `RefundPromise` | abstract specification: what a refund promises | `RefundRules` |
| `PaymentRefund` | the refund in detail, implements `RefundPromise` | `RefundRules`, `INSTANCE RefundPromise` |
| `ConcurrencySlot` | leases and queue of one API key | |
| `GroupPolicy` | the hold and the counters of one account group | |
| `MessageQueue` | the user-message lock of one account, in discrete time | |
| `GeminiSettlement` | the settlement of one Gemini interaction | |
| `MC*` | values of constants and symmetry for TLC | |
| `*Proofs` | theorems about the module of that name | |
| `PaymentOrderLimitProofs` | theorems about `PaymentOrder`'s limits and sums | `PaymentOrderProofs`, `FiniteSums` |
| `FiniteSums` | lemmas about sums over finite sets, for both payment modules | |

The operators commented `mutant:` are not part of a model: each is the body of
the definition below it with a plausible bug.  With the bug in place the
property that `PROJECT.json` pairs it with is violated.

### PaymentOrder

A *worker* is a handler under way: an HTTP handler, a webhook or one order of
a cron tick.  `pc` is the await it stands at, `ord` its order, `seen` what it
summed up before the next await.  Each action is the code between two awaits.

- `CreateLock` .. `CreateUnlock` are `createOrder`'s section under the create
  lock: pending count, day total, instance selection with its reservation,
  save.  `CreateThrow` is the `catch`/`finally` of that section, with the
  command that failed applied or not.  `CreatePayment`, `CreatePaymentFails`
  and `CreatePayCancel` are the channel call outside the lock.
- `Webhook`, `Verify`, `ManualComplete`, `CronPaid`, `CronExpired` start a
  handler on the status it reads; `ConfirmFromPending`, `ConfirmFromExpired`,
  `ConfirmFromCancelled` and `ConfirmRecheck` are the loop of
  `confirmPayment`; `CountRecharge` and `EnsureReservation` what follows a
  successful CAS; `FulfilRead` .. `FulfilComplete` are `fulfillOrder`.
- A payer may pay what the order asks for or another amount (`Pay`).
  `AmountMatches` is the first check of `confirmPayment`: another amount throws
  before any CAS, whatever the status.  A webhook and a verification then end
  without a trace, so `Webhook` is not enabled and `VerifyQuery` ends; a manual
  completion passes the order's own amount and cannot fail the check.
- The cron's expiry scan catches what its `confirmPayment` throws.
  `CronQueryAnswered` is the answer, `CronQueryUnknown` none or an error,
  `CronConfirmThrows` a Redis error in the confirmation, `CronConfirmFailed` the
  `catch` block (525-556): PAID is fulfilled at once, PENDING deferred by two
  minutes with no bound.  `CronCatchThrows` is an error in that block, which the
  outer `catch` takes for an unanswered query.  `scan` says which worker is such
  a scan, and whether its order was within the query grace.
- `CancelOrder`, `CronExpire` and `Reconcile` close or clean up, and go on to
  `Release`, the HDEL of the reservation, in a command of its own.
- `Crash` ends a handler where it stands.  Redis errors that nobody catches
  have the same effect.  `LockExpires` is the create lock's TTL.

Abstractions.  One accounting day, so a day rollover between reservation and
release is not seen.  Money is counted in units of `PayAmount`; what was paid
matches or does not, an answer of the channel that names no positive amount
counts as matching, as it does in the code, and the channel's answer about a
paid order does not change.  `casStatus`
moves the order between its status indexes in the script that changes the
status, so indexes are the set of orders with that status; their healing reads
are a component of their own (planned).  The cron's paging is a fair choice of
an order.  An order whose save never happened leaves its id unused.
`LockOverrun` makes the create lock expire under a live holder; the runs set
it FALSE, because the code accepts this case (the lock is 5 s, the scan under
it is short); of the theorems only `PendingLimitHolds` assumes it FALSE.

### PaymentRefund, RefundPromise, RefundRules

`PaymentRefund` starts from COMPLETED orders.  `Approve` takes the refund lock;
`ApproveRead` .. `Reopen` are `_approveRefundLocked`, `ResumeRead` ..
`ResumeQuote` are `_resumeRefund`, `Mark` .. `ChannelThrows` are
`_executeChannelRefund`, `Rollback` and `ClearMarker` are `_rollbackRefund`,
`FinalizeMark`, `FinalizeCas` and `FinalizeFails` are `_finalizeRefund`,
`ResolveRead` and `ResolveMark` are `resolveRefundInDoubt`.  `Reverse` and
`Unreversed` are the ledger's Lua scripts.  Every `...Fails` action is the
`catch` of its step: the command was applied or not, and the handler goes on
as the code does.  `Consume` lets other requests spend the balance between any
two steps, beyond zero too, as in-flight requests can.

`RefundPromise` has three actions on `held` (quota taken back) and `paid`
(money out): `Hold`, `GiveBack` only while nothing is paid, `PayOut` once and
for exactly the quota held.  `PaymentRefund` implements it with
`held <- reversedOf` (the ledger's recovery hash) and the channel's own books.
`RefundRules` has `computeRefundableQuota` and `computeRefundAmount`, the
latter rounding half up to the cent, so that a small quota may be worth nothing.

Abstractions.  The ledger's baseline is 0 here.  A verdict is truthful and is
given once the channel has decided.  The refund lock (60 s) outlives the channel
call, as a comment in `approveRefund` demands of channel clients; what happens
when it does not is not modelled.  The gates on a channel's capabilities only
narrow who may start and are left out.

### ConcurrencySlot

One API key.  A *request* is an HTTP request or a WebSocket turn (`Turns`).
`slots` are the requests with an entry in the key's sorted set, `orphans` counts
entries whose request is over, `queue` is the counter of `queue.incr`/`queue.decr`.

- `Acquire`, `Over`, `Refuse`, `Enqueue` are the admission in
  `authenticateApiKey`, and for turns in `acquireWsTurnConcurrency`.  A request
  adds its entry, learns the size of the set, and takes the entry back in a
  second command.
- `QueueIncr`, `QueueFull`, `QueueCleanup`: the way into the queue and its
  refusals.  `Poll`, `PollOver`, `PollFails`, `StopPolling`, `Leave`:
  `waitForConcurrencySlot` with its `finally`.
- `Disconnect`, `Finish`, `FinishUnheard`, `Release`: service and the ways it
  ends.  `FinishUnheard` is a client that left before the close listeners were
  registered, so that no event may come.
- `Renew`, `ForceCleanup`, `LifetimeOver`, `OverrunEnds`: the renewal timer and
  the maximal lifetime.  For HTTP the entry is removed while the request goes
  on; for a WebSocket turn `onLeaseExpired` disconnects the client, or the
  caller gave none (`relay_codex_responses_ws_bridge.js`) and the lease lapses.
- `LeaseLapses`, `OrphanLapses`, `QueueExpires`, `Outage`, `Die`: time, a Redis
  outage longer than a lease, the death of a process.
- `ClearSlots`, `ClearQueue`, `SweepRead`, `SweepDelete`: administration,
  start and shutdown of another process.

A command that fails was applied or was not, and its caller cannot tell
(`Outcome`).  Every script drops lapsed entries first, so a lapsed entry is an
absent one.  Abstractions: the overload check and a disabled queue are a free
choice between `Refuse` and `Enqueue`; renewal is on with an interval below
the lease, as `maxSafeRenew` arranges; the leases of console accounts, which
use the same scripts, are left out.

`HoldersWithinLimit` speaks of entries, not of requests being served.  An HTTP
request that outlives its maximal lifetime loses its entry and is still served,
so more than `concurrencyLimit` requests may run.  The WebSocket path
disconnects instead, for that very reason
(`gateway_ws_api_key_auth.js:105`); a turn whose caller gives no
`onLeaseExpired` goes on all the same.

### GroupPolicy

One group.  `cost` are the counters by axis and period, `hold` the hold key.
`Reserve`, `SettleHold` and `ReleaseHold` are the three scripts; the actions are
the places that call them.

- `Admit`, `AdmitLost`, `Deny`, `Refuse`, `RpmExceeded` are
  `assertGroupPolicyAllowed` and the ways out of it; `SelectionFails` and
  `ReleaseInCatch` the scheduler's `catch`, which releases for every error
  alike; `Serve` the upstream call.
- `RecordUsage`, `RecordFails`, `NoUsage` are `recordGroupUsageCost` and the
  ways not to reach it; `Close` the listeners of the response, or the release of
  a turn.  An HTTP response may close before its usage is recorded; a turn is
  released only after.
- `Crash`, `HoldLapses`, `Midnight`: dying processes, the TTL of two hours, the
  business day.

A request remembers only that it took a hold (`target`); the hold names no
owner.  The `owner` field in the model is history, for `strays`: how often a
hold went while its own request was in flight.  Abstractions: costs are small
integers, so the epsilon of the scripts does not show; the whitelist, the client
check and the requests-per-minute counter are free choices; limits do not change
while requests run.

### MessageQueue

One account.  `lock`, `ttl` and `pause` are the Redis keys, `left` and `nap` the
clocks of a waiting request; `Tick` runs all timers down by one.  No step is
forced at a time, so processes and upstreams may be as slow as they like.

- `Arrive`, `Acquire`, `AcquireFails`, `AwaitDelay`, `AwaitLock`, `Wake`:
  `acquireQueueLock` around its script.
- `Answered`, `Release`, `ReleaseFails`: the answer and `releaseQueueLock`,
  which catches its errors.
- `CleanupScan`, `CleanupDelete`: `cleanupStaleLocks` of a starting server, scan
  and DEL apart.
- `Die`, `Again`: a dying process, and the next request of the same client with
  a new id.

`robbed` and `unrecorded` are history: who lost the lock in flight, and whether
an answer's completion is missing from the spacing.  Abstractions: back-off and
jitter of the polling are any nap up to `MaxNap`; the minutely sweep deletes
locks without a TTL, which the script never makes, and is left out.

### GeminiSettlement

One interaction.  `record`, `pending`, `lease` are its keys in Redis, `job` is
the interaction upstream, `worker` what each client's request and each poller
does, with the answer it got and its copy of the record.

- `Post`, `Create`, `Ask`, `Fetch`, `Cancel`, `Interrupted`, `NotFound`,
  `CallFails` are `create`, `resource`, `_stream` and their calls upstream.
- `ObserveLock` .. `Unlock` are `_observe`: take the lease, read, merge, save,
  schedule, charge, mark, count, schedule again, give the lease back.  `Save` is
  each of its writes of the whole record; `Busy` leaves the work to the poll.
- `Remove`, `GetSaved`, `Save`, `ScheduleDeleted` end a deletion, without the
  lease.
- `Poll`, `DeferLock`, `Review`, `Requeue` are `poll` and
  `_deferToReconciliation`.
- `RedisFails`, `Abort`, `Thrown`, `Die`, `Lapse`: a failed command and where
  its error ends up, a dying process, the TTL of the lease.

`AddTotal` is the charge under its deduplication key, `CountOnce` the script
that counts in the rate-limit window and marks the record.  `outdated` and
`torn` are history: whose copy another write has overtaken, and whether such a
copy was written.  Abstractions: a usage report has its token counts; the key
has a rate limit with an open window; records live 55 days, longer than a
behaviour; records of older versions are left out.

## 3. Runs

| run | cfg | shows |
|---|---|---|
| `payment_order` | `PaymentOrder.cfg` | eight properties below, two orders of one key racing for one pending slot and for room for one on an instance, two handlers, one crash |
| `payment_order_liveness` | `PaymentOrderLiveness.cfg` | paid orders complete, pending ones settle unless paid in another amount, stale reservations are returned |
| `payment_refund` | `PaymentRefund.cfg` | safety of the refund and its refinement of `RefundPromise`, two orders of one key, three faults |
| `payment_refund_liveness` | `PaymentRefundLiveness.cfg` | an order leaves REFUNDING whatever fails, up to three times |
| `concurrency_slot` | `ConcurrencySlot.cfg` | limit, ownership of entries, queue counter: two HTTP requests and a turn, one fault, one clear |
| `concurrency_slot_liveness` | `ConcurrencySlotLiveness.cfg` | leases come back, nobody queues for ever; an HTTP request and a turn, two faults, one clear |
| `group_policy` | `GroupPolicy.cfg` | the hold and the counters of a group with a daily and a monthly limit: two HTTP requests and a turn, two faults, one lapse, one midnight |
| `message_queue` | `MessageQueue.cfg` | the user-message lock: two requests that come again and again, two faults, one starting server |
| `gemini_settlement` | `GeminiSettlement.cfg` | an interaction settled by a client and a poller, one fault, one lease that ends early |
| `payment_refund_stranded`, `group_stack`, `gemini_counted` | | violations, see section 6 |

**payment_order.**  `LedgerAgreesWithOrders`, `PaidForOrVouchedFor` and
`ConfirmNeverRefuses` are about the three-CAS loop under every race of two
handlers; `TransitionsAllowed` about the status; `PendingLimitRespected` about the create lock;
`RechargeCountedOnce` about a counter without idempotence; `ReservationsHeld`
about reservations, of orders that wait and of orders that are paid.
Two workers exhibit every race of two handlers, and a third handler can act
after either ends since handlers start afresh in any state; two orders are what
the limits need to be exceeded; one crash reaches every step at which state can
be left behind, since a crash ends a handler for good, and it makes the expiry
scan's confirmation fail at every command.  Six million states.  Deadlock checking is
off: a system whose orders are all settled and whose users ask for nothing
has stopped.

**payment_order_liveness.**  `PendingOrdersSettle` rests on the query grace, after
which an unanswered query closes the order, and on the CASes of others.  It excepts
the order paid in another amount, which waits until somebody cancels it or completes
it by hand (section 6); that such an order is never settled by itself is part of
`PaidForOrVouchedFor`.

**payment_refund.**  Orders of three units of quota for one unit of money: one
unit of quota is worth nothing, two or three are worth one, so clipping reaches
all three cases.  Consumption up to 4 of 6 units makes the balance fall below
what either and what both orders need.  Three faults are as many as
`FinalizeTries`, so that finalization can fail for good.  Deadlock is checked here:
a refund can always be asked for again.

**concurrency_slot.**  Limit 1 and one place in the queue make three requests
fill both and one be refused.  `MaxRefresh` 1 reaches the maximal lifetime,
`MaxRedisFails` 2 has a failed poll that goes on and one that gives up.
Deadlock is checked: a key can always be asked for a lease.

**group_policy.**  A daily limit of 2, a monthly one of 3 and costs up to 2: a
request can end below, at and beyond either limit, and midnight renews one of
them only.  Two HTTP requests and a turn are the three ways to take a hold that
is not one's own: an HTTP request refused beside one in flight, a close after
another's admission, a turn beside both.  `OverrunWithinStrays` says how far spending may
pass a limit when holds go astray; `CountersSettle` that every reservation is
given back.  Deadlock is checked, with `Finished` as the end of all requests.

**message_queue.**  `Ttl` 3, `Delay` 2, `Timeout` 3 and `MaxNap` 2 let the delay
end before and after a lock lapses, and a waiter run out of time or not.  Two requests suffice: a release can only take the lock of one
other, and `Again` lets each come back as a newcomer.

**gemini_settlement.**  A client and a poller are the two who can settle at
once; the client starts the job and may then read, stream, cancel and delete it
as often as it likes.  One fault and one early end of the lease each reach every
step; the theorems hold for any number of all of them.  1.3 million states.
Deadlock checking is off: a settled interaction nobody asks for has stopped.

Symmetry is over workers and orders, and over requests of one kind; it is used
in runs of safety only.

## 4. Fairness

- *Handlers run on* (weak fairness of `Continue`, `Timer`): an await returns or
  throws, Node's event loop resumes the handler; no path waits for another.
  The succeeding outcome of a command is the fair one in `ConcurrencySlot`
  (`Continue(r, TRUE)`); faults are bounded and never required.
- *Time passes*: `Tick`, `LockExpires`, `OrphanLapses`, `QueueExpires`,
  `LeaseLapses` are TTLs and deadlines.  `StopPolling` is strongly fair because a
  waiting request polls over and over, and its clock, which is read every round,
  runs out however often it does.
- *The cron* (strong fairness of `CronPaid`, `CronExpired`, `Reconcile` per
  order): `setInterval` starts a tick every five minutes; the paid scan keeps a
  rotating cursor, the expiry scan takes the oldest deadline first, so each
  order is visited again and again but only when a worker is free.
- *Administrators*, in the refund runs only: someone keeps approving and giving
  verdicts.  `RefundingSettles` needs this; the code has no automatic retry.
- *Requests of a group* (weak fairness of `Serve`, `ReleaseInCatch`,
  `RecordUsage` or `NoUsage`, `Close`): the upstream call has a timeout, and every
  connection ends.
- *Waiters of the message queue* (weak fairness of `Tick`, of the poll, `Wake`
  and `Release`): time passes, and promises and timers that are ready go on.
  Answers are not owed: `WaitersEnd` holds beside an upstream that never answers.
- *Settlement* (weak fairness of a worker's next step, of a call that upstream
  can answer, of the pollers, of `Lapse`): a poll timer runs on every server,
  and a lease has a TTL.  That the job finishes is not assumed.
- Users, webhooks, upstreams and channels owe nothing otherwise.  An upstream may never
  end, a client may never close.

`PaidOrdersComplete` is thus owed to the cron alone, `SlotsReturned` to timers
and TTLs alone, `EvidenceSettled` to whoever is at
work and the pollers.

## 5. Proofs

All theorems hold for every value of the constants that satisfies the named
assumptions of the module (`OrderConstants`, `RefundConstants`,
`SlotConstants`, and those that `GroupPolicy`, `MessageQueue` and
`GeminiSettlement` declare one by one): any number of orders, keys, handlers,
requests, servers, crashes and clears, any limits, times and amounts.  Three
theorems assume more, and say so in their statement: `PendingLimitHolds` that the
create lock does not expire under its holder, `LedgerHolds` that a key has
finitely many orders (a sum over infinitely many has no meaning; the order ids
of `PaymentOrder` may be infinite, since only finitely many are ever saved),
`TurnsOverrunByOne` that all requests are turns and no hold lapses.  No
fairness is used.

**PaymentOrderProofs.**  The properties are not inductive, because a handler
acts on what it learnt several steps ago.  `HandlersInv` says for each step a
handler can stand at what it still knows about its order, whoever has touched
it since: an order is unknown until it is saved (`UnsavedIsNew`); it has one
creator and cannot be paid before the creator is done (`CreatorAlone`); a
confirming handler has the right amount of money behind it, and a status whose CAS has failed
does not come back (`ConfirmersKnow`, which makes the third failed CAS
harmless); a fulfilling handler's order stays settled and the steps of
`fulfillOrder` happened in order (`FulfillersKnow`).  `Invariance` proves it
inductive; `LedgerAgrees`, `PaidFor`, `BaselineFirst`, `NeverRefuses` and the
action property `TransitionsFollow` follow.  Nothing here uses the create
lock: it may expire under its holder.

**PaymentOrderLimitProofs.**  What orders reserve and count against, each with an
invariant of its own on top of `HandlersInv`.

- `ReservationsStay`: a handler that is about to release a reservation acts on a
  status it may have read long ago.  `ReleasersKnow` says what cannot have become
  untrue since: the order is `Gone`, closed once or never payable, and that
  lasts.  So no HDEL meets an order that waits or is paid, unless it had been
  closed and revived, the exception of section 6.
- `PendingLimitHolds`: `LockHeld`, who is between `acquireLock` and `releaseLock`
  has the lock of its key, and `RoomForAdmitted`, what the count found is still
  true at the save.  Other steps only take orders out of pending: a closed order
  that is paid becomes PAID, never pending again.
- `RechargeCounted`: an order is between its CAS and its count in one handler at
  most (`OneCounter`), so what is counted already plus what is about to be is
  paid for by settled orders (`CountedAreSettled`).  The CAS adds an order to
  both sides, the count moves it from one summand to the other, and a crash
  between the two only loses it.
- `InstanceLimitHolds`, which no run checks: for the orders that took their share
  in `createOrder` an instance is never oversold, although creators of different
  keys hold different locks.  Orders revived or completed by hand stand against
  the instance beyond its limit, since their reservation is written back without
  asking.

**FiniteSums.**  `AmountOf` and the ledger's totals are folds of the community
modules.  The fold is a recursive function on the subsets of the set, and this
module proves of it what the two payment modules need: the sum over no element is
0, one element more adds its value, the order does not matter, a part is at most
the whole, and a function changed at one place changes the sum by the
difference.  In place of induction, a smallest counterexample is taken in the
strict subset ordering of a finite set.

**PaymentRefundProofs.**  `RefundInv` has three parts.  `Locked`: a handler
under way holds the lock of its order, so two never act on one.  `BooksRight`:
what the next process can rely on when it finds the order, whatever the last
one died of (markers against the channel's books, the record against what was
paid).  `HandlersKnow`: what a handler knows between its read and its write.
From it follow `MarkersTrue`, `RefundedMatches`, `NeverOverdraws`, and
`Implements`: initial states map to initial states and each action to a step of
`RefundPromise` or a stutter.  `LedgerHolds`: every script changes the record of
one order and the total of its key by the same amount (`Rebooks`), so the total
stays the sum of the records.

`NothingStranded` and `LeftInDoubtOnly` say what holds until something fails
(`Orderly`): whatever the channel answers and however the balance shrinks, an order
that is not REFUNDED is COMPLETED with all its quota and no marker, or REFUNDING in the hands of a
handler, or REFUNDING with its marker for a call whose outcome is unknown.  The
repairs that section 6 finds wanting are thus needed only after a failed command
or a crash.

**ConcurrencySlotProofs.**  The proofs classify the steps and count.
`WithinLimit`: a step adds no holder, or the script that added the entry
counted all of them and found room.  `ServedCounted`: no step removes another
request's entry, except clears and outages.  `CountsWaiters`: a step leaves
counter and waiters alone, changes both alike, is a fault that shifts them by
one, or resets the counter.  `QueueBounded`: a request starts to poll only
right after it compared the counter, and `CountsWaiters` ties the counter to
those who wait.  `OrphansFromFaults` needs the stronger invariant
`StaleAreFaults`: an orphan is preceded by a removal that was not confirmed, so
the entries of requests that went on without being served are counted as
orphans to come, and each of them cost a fault.

**GroupPolicyProofs.**  The invariant is about the counters and the hold only
(`Accounts`, `Fills`), so the three scripts and the lapse of a hold are treated
once each, as facts about values; every action of a request is one of them or
leaves the money alone.  `TypeCorrect`, with the counters never negative,
follows from the accounts: a counter is a sum of natural numbers.
`TurnsOverrunByOne` needs more: if all requests are turns and no hold outlives
its TTL, a turn in flight has the hold that is there (`TurnHolds`), which
reserves something under every limit (`HoldReserves`), so what it is charged
takes the place of a reservation.  With HTTP requests the theorem does not hold, see
section 6.

`OverrunBounded` covers all requests.  One in flight is *covered* while the hold is
its own.  It becomes uncovered only when the hold goes without it, and that is a
stray; so the uncovered requests are at most as many as the strays
(`StraysMatched`), and the strays beyond them are the costs above the limit that are
excused already (`Excused`).  The charge of an uncovered request leaves one
uncovered request fewer and so excuses itself; a covered one is charged from below
the limit.  `HoldsKept`: until something fails the request that took the hold still
has a release before it, on every path through refusals, settlements and closes.
`QuietIsSettled` follows: with no request under way and nothing failed or lapsed,
the counters are exactly what was charged.

**MessageQueueProofs.**  `Owned`: who is in flight holds the lock or was robbed
of it.  `Paced`: what is left of the delay and the time since the last answer
add up to the delay, unless the answer is still to be recorded or was not
recorded.  Neither property is inductive without them; with them
`SerialAlways` and `SpacedAlways` follow.  `LocksOwned`: until something fails a lock
is that of a request in flight, so nobody waits for a lock that no one will give
back.  `OversleepsOnce`: a waiting request whose time is over sleeps at most one
more poll interval, since a sleep for the delay is cut to the time left and a sleep
for the lock is not.

**GeminiSettlementProofs.**  `Shape` says what a step may rely on: a record
exists once anybody settles, and whoever writes has a copy.
`LeaseHeld`: while no lease has ended early, who settles has the lease.
`CopiesFresh`: then no copy to be written is outdated, unless a deletion has
written.  `MarkStays`: while no outdated copy was written, the usage was counted
once at most, and the mark that says so stays in the record and in every copy to
be written that is not outdated.  `LostExplained` and `CountedOnceIfWhole`
follow, and with `MarksTrue` say together: without a lease that ends early and
without a deletion the usage is counted once.

`EvidenceHeld`: until something fails as well, final usage is on the poll's list,
charged and counted, or about to be listed.  It needs to be known what separates a
copy from the record at each step of the lease's holder (`CopiesAccurate`), because
what is listed is decided by the copy; that an interaction with final usage is never
left to a person (`FinalUnreviewed`); and that nobody else takes the record off the
list (`NextPending`).

**Only model-checked.**  Liveness under fairness (`PaidOrdersComplete`,
`PendingOrdersSettle`, `StaleReservationsCleared`, `RefundingSettles`,
`SlotsReturned`, `WaitingEnds`, `CountersSettle`, `WaitersEnd`,
`EvidenceSettled`): this prover does not reason about fairness and ENABLED.
`NothingStranded`, `LeftInDoubtOnly`, `HoldsKept`, `QuietIsSettled`, `LocksOwned`,
`OversleepsOnce` and `EvidenceHeld` are what safety says about some of them: the
state from which the promised step is taken is there.  They cover the time before
the first fault only, while TLC checks the liveness properties with faults.  The
properties of the three violation runs do not hold.  There is no RECURSIVE operator
in any module.

## 6. Where the code and its promises differ

Three differences have a run that TLC ends with a counterexample;
`PROJECT.json` quotes the line that promises otherwise.

1. `payment_refund_stranded`: after a rollback that failed, approving again
   should resume the refund, but the early balance check, from which the quota
   is missing already, turns every approval away once the rest is spent.
2. `group_stack`: the header of `account_group_policy.js` promises that a limit
   is passed by one request at most.  A request refused as busy by a scheduler
   runs the scheduler's `catch`, which gives back whatever hold the group has:
   that of the request in flight.  The group admits the next one beside it, and
   their costs stack up.
3. `gemini_counted`: tests expect the usage to be counted once.  A deletion reads
   the record and writes it back whole without the lease; a settlement in between
   loses its mark, and the usage is counted again.

The following were met while modelling and have no run of their own.  The
models show the code's behaviour, and the properties are stated so that they
hold of it.

- Cancel, expiry and reconcile release an instance's reservation in a command of
  its own after the status changed.  A webhook that revives the order in between
  writes the reservation back first; the late HDEL
  (`payment_order_service.js:1046`) removes it, and the order completes
  uncounted, against the comments at 355 and 609.  `ReservationsHeld` excepts
  revived orders.
- `createOrder` adds the day total to the pending sum (lines 138 to 145), but
  `confirmPayment` moves an order from one to the other without the create
  lock: an order in neither sum lets another exceed the key's daily limit.
- An order paid in another amount than it asks for stays PENDING: each
  `confirmPayment` throws (line 263), and the expiry scan asks again every two
  minutes without end (line 547; the grace of line 567 bounds unanswered queries
  only).  It keeps its place under `maxPendingOrders` and its share of the
  instance's limit until somebody cancels it or completes it by hand.
  `PendingOrdersSettle` excepts it.
- The comment at 443 wants an order that the channel reports paid, but whose
  confirmation fails, never to be expired.  If reading it again in the `catch`
  fails too, the error reaches the outer `catch` (line 562) and counts as an
  unanswered query: beyond the grace the order is expired.  It can be revived.
- A comment (line 884) calls `unreverse` returning 0 unreachable; a crash
  between `unreverse` and the unlocking CAS reaches it, and the verdict then
  reports a completed rollback as failed (line 857).
- The leaked queue count that a comment (`infra/middleware_auth.js:443`) leaves
  to the TTL is kept alive by every refused request, which renews the TTL.
- The cleanup of leases looks at the key and deletes it in another command
  (`infra/redis_concurrency_store.js:484`); a request admitted in between loses
  its lease.
- The lock of the message queue lives 5 s by default and is not renewed while it
  is kept until the response arrives.  The service's header promises serial
  requests; `src/config/config.example.js:239` expects the TTL to be enough.
  `SerialUnlessRobbed` says what remains.
- In `_observe` a response that was fetched while the job ran may be merged after
  the terminal one: the status goes back, and final usage counts as interim
  until the poll looks again (lines 180 to 187).
- Locks whose TTL the code takes to be long enough: the create lock of 5 s, the
  refund lock of 60 s.  An HTTP request outlives its lease at the maximal
  lifetime (`infra/middleware_auth.js:981`).

## 7. What is not modelled

`PROJECT.json` lists each component left out with the reason.  Of the modelled
parts: accounting days that change (PaymentOrder); a lost answer of a successful
command outside the places where the code catches it, which is a `Crash` after
the step; a create lock that expires under its holder (the constant
`LockOverrun` is there, no run sets it TRUE, as `PendingLimitRespected` then
fails and the code accepts that); a refund lock that expires during the channel
call; the loss of a recharge count by a crash right after the PAID CAS, which
makes the day's total too low for good (hazard list); audit entries other than
those a property reads; the transaction list of the ledger; wait-time
statistics of the queue; of a group's policy the whitelist, the client check and
the requests per minute; of Gemini interactions the records of older versions,
usage without token counts and the translation to `generateContent`.

Most of the repository is the administration interface, provider protocols and
their conversion, account CRUD and statistics: presentation and data, with
little state that two actors share.  What a model could show of them a unit test
shows as well.

## 8. Plan

Done: the order life cycle, the refund with its abstract specification, leases
and queue, group limits, message queue, Gemini settlement, each with proofs.
Next, in this order:

1. Proofs: liveness cores after a fault, for the slots of `ConcurrencySlot` and the
   reservations of `PaymentOrder`: that whatever a crash leaves behind is something
   a timer will find.
2. `TokenRefreshLock`: the owner id kept in an in-process map by lock key; the
   claim that only the own lock is released, checked against two refreshes of one
   process with a lapse in between.
3. `OrderStatusIndex`: the sorted sets and their healing reads against a
   concurrent `casStatus`; rebuild at start.  Composes with `PaymentOrder`, whose
   index abstraction it justifies: the index specification as PROPERTY.
4. The settlement of Grok videos, beside that of Gemini interactions: the lease
   is a field of the record there, so one script checks both.
5. Redeem lock, proxy compare-and-set.

The set of runs is kept small: when a new module needs runs, the violation
runs that say least about the present code are the first to go.
