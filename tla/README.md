# TLA+ specifications of HeryJs

HeryJs is a NestJS back-end framework: a multi-tenant core (`src/src/technical`)
and installable packages (`src/packages`). Its stateful parts run in several
Node processes over one PostgreSQL, one Redis and BullMQ queues. This directory
models the parts whose correctness depends on the order in which processes,
requests, timers and crashes interleave, model-checks them with TLC and proves
their main properties with TLAPS.

Every module keeps the control of the code (guards, early returns, writes and
the order of the awaits) and abstracts its data: a message, a request or a
handler is a value, a payload is nothing. `PROJECT.json` maps each definition
to the lines it models.

## 1. The system and what each part must get right

| Part | State it keeps | Operations | Interacts with | What makes it correct |
|---|---|---|---|---|
| Distributed lock (`lock.service.ts`) | one Redis key per name, holding a token, with a TTL; a heartbeat timer per handle | acquire, renew, release, stopRenewing | scheduled tasks, outbox relay, idempotency | one holder at a time; a stale release harms nobody; a crash frees the key |
| Transactional outbox (`outbox/`) | rows `OutboxMessage`, `OutboxReceipt` | stage (in the caller's transaction), drain, requeue, prune | lock; handlers: event bridge, webhook fan-out, audit sink, cache invalidator | at least once per handler, no handler again after its receipt, exact attempts, every message settles unless a handler hangs |
| HTTP client resilience (`http-resilience.ts`) | circuit state, failures, probes, slots, per host and process | run, open, reset, configure | every outbound call | slots exact, probes bounded, an unhealthy host is not called, half-open is decided |
| Idempotency keys (`idempotency/`) | one row per tenant and key | the interceptor around a handler, the sweep | lock | one effect per key, the same response to every retry, nothing stored for a failure |
| Change feed (`change-feed/`) | a session's channels and presence; presence hashes in Redis; one topic per tenant | subscribe, unsubscribe, join, leave, broadcast, close | live, sse, websocket transports | listens exactly while it has channels; a close leaves nothing behind |
| Webhooks (`packages/webhooks`) | `WebhookDelivery`, `WebhookSubscription`, queue jobs | fan-out, attempt, redeliver, prune; receive, process | outbox, BullMQ, HTTP | no pending delivery without a job, every one ends delivered or dead, what is settled stands |
| Audit log and streaming (`audit/`) | a chain of entries per tenant, a cursor per sink | write, verify, stage a batch, deliver | the writers' transactions, outbox | the chain verifies; every entry is staged exactly once per sink, in order |
| Job flows (`job-flows/`) | `JobFlow` rows and BullMQ trees | start, retry, cancel, prune | BullMQ workers | no flow runs without its row, a cancelled flow does not go on |
| Quotas, rate limits (`quotas/`, `rate-limit/`) | usage rows, overrides; Redis counters | check, consume, setOverride; hit | requests | usage never passes the limit in force |
| Output cache, maintenance, feature flags | cached copies of a stored value | read through, store, invalidate | outbox, requests | no copy outlives the change that invalidated it |
| Billing mirror (`packages/billing`) | `BillingSubscription` | mirror an event | inbound provider events | the mirror is the provider's latest state |
| Events and jobs (`events/`, `jobs/`) | listeners; queued dispatches | dispatch, enqueue, process | outbox bridge | each listener once per dispatch that succeeds |

The rest (tenancy, policies, auth, privacy, storage, search, mail, import and
export, transports, observability, admin UI, CLI, docs) is listed in
`PROJECT.json` with the reason it is left out: per-request functions of stored
rules, drivers that are I/O, or parts still to be surveyed.

**What is hard here.** No process knows when its lock expired (`LockHandle`
offers no way to ask), so everything under the lock is written twice: once for
the lock that outlasts the work, once for the lock that does not. Every `await`
lets other requests in between a read and the write that relies on it. Crashes
fall between an effect and its record. Results of old calls arrive in a circuit
that has changed state. `PROJECT.json` lists these hazards at their lines.

## 2. Modules

| Module | Models | Lines |
|---|---|---|
| `Lease` | what the lock promises its callers; `Lossy` says whether the key may be freed under a believer | abstract |
| `Lock` | `LockService` and `LockHandle`: tokens, TTL, heartbeat, stalls, lost renewals, crashes | `lock.service.ts` |
| `Delivery` | what the outbox promises about one message | abstract |
| `Outbox`, `MC_Outbox` | relay, receipts, backoff, requeue, prune; over `Lease` | `outbox.relay.ts`, `outbox.service.ts` |
| `HostGate`, `MC_HostGate` | circuit breaker and bulkhead of one host | `http-resilience.ts` |
| `OncePerKey` | what an Idempotency-Key promises its clients | abstract |
| `Idempotency`, `MC_Idempotency` | the interceptor, its row, its lock; over `Lease` | `idempotency.interceptor.ts`, `idempotency-key.store.ts` |
| `ChangeFeed`, `MC_ChangeFeed` | sessions of one tenant, their listeners and presence | `change-feed.hub.ts`, `redis-change-feed.backend.ts` |
| `OutboundWebhooks`, `MC_OutboundWebhooks` | fan-out, delivery rows, their jobs, the workers, redelivery, prune | `outbound-webhook.fanout.ts`, `outbound-webhook.processor.ts`, `webhook-delivery.*.ts` |
| `AuditFeed` | what the trail promises the sinks that stream it | abstract |
| `AuditTrail`, `MC_AuditTrail` | writers of a chain, its verification, sinks, streamers, the batch handler | `audit-log.ts`, `audit.service.ts`, `audit-sink.*.ts`, `audit-stream.service.ts` |
| `LockProofs`, `OutboxProofs`, `OutboxExclusion`, `HostGateProofs`, `IdempotencyProofs`, `ChangeFeedProofs`, `OutboundWebhooksProofs`, `AuditTrailProofs` | theorems | |

### How they compose

`Lease` is the interface between the lock and its users.

    Lock  --implements-->  Lease  <--uses--  Outbox  --implements-->  Delivery
                                  <--uses--  Idempotency  --implements-->  OncePerKey

`Lock` implements `Lease` with `Lossy = TRUE` at any timing and with
`Lossy = FALSE` when `Timely` holds (proved). `Outbox` and `Idempotency` carry
the owner of the key as a variable, and `UsesLease` shows that they touch it
only as `Lease` allows. A property that holds with `Lossy = FALSE` therefore
holds of the real lock under `Timely`; one that holds with `Lossy = TRUE` holds
whatever the timing.

`OncePerKey` has no row, lock or loop: requests that run, a response that is
kept and given again, and lapses, which are the crashes and failed writes below.
What is kept there is the response of a live completed row here.

`OutboundWebhooks` and `AuditTrail` contain outbox handlers. From the outbox
they take what `Delivery` promises of one message: its handler may be called
again, also after its effect, until it returns or the message is dead, and a
message that was settled is not handed over again unless an operator requeues
it. A message is dead after `OUTBOX_MAX_ATTEMPTS` failures (8, about four minutes
of backoff). `AuditTrail` has that (`HandleFails`, `Dead`, `Requeue`);
`OutboundWebhooks` leaves it out, and is exact below that many failures of its
fan-out (`Rehand`).

    AuditTrail  --implements-->  AuditFeed

### State and actions

**Lock.** `key` is the value of `lock:<name>`, `ttl` its time left in ticks. A
process goes idle -> granted (SET NX done, reply under way) -> holding (handle
and interval exist) -> releasing (interval cleared, script under way) -> idle.
`Renew` and `ReleaseKey` are the two Lua scripts; `MissRenewal` is the rejected
eval that `.catch` swallows. `Tick` advances Redis's and the processes' clocks;
a live holder is given at most `MaxDelay` ticks of lateness per timer or reply,
and at most `MaxMissed` lost renewals in a row.

**Outbox.** One relay per instance; its program counter names the await it is
at: `fetch` (before reading a batch), `next` (before a message and its
receipts), `deliver` (between handlers), `receipt` (a handler returned, its
receipt is not written). `batch`, `cur` and `todo` are the rows and receipts as
read. `queue` abstracts `nextAttemptAt` and `createdAt` to the order the query
sorts by. Handlers finish, fail or kill the process (`Outcomes`). `prune` has
its three statements as three steps of one READ COMMITTED transaction. `ran`
and `rounds` are history variables. `Delivery` calls the messages an operator
may requeue `Revivable`; only those can be caught by prune's race (section 5).

**HostGate.** JavaScript runs to completion, so everything `run()` does before
its await is one step (`Admit`, or a refusal) and everything after it another
(`Finish`). `age` is `clock() - openedAt`. `settings` may be changed by
`configure`. `probing` and `unrecorded` are history variables. `configure` also
takes the snapshot its route returns, which is when a cooled circuit turns
half-open.

**Idempotency.** A request is at `asking` (before `acquire`), `peek` (lock
refused), or inside: `locked`, `discard`, `create`, `handle`, `complete`,
`undo`; then `release`, `done`. Any query or Redis command may reject, the
loop's own at `asking` and `peek` too, and any process may die at any of them. `record` is the row of one tenant and key; another body under the
same key is a request with another `PrintOf`.

**ChangeFeed.** The overlapping calls of a session are split at their awaits:
`call` holds those that await a presence command, `attaching` the one that
awaits SUBSCRIBE. A command takes effect in the step that sends it, since each
Redis connection keeps their order; the await is for the reply. `Got` and `Left`
go on with the next channel of the call or with its end (`LeaveOrEnd`), where
`release()` lets go of the handle. `Refresh` is the 30-second timer, `Expire`
the 90 seconds after the last refresh. `overtaken` (a close
came while a join awaited its HSET), `failed` (which calls of a session were
rejected) and `lost` (its rejected SUBSCRIBEs) are history variables: the
properties say with them what exactly a rejection leaves behind. Messages, and
what becomes of a rejected UNSUBSCRIBE, are left out.

**OutboundWebhooks.** A delivery is a pair of a subscription and a message, its
row is `status` and `round`, its job ids are the pairs of it and a round, as in
`jobId`. The row and the job are in two stores that no transaction spans, so
every action touches one of them. The fan-out reads the subscriptions
(`FanRead`), then upserts a row (`FanUpsert`) and adds its job (`FanEnqueue`)
for each; it may be cut short and handed the message again (`FanFails`,
`Rehand`). A worker picks a job, reads the row, sends, writes what came of it
and lets BullMQ finish the job; these are its `pc`, and `tried` is
`job.attemptsMade` as it was given. BullMQ is external and modelled from how
the code relies on it: an id the queue holds is not added again (`Add`), a
finished job is trimmed and its id free (`Trim`), a worker may lose its lock
and run on (`LoseLock`), a job without a live worker is put back or failed
(`Stalled`, `maxStalledCount`). `redeliver` is its conditional update, its
read and its enqueueing. The row's attempts and last response are only
reported. A subscription is created, disabled, enabled and removed at any time;
changing the events it asks for is left out. `Prune` waits for the outbox to settle the
message, since its retention is weeks and the outbox's retries end in minutes;
that the outbox gives a message up as dead is left out. `spent`, `off`, `crossed` and
`stranded` are history variables, and `crossed` is set when a run picks up a
delivery another worker is still in, or reads a row that is on another round.

**AuditTrail.** An entry is its sequence, and `previous` its `previousHash`,
since the hash of an unaltered entry stands for it. A sequence is given out
before the commit and never again, so rollbacks (and other tenants) leave gaps.
A writer is between `Lock` and `Commit` or `Rollback`, with `tail` read and
`own` entries invisible to others. `walk` is `verify` a page at a time, while
writers go on. A sink is `creating` between the read of the tail and the insert
of its row. Several streamers run `stageNextBatch`: the scheduled task and an
administrator's flush. The conditional update and the staged message are one
step, since the update keeps the row until the commit. `handling` is the
outbox handler with the entries it read, one at a time; the sink's row and its
range are read in one step, which nothing tells apart. A call that fails, for
the sink or for the receipt, counts in `attempts`, and a relay that dies
(`RelayDies`) counts nothing; at `MaxAttempts` the message is dead until an
operator requeues it. That prune deletes dead messages in the end, after which
nobody can requeue them, is left to `Outbox`. `start`, `before` and `received` are
history variables; `lastDeliveredSequence` is only displayed.

## 3. Runs

| Run | Question | Result |
|---|---|---|
| `lock` | 2 processes, TTL 12, interval 4, 1 tick late, 1 lost renewal, 2 acquires each: exclusion, and the Lease that never expires under its holder | holds, 49 k states |
| `lock_late` | the same with TTL 6 and interval 2, not `Timely`: orphans die, and the Lease that may expire | holds, 17 k states |
| `outbox_exclusive` | 2 relays, lock outlasts the drain, faults, requeue, prune | holds, 161 k states |
| `outbox_lossy` | 2 relays, lock may expire under a drain, handlers may kill | holds, 244 k states |
| `outbox_prune_claim` | are pending messages never pruned? | no |
| `hostgate` | 3 calls, 2 settings, all operators, all outcomes | holds, 5.7 k states |
| `hostgate_stuck_claim` | is a half-open circuit always decided? | no |
| `idempotency` | request, retry and misuse of one key, one fault; also as an `OncePerKey` | holds, 131 k states |
| `change_feed` | 2 connections, 2 awaiting calls, a channel, one rejected command | holds, 1.04 M states |
| `change_feed_ghost_claim` | does a disconnect leave every channel joined? | no |
| `webhooks` | 1 delivery, 2 workers, 2 attempts, 1 redelivery, 1 fault anywhere | holds, 257 k states |
| `audit_trail` | 2 writers, 2 streamers, 1 sink, 3 sequences, 1 attempt, 1 fault | holds, 259 k states |

**Bounds.** Two processes or relays are what an exclusion needs; the proofs
cover any number. A TTL of three intervals is the code's ratio, and with one
tick of lateness and one lost renewal `Timely` still holds (1 + 2 * 5 < 12), so
the margin is used up to one tick. Two messages with two handlers, batches of
one or two rows and two attempts let a batch hold a stale row, a message be
retried, die and be requeued; faults are bounded because each crash or error
restarts the same code. Three calls against a threshold of two and a bulkhead
of two let a late result of one episode meet the probes of the next. Three
requests give a holder, a waiter that replays, and a different body. Two
connections take turns at being the first and the last listener, and two calls
overlap in every pair of kinds, on one channel, where they collide; several
channels are left to the proofs, which cover any number. One delivery is what
all of the webhook's conflicts are about: rows and jobs of different deliveries
share nothing but the workers, and two workers let an old run, a stalled one
and one of the next round meet; one fault already gives a lost lock, a crash
and a failing store at every step. The safety properties were also checked with
two faults (2.69 M states) and with two subscriptions and one worker (295 k).
Three sequences are the fewest with which one may be committed between the ends
of a range already staged, which is what the advisory lock prevents
(`BatchIsWhole` fails without it), and they let one be rolled back under a new
sink's tail, or come between two pages and two batches of two entries. With
three, `MC_AuditTrail` takes only the orders that show something: the first
sequence is settled before a sink is created, which leaves a new trail, or one
with an entry, and two sequences to come; the chain is verified before there is
a sink, as verifier and sinks share the trail alone; writers and streamers are
alike, so the first free one enters. One attempt and one fault let a range be
refused or accepted and die, be requeued and sent again, or a relay die over it;
a second attempt only repeats the first. One sink suffices, as sinks share nothing but
the trail; `AuditTrailProofs` covers any number. Connections, channels
and calls may be permuted there, as its properties are invariants. The
counters with a bound are named in the CONSTANTS of each module.
`CHECK_DEADLOCK FALSE` is given where a behaviour really ends: no more
acquires, no more requests.

**Fairness.** Timers, clocks and queries proceed: the event loop of a live
process runs its callbacks, Redis's TTL counts down, a driver answers or times
out (10 s, two retries, in the http client). Relays are started by a timer and
retried, so the outbox assumes each relay's own steps, but not those of the
handlers it awaits (`Handling`): no timeout bounds them and the heartbeat keeps
the lock meanwhile, so a handler that hangs stops every relay, and
`EventuallySettled` says what holds unless one hangs for ever. Nothing is assumed
of idempotent handlers either (they may hang), nor of operators, crashes or
restarts; and `HalfOpenDecided` assumes that the host keeps being called, which is what makes
a circuit matter. For webhooks: the outbox hands a message over until
its fan-out returns, which holds while it has attempts left and no handler hangs,
a worker's and a request's own steps go on while their process lives, the stalled check recurs,
and BullMQ serves waiting jobs in turn, which is strong fairness of `Pick`: a
job may be taken by workers that die. Nothing is assumed of operators, faults,
trims or prunes. For the audit trail: the task comes back to every active sink
(strong, as a sink may be switched off and on), a streamer runs on, the relay goes
on with what is due (so no handler hangs for ever), and a call of the audit
handler ends within its 10-second timeout (a storage driver is taken to settle
too), in a failure as often as `MaxFaults` allows. Each failure may be the
message's last: `EveryEntryStreamed` excepts the batches that are dead, and
nothing makes an operator requeue them.

## 4. What is proved

All theorems hold for every value of the constants.

* **`LockProofs`.** The unconditional invariant: a key exists as long as it has
  time left, and a crashed owner's clock plus its key's TTL never exceed one TTL
  (`OrphanDies`). Under `Timely`, `HoldInv` is inductive: a holder owns the key,
  is not later than its patience, and `TTL <= ttl + Lag`, where `Lag` charges
  every delay and lost renewal since the last good one to the TTL. Exclusion
  alone is not inductive: it says nothing of how much time a key has left.
  `Reserve` turns the sum into `ttl > 1` before any tick, from which
  `MutualExclusion` and `ImplementsSafe` follow. `ReleaseSafe`, `ExtensionSafe`
  (which no run repeats) and `ImplementsLossy` need no timing. `LeaseExcludes`
  shows of the safe `Lease` by itself that it excludes, so that its users rest
  on the interface and not on this implementation of it.
* **`OutboxProofs`.** The inductive invariant ties what a relay has read to
  what it may conclude from it, without any exclusion: a handler that left
  `todo` without failing has run (`ran`), receipts are only of handlers that
  ran, a row in a batch is a row that was staged. From it: delivered implies
  handled, settled is final but for a requeue, and the step simulation of
  `Delivery` and of `Lease`. `PromiseKept` shows what `Delivery` itself is worth:
  delivered means handled, and a pending message nobody may revive is not
  forgotten. `PruneSpares` carries the second down to the rows: the race of
  section 5 takes no pending message but one an operator requeued.
* **`OutboxExclusion`** (assumes `~Lossy`). A draining relay owns the lock, so
  the rows it holds are the table's rows: `Fresh` rows in the batch and in
  hand, no message twice in a batch or in the queue. What is held is still due
  (`HeldInv`), and without a fault what ran has its receipt or a relay about to
  write it (`OnceInv`). Hence one relay drains at a time (`OneDrains`), it
  delivers nothing that backs off (`BackoffKept`), retries run only what is
  unfinished (`RetriesRunUnfinished`, whose no-fault half is exactly once), and
  attempts are exact.
* **`HostGateProofs`.** The bulkhead counter equals the calls in flight, and a
  half-open circuit has claimed a probe for each call in its episode; hence
  the probe budget, and admissions (`Admissions`, which no run repeats). `ClosedHealthy` assumes that `configure` leaves
  `failureThreshold` alone (`OneThreshold`): lowering it under a running count
  leaves a closed circuit above its new threshold until the next result.
  `HalfOpenNeverStuck` is the safety half of `HalfOpenDecided`: while every
  result is recorded, the probes claimed are exactly calls still out (`OutInv`),
  so a half-open circuit admits a call or waits for one.
* **`IdempotencyProofs`.** At any timing: `LeaseUse`; and `AnswerInv`, from
  which a response that is given was given to its own request first
  (`ReplaysAreReal`) and nobody is answered twice (`AnsweredOnce`). With
  `~Lossy`, `LockInv`: only the owner is inside (`NeverTwoInside`); the row of a
  request that runs its handler is pending and its own; a stored response
  belongs to a request with the row's print that was answered with it; and each
  effect beyond the first is paid for by a fault (`EffectInv`), which says which
  effect is not paid for: that of the response stored, or about to be. From it
  `EffectsPaid`, `AnswersFaithful`, `NothingStays`, `StoredIsFinal` and, with
  `RanInv` (a request that had its effect is about to be answered with it or has
  left, or its completion failed), `Implementation`: the interceptor is an `OncePerKey`.
  `PromiseKept` proves of `OncePerKey` alone that runs are paid for, replays are
  faithful, and a refused request had no effect unless something lapsed.
* **`ChangeFeedProofs`.** For any overlap of calls and any rejections. A handle
  or an attachment under way has a listener behind it (`HandleInv`), a closed
  session has let go or its `close()` is still awaiting or failed (`ClosedInv`),
  an entry of the presence hash has a member, or a call that answers for it
  (`EntryInv`), and a close that overtook no join takes the memberships with it
  (`GoneInv`); neither `ListenersExact` (a session listens once, and once more
  per SUBSCRIBE of it that was rejected; the topic is subscribed while anybody
  does and none was) nor `CloseLetsGo` is inductive without them. `ListingsOwned`
  covers live sessions: between its calls, if none of them failed, a session is
  listed only where it is a member.
* **`OutboundWebhooksProofs`.** `PendingIsCarried` says who will bring a pending
  row on; to keep it, one has to know of each party what it may do next. The
  invariant says so: BullMQ's state of a job agrees with its worker
  (`QueueInv`), a job id exists only for rounds the row has reached (`RoundInv`), two runs of one delivery are crossed, and one that is
  not meets a row that is pending or gone (`RunInv`), a worker that completes or fails a job left the row
  settled, on a later round, or stranded (`EndInv`, `FinishedInv`), and the
  tries counted for a round cover what its job's `attemptsMade` says unless two
  runs crossed (`TallyInv`). `CarriedInv` holds whatever fails, and
  `FaultlessInv` says that without a fault nothing is ever stranded, for which a
  pending row needs a job or a party past deciding to add one, not merely a
  message to be handed over again. From it `NothingIsLost`, `BudgetIsSpent`,
  `SettledStays` and `SettledNotSent` (a run that sends works on a row that is
  open or deleted, unless it was crossed), for any subscriptions, workers, rounds, attempts
  and faults.
* **`AuditTrailProofs`.** What carries everything is `OrderInv`: one writer has
  the lock, and its entries are beyond all committed ones, so the trail only
  grows at its end (`LogGrows`). Hence a page read earlier is still what follows
  its cursor (`ReadInv`), a staged range keeps its entries (`HandledInv`), and a
  cursor is never passed from behind (`CursorInv`). With `StagedInv` (a sink's
  ranges lie apart, up to its cursor) and `CoverInv` (they leave nothing out)
  follow `StagedOnce`, `BatchesWhole` and, by mapping what a sink has seen to
  what its cursor has passed, `Implementation`. `ChainVerifies` rests on
  `ChainInv`, which holds of open transactions too. Proved only: the chain has no
  fork (`ChainHasNoFork`), trail and cursors only move forward (`TrailAppends`),
  and no sink receives what was there before it (`ReceivedIsNew`). `FeedInOrder`
  proves of `AuditFeed` that a sink was always handed a beginning of the trail,
  and `HandedInOrder` brings that down to the sinks through `Implementation`.

**Assumptions.** The named ASSUMEs of each module (types of the constants,
finite sets of calls and requests, None outside them or outside the records), and in the theorems that
say so `Timely`, `~Lossy` or `OneThreshold`.

**Model-checked only.** Liveness (`EventuallySettled` of the outbox and of the
webhooks, `HalfOpenDecided`, `EveryoneAnswered`, `EverySubscriberTold`,
`EveryEntryStreamed`): fairness and ENABLED are outside the prover's reach. Every
invariant and action property of a passing run, and every refinement, is proved.
`EffectsBounded` and `NoRunAfterAnswer` are proved and in no run, as
`ImplementsOncePerKey` includes them. No module has a recursive definition.

## 5. Where the code and its documents disagree

* **A pending message can be pruned** (`outbox_prune_claim`).
  `OutboxService.prune` deletes by id what it selected by status, and a requeue
  fits in between; `guides/outbox.md:97` says never. Repeating the status in the
  delete closes the window.
* **A half-open circuit can refuse for ever** (`hostgate_stuck_claim`). A probe
  that rejects with an error neither branch of the catch knows keeps its slot;
  `guides/http-client.md:101`. Giving the probe back in the finally decides it.
* **A session that closes while it joins stays present**
  (`change_feed_ghost_claim`). `joinPresence` records the member and starts its
  timer after an await, without looking at `isClosed`;
  `guides/change-feed.md:100`. Looking again after the await, as `connect()`
  does, closes the window.

Read from the code and not stated as runs:

* An orphaned lock lives three heartbeat intervals, the TTL given to SET and
  PEXPIRE (`lock.service.ts:120`), not one, as `guides/lock.md:66` says.
* A holder is not told that its renewals failed (`lock.service.ts:54-64`).
* A handler that kills the process is redelivered for ever: attempts are counted
  only by a relay that survives (`outbox.relay.ts:166-197`).
* A handler that hangs stops the outbox of every instance: `handle()` is awaited
  without a timeout (`outbox.relay.ts:150-158`) and the heartbeat renews the lock
  as long as its process lives.
* An audit range whose message died is not staged again: the sink's cursor was
  moved past it when it was staged (`audit-stream.service.ts:83-90`), so an active
  sink whose endpoint is down for some four minutes misses the range until an
  operator requeues it. `guides/security.md:84` says dead-lettered;
  `EveryEntryStreamed` excepts it.
* Failures of calls admitted before a circuit opened trip it anew when they come
  (`http-resilience.ts:220-235`).
* The unique constraint does not back an expired idempotency lock up: its
  violation is swallowed and the handler runs (`idempotency-key.store.ts:56`,
  against `guides/idempotency.md:34`).
* A SUBSCRIBE that rejects leaves its listener behind, so that later sessions of
  the tenant are not first and never subscribe the topic
  (`redis-change-feed.backend.ts:67-74`). `ListenersExact` says so exactly:
  one listener too many for each such rejection (`lost`), and no topic after it.
* A redelivery is promised a fresh attempt budget (`guides/webhooks.md:101`,
  `webhook-delivery.service.ts:56`). A worker that dies between marking a row
  dead and BullMQ's move of its job leaves a job of the old round; run again
  after the redelivery, it works on the new round's row with its own last
  attempt. `DeadIsSpent` excepts such crossed deliveries.
* A fan-out that is handed a message again queues what is still pending, says
  `outbound-webhook.fanout.ts:25-29`; it reads the active subscriptions anew, so
  a pending row whose subscription was disabled meanwhile is left without a job.
* A delivery whose job stalls once more than BullMQ allows, or whose last
  attempt ends in a database error, stays pending: only `process` marks it dead,
  and it is not run again. `stranded` names these cases.

## 6. Plan

Done, in this order: `Lease`, `Lock`, `Outbox` over `Delivery`, their proofs;
`HostGate`, `Idempotency` over `OncePerKey`, `ChangeFeed` and theirs;
`OutboundWebhooks`; `AuditTrail` over `AuditFeed`; and theirs. Proofs left: what
`Outbox` and `Idempotency` promise when the lock is lost, beyond `Delivery` and
`AnswerInv`. Components left:

1. `JobFlow`: start, retry, cancel and prune against running workers. Properties:
   no flow runs without its row, a cancelled flow does not go on.
2. `InboundWebhooks` and the billing mirror behind it: a provider's event
   received, queued and processed at least once, in any order.
3. One module for the cached copies (`OutputCache`, `Maintenance`), which share
   one race, and `Quotas`.
4. The event bridge: one outbox handler over many listeners, whose retry runs
   them all again.

Not modelled and not planned: redaction, filters and export of the audit log
(data), the drivers (I/O), request plumbing, and user interfaces.
