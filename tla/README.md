# VyomQuant / Algo22: verification of the backend's protocols

The repository is a monorepo: a FastAPI backend (`backend_app/`), a React
terminal (`algo22-terminal/`), infrastructure and a large test suite. The
backend runs as several gunicorn workers plus ECS worker tasks which share
nothing but **Postgres/Supabase** and **Redis**. What must happen once, in
order, or not at all is decided by a handful of protocols over rows with
conditional updates and keys with a TTL. This project models those protocols,
checks them with TLC and proves what matters most with TLAPS. Paths are relative
to `src/backend_app/` unless they begin with `src/`.

## 1. Inventory

| Component | State it keeps | Operations | What is hard about it |
|---|---|---|---|
| distributed idempotency (`core/distributed_idempotency.py`) | one Redis key per order: nothing, a lock with an owner token and a 60 s TTL, or a JSON result with a TTL | `execute_with_idempotency` and its helpers | pods racing, lock expiry, a crash between the operation and the store, a release in two calls |
| webhook idempotency (`core/webhook_idempotency.py`, `routers/billing.py`) | a Redis key and a row of `webhook_events` per provider event | acquire, mark completed, release | redelivery, stale claims, two layers with two clocks |
| leader lease (`core/leader_lease.py`) | one Redis key per background loop | `try_acquire_or_renew`, once per cycle | GET and SET are two calls; the lease can end while a cycle runs |
| exchange fill worker (`workers/exchange_fill_worker.py`) | the lease, and a listener task per (tenant, venue) | elect, start and stop streams, drain | streams stay open while nobody checks the lease |
| bot ownership (`core/bot_ownership.py`) | one claim row per (user, symbol), with a heartbeat time | claim, refresh, release, takeover | stale claims, lost answers, an unreachable store |
| fleet manager (`backend/fleet_manager.py`, `backend/master_executor.py`) | a registry of bots per process, a task and a heartbeat per bot | start, boot, beat, surrender, clean up, stop | callbacks that run after the next bot was started |
| deployment state (`backend/deployment_state.py`, `deployment_runtime.py`, `strategy_service.py`) | the status of a `strategy_deployments` row | deploy, stop, report, finalise, resume | the user's stop, the runtime's reports and a restart write one column from different processes |
| marketplace settlement (`backend/marketplace/settlement_service.py`, migrations 008, 012, 014, 050) | a subscription row, an append-only ledger, a trigger | settle a payment or a refund, resume a half-done settlement | redelivery, retries with a row read before, concurrent renewals |
| checkout, renewal, cancellation, expiry (`checkout_service.py`, `routers/library.py`, `expiry_sweep.py`) | the same row | checkout, renew, cancel, sweep | writes between the settlement's read and its write |
| command stream worker (`workers/command_worker.py`) | a Redis stream with a consumer group and attempt counters | read, dispatch, acknowledge, reclaim, dead-letter | redelivery of a command that has run |
| kill switch and tenant halt (`core/global_safety.py`, `core/tenant_halt.py`, the checks in `backend/execution_engine.py`) | a key, a set of holds and a transition lock in Redis; a latch, a probe time, the last answer and a mirror in each process | activate, deactivate, set and clear a halt, check an order | answers acted on late, outages, a lock without an owner, copies that disagree |
| order watchdog (`backend/order_watchdog.py`) | orders under supervision | stale check, fill reconciliation | two loops, one under a lease |
| usage ledger, quotas (`core/usage_ledger.py`, `core/subscription_engine.py`) | per account, resource and month a meter in Redis and rows of `plan_usage_ledger` | reserve, rebuild the meter | two stores, one of them volatile; a rebuild is three calls; the cache proxies swallow errors |
| signal lifecycle (`backend/signal_service.py`, `order_lifecycle_state.py`) | signal rows | generate, submit, recover | unknown outcome at the exchange |
| order state machine (`core/order_state_machine.py`) | state and history per order, bounded | transition, force, evict | forced writes, forgotten orders |
| paper trading (`backend/paper_trading_service.py`, `backend/paper/paper_repository.py`) | per user an account row with a version, its ledger, orders, fills, a position | place, fill, cancel, sweep the limit orders, reset | no transaction spans two statements; calls compute from a balance another process has moved |
| paper sessions (`backend/paper/paper_session_service.py`) | session rows, their own orders and simulator | start, step, stop | the simulator's tick against the user's stop |
| DAG task queue (`core/dag_task_queue.py`, `backend/dag_worker.py`) | task rows and queues | submit, claim, complete, recover | off unless `DAG_TRADING_ENABLED` |

What each must guarantee, in a sentence:

- *idempotency*: one pod at a time runs an order's operation; while a result is
  on record the operation does not run again and every caller is told that result;
- *webhooks*: one delivery at a time handles an event, a completion is final,
  and an event is handled in the end;
- *lease and fill worker*: at most one leader, and never two processes with the
  streams of one venue; after a leader's death the streams come back;
- *bots*: a bot that trades owns its claim, is registered and is watched; a stop
  reaches it wherever it runs; no claim is left stranded; rows tell the truth;
- *settlement*: a payment buys one period, once; `refunded` is final; a recorded
  payment and the subscription's move are one event;
- *trading gate*: an order goes on to the exchange only past a switch that was
  off and a tenant that was free; a halt stands until somebody who was shown it
  resets it; an outage does not block a process for ever;
- *paper trading*: balances are never negative, the ledger explains every
  version of the account, an order's funds are locked once and paid once;
- *usage meter*: no more is admitted than the plan allows, flushes or not, and
  nobody is refused before the month is used up.

The hazards, each at its line with the properties that cover it, are in
`PROJECT.json`.

## 2. Modules

| Module | Models | Extends |
|---|---|---|
| `AtMostOneOutcome` | the promise: while an order has an outcome on record, it is the only one, and all that callers are told | |
| `DistributedIdempotency` | the Redis cell of one order and the calls made for it; implements `AtMostOneOutcome` | |
| `SerialAttempts` | the promise: attempts at an event one after the other, none after it is closed | |
| `WebhookIdempotency` | one payment event, its Redis key, its row and its deliveries; implements `SerialAttempts` | |
| `LeaderLease` | the lease and the poll loop around it | |
| `FillStreamWorker` | the streams the leader keeps | `LeaderLease` |
| `BotLease` | the promise: one incarnation in touch with the claim store, each started once | |
| `FleetManager` | the claim, the registries, the bots' tasks and heartbeats, for one bot key; implements `BotLease` | |
| `DeploymentState` | the deployment rows, deploy, stop, crash and resume | `FleetManager` |
| `SubscriptionLedger` | the subscription row, its ledger, the trigger, the atomic function | |
| `Settlement` | `settle()` per delivery, beside everything else that writes the row | `SubscriptionLedger` |
| `TradingProcesses` | the backend processes, their Redis connection, the orders at the gate | |
| `GlobalKillSwitch` | the switch: its keys, its latches, `activate` and `deactivate` call by call | `TradingProcesses` |
| `TenantHalt` | the halt of one tenant: its key and its mirrors | `TradingProcesses` |
| `TradingGate` | the two checks of `execute_with_idempotency` beside both | `GlobalKillSwitch`, `TenantHalt` |
| `AtomicAccount` | the promise: every movement of money is one step that pays for itself, and runs no further than its order | |
| `PaperRepository` | the tables of one user's default account and the guarded statements on them | |
| `PaperTrading` | the calls of `PaperTradingService`, one step per statement; implements `AtomicAccount` | `PaperRepository` |
| `UsageMeter` | one account's month of a metered resource: its meter, its ledger, the calls of `reserve` | |
| `MC...` | model values and symmetry for TLC | each of the above |
| `..._proof` | theorems | each of the above |

How state and actions correspond to the code:

**DistributedIdempotency.** `cell` is the value under the key; `pc[r]` is the
line a call of `execute_with_idempotency` has reached. Each Redis call is a step
of its own with its failure beside it, and may have been executed although it
failed. What the layer sees of a failure is decided by the shared manager
(`core/cache/redis_manager.py:754-782`): its Lua script raises, so the first call
of the layer fails closed in production; `get` answers None, `set` False and
`delete` 0, in production too. A recheck that fails therefore reads as a new
request, a SET NX that fails as a lock held by another, and a result whose SET
fails is handed out unrecorded while its lock is left to expire. `ResultRefused`
is the one way in which `store_result` itself raises: a result that JSON refuses.
`Crash` leaves the lock where it is. `effects` and `recorded` are ghosts:
operations that took effect and operations whose result is on record.

**WebhookIdempotency.** `key` is the Redis layer (whose client swallows its own
errors), `row` the durable one. A delivery reads, claims, reclaims a stale claim
by compare-and-set, handles, marks and releases. Handling is one effect. `Crash`
is the death of the process.

**LeaderLease, FillStreamWorker.** A tick is one poll interval. A cycle is GET,
then SET NX or SET XX, then the work. A SET may be executed and its answer lost.
`stream[i][p]` is the listener task of a pair: a task that is over still counts
as running for the worker, as in the code.

**FleetManager, DeploymentState.** One logical bot (a user and a symbol). A
member of `Runners` is one incarnation (object, task, heartbeat, claim token)
and is used once. The unit of time is the heartbeat interval; a heartbeat round
(refresh, then the stop check) is one step, unless it hangs: `psycopg2.connect`
has no timeout, nor has the statement, so a call may hang for an interval, before
or after its UPDATE is executed, and for as many more as it likes (`BeatHangs`).
`since` is `unreachable_since`, the rounds since the first call that failed, which
the heartbeat looks at only when another has failed; `cut`, a ghost, counts the
rounds lost to failed or hung calls since the claim was last refreshed. A failed
call, and each interval that a call hangs for, is a fault, drawn from `MaxFaults`;
the statement of a failed call may have been executed. Rows are written from the
status a call has read, with exactly the conditions the code's statements carry.

**SubscriptionLedger, Settlement.** One subscription. `sub` is its row, `paid`
and `reversed` its ledger, `order` the provider's side of each payment. A member
of `Worker` is one webhook request inside `settle()`; `view` is the row it has
read (`state.subscription`), which its retries keep. `RecordAndTransition` is the
database function of migration 050: it inserts the ledger row and, where the
view permits the transition, updates the row that still has the view's status,
under the trigger. A NULL expiry is 0. A price is a member of `Price`; an
amount that differs from the stored one is answered without a write.

**TradingProcesses, GlobalKillSwitch, TenantHalt, TradingGate.** A Redis call is
a step together with the code up to the next `await`: it is executed, or it
fails, which is a fault drawn from `MaxFaults`. The answer of a GET travels in a
step of its own (`ReadsSwitch`, then `IsActiveDecides`), so that the switch may
change under it. `latch`, `waits` and `last` are `_local_fallback_active`, the
age of `_redis_failure_at` and `_last_state`; an order that meets a latch queues
for the probe lock. `lock` is the transition lock, which whoever comes releases.
`linked` says whether a process's Redis manager has connected: until then the
tenant halt sees `NO_SHARED_STORE`. `off` and `free` of an order and `standing` are ghosts. Orders and calls are used again when they are over.

**PaperRepository, PaperTrading.** `book` is the account row in every version it
has had, so the current row is its last element and its version the length: the
update guarded by `version` appends, or matches nothing. `request[p].at` names
the statement a call is about to execute. `Aborts` ends a call between any two
statements, for a failed statement, a conflict that is not retried, or a dead
process; `lost` remembers the versions whose ledger row was never written for
it. A fill's cost is drawn from `Costs` and need not be what was reserved.

**UsageMeter.** A call of `reserve` is GET, ledger sum, SET, INCRBY, then either
the ledger row or DECRBY, each a step with its failure. A failed GET is a
missing key, a failed sum an empty ledger, a failed SET or DECRBY nothing, a
failed INCRBY a refusal (whether it was executed or not), a failed append an
admission without a row: so the cache proxies and `_append_ledger` behave.
`LosesMeter` is a flush or an eviction, at any time. `clean` is a ghost.

## 3. Runs

| Run | Instance | What it shows |
|---|---|---|
| `idempotency` | 3 calls, 2 waiting rounds, prompt owners, results that expire | one executor, which holds the lock; a result on record is all that callers are told; implements `AtMostOneOutcome`; every call ends; a dead owner's lock is freed |
| `idempotency_lost_result` | the same, results that last | **violated**: a result whose SET fails is handed out, and a retry executes the order again and gets another answer |
| `webhook_safety` | 2 concurrent deliveries, sent for ever | one handler; one success unless a mark was lost; implements `SerialAttempts`; the event is handled |
| `fill_streams` | 3 processes, 2 pairs, a lease of 3 ticks | a leader holds the lease; one streamer; streams come back and retired ones are closed |
| `fleet` | 2 pods, 2 incarnations, a stop, a deployment, a threshold of 2 rounds, 3 faults | owner unless it has lost all but one round to failed or hung calls, registered, watched; implements `BotLease`; no stranded claim; a stop is honoured |
| `fleet_owner` | 1 pod, 3 incarnations, no fault | **violated**: a late callback takes down the next bot's claim; two bots trade |
| `settlement` | 2 payments, 2 requests, 2 prices, a month of 2 instants | no free period, refunded final, ledger and row move together |
| `settlement_refund` | 2 payments, 1 request | **violated**: a redelivered refund ends a period bought later |
| `gate_switch` | 1 process, 2 orders, 2 activations, a reset, 1 fault | no order passes but past an off switch; a halt nobody reviewed stands |
| `gate_outage` | 2 processes, an order, a halt set and cleared, 2 faults | an order passes only past a free tenant; the latch of an outage is lifted |
| `paper_account` | 2 processes, a limit and a market order, 4 calls | balances, ledger, one reservation and one payment per order, never more money than the capital, implements `AtomicAccount` |
| `usage_meter` | 3 requests, an allowance of 2, 2 faults, any number of flushes | within the limit while rebuilds are undisturbed; no refusal before the month is used up |

The violated runs check what a comment or a docstring of the code says; the
findings in `PROJECT.json` quote it.

**Bounds.** Two or three processes are enough for every race above: each
involves a writer, a second writer, and at most one more that observes the
result, and the proofs of section 5 remove the bound for the safety properties.
`MaxAttempts` (10 in the code) is 2, so that the loop is entered, repeated and
exhausted. Three calls are an owner, one that waits for it and a retry after it.
`idempotency` passes outside production too. `Stale` (6 intervals in the code) is
2, so that takeovers happen within the run. `MaxFaults` bounds failed calls,
crashes and the intervals that calls hang for; the three of `fleet` are enough for
a heartbeat to surrender, or to hang until its claim is taken over and on beside
the successor, or for a crash after an outage. The one deployment is made on one
pod (`Deployers`): the pods differ in name only. `LeaseTicks` is 3,
the ratio in the code. `Month = 2` and `MaxTime = 3` let a payment be confirmed
before, at and after the end of a period. `Settlement`'s instances really stop,
as do those of the other modules when their calls are used up, so deadlock is
not checked there. Symmetry is used only in runs without liveness.
In the gate two orders let one order's probe answer for the other, two
activations let one release the other's lock, and one fault is enough for each
failure path; a second process matters for the tenant's mirrors and the
connection, which `gate_outage` has. In `paper_account` a capital of 3, a
reservation of 2 and costs of 1 and 3 make every refusal for want of funds
happen, fills cheaper and dearer than what was locked, and a fill refused while
another order holds a lock; three attempts (`FILL_ATTEMPTS`) let one conflict
and then adopt a fill row; four calls let an order be placed, matched, cancelled
twice and reset in between by two processes. With five calls the run passes too
(2.5 million states, more than three minutes); the theorems have no such bound. In `usage_meter` three
requests are a rebuild, an increment it overwrites and a third; `MaxRows` is two
above the limit, so that what lies beyond it would show.

**Fairness.** An event loop runs every task it has: weak fairness on the steps
of a call, a task, a heartbeat, a cycle. Time passes: weak fairness on TTLs and
ticks. `WebhookIdempotency` and `FillStreamWorker` moreover assume that failures
are finitely many (`<>[][Calm]_vars`), without which a provider or a worker may
fail for ever; in `DeploymentState` that is `MaxFaults`. In `TradingGate` checks go on, the probe interval elapses and a
process connects in the end (weak fairness); that a process's bots keep sending
orders is strong fairness, since arrivals are refused without a step whenever
the probe is not due. No user action, crash, or failure of a bot is fair.

## 4. Assumptions behind the properties

- `PromptOwners`, `PromptHandlers`: a live owner finishes before its lock (60 s)
  or its claim is stale. The code has no renewal, so nothing else could hold.
  `ResultsLast`, no retry arrives after the result's TTL, is there for
  `idempotency_lost_result` only: the answers differ even so.
- `~Stalls`: a cycle ends within the poll interval. With stalls two leaders
  exist; the code comments on it as an accepted window.
- `Prompt`: a cancelled bot is over, its callback included, within `stop_bot`'s
  five seconds and before the process starts the next bot. `fleet_owner` is what
  happens without it. It includes that a cancellation ends a bot: one that arrives
  in the `finally` of `master_executor.py:1495-1497` while the DELETE fails is
  replaced by that failure, and the trading loop reconnects.
- `Punctual`, `LockAnswers` (`UnreviewedHaltStands` only): a transition of the
  kill switch ends within its lock's 15 s, and its SET NX is answered. The code
  goes on without the lock when it is taken (activations) and counts an
  exception as having it; what is written that way is not `standing`.
- `PassedWhileAllowed` and all of `PaperTrading` assume nothing.
- `AdmittedWithinLimit` claims nothing once `clean` is false: a ledger row was
  not written, a rebuild's call failed, the key was lost in the middle of a
  reservation, or two calls met a missing key. The code guards against none of
  these. `RefusedWhenFull` has no such condition.
- `Settlement` assumes nothing of requests: they may take any time, fail at any
  statement and be repeated for ever.

## 5. Proofs

TLAPS checks every leaf; each theorem is for all values of the constants.

- **`DistributedIdempotency_proof`**: types unconditionally; `OneExecutor`,
  `OwnersHoldTheLock`, `ToldWhatIsOnRecord`, `ResultsAreFinal` and the refinement
  of `AtMostOneOutcome` under `PromptOwners`, with Redis failing at any call, in
  production or not, and results that expire. Inductive invariant: the token of a
  call that works is in the cell, and what is on record is exactly what the cell
  holds. That all answers agree is not proved: it is false.
- **`WebhookIdempotency_proof`**: `OneHandler`, `OwnClaim`, `DurableCompletion`,
  `OneSuccess` under `PromptHandlers`. The argument is ownership of the durable
  claim where there is one, and of the Redis key (`HandlerOwnsKey`) where not.
  With the durable layer too (`Durable`), `Refinement`: the deliveries implement
  `SerialAttempts`. The delivery that owns the claim is the attempt under way
  (`OwnersAttempt`); every step of the two layers, a stale read, a lost mark and
  a crash included, begins an attempt (`AttemptBegins`), ends one
  (`AttemptEnds`), applies its effects or leaves attempts alone.
- **`FillStreamWorker_proof`**: `LeaseExcludes`, `LeaderOwnsLease`, `OneWriter`,
  `StreamsKeepLease` under `~Stalls`. A process in the middle of a cycle stands
  on a lease nobody can take before time passes (`CycleInv`), and one with open
  streams wakes before its lease ends. `RunsTheLoop`, without any condition: the
  worker's specification implies the loop of `LeaderLease`, so what is proved of
  the loop holds of the worker (`WorkerLeads`), and would hold of the other
  loops in the same way.
- **`DeploymentState_proof`**: `SingleOwnership`, `Registered`, `Watched`, types
  under `Prompt`. The invariant needs, beside the three properties: a registry
  holds only its own process's bots (`Held`), one bot at a time is run or taken
  down in a process (`Alone`), a failed boot pops its own record (`Popped`), a
  `stop_bot` waits for a bot that was told to end (`Calls`), and a running bot's
  claim is as old as its lost rounds make it, where the interval in which an
  executed UPDATE is not answered counts before it is over (`Ages`). What a round
  of the heartbeat does is said once (`Rounds`). `Refinement`: the fleet
  implements `BotLease`. A step of the code that takes a bot down, whichever it
  is, ends one incarnation at most (`EndsOne`); a claim can be taken only from a
  bot that was cut off (`TakerUnrivalled`), since its age is known from the
  lost rounds; and who refreshes it has no rival (`HolderUnrivalled`).
  `OneOwner`: of two bots that run, one has lost all but one round of the
  threshold since its last refresh. `TwoOwnersCost` counts what that costs: every
  such round is a failed call or an interval that a call hung for
  (`CutOffsAreFaults`), so two bots trade one key only after `Stale - 1` of them,
  one single call that hangs for so long included. `fleet_owner` breaks it without
  any, where `Prompt` does not hold.
- **`Settlement_proof`**: types, `RefundIsFinal`, `LedgerMovesRow`,
  `NoPeriodIsFree`, without assumptions on scheduling. `NoFreePeriod` alone is
  not inductive: a request writes back an expiry it read before. The invariant
  therefore says that every row that was read was bought (`ViewsBought`), and
  that a request resuming a recorded payment has read the present expiry, or one
  that a payment was confirmed after (`Funds`), or one below what was bought by
  a month (`Spare`). The second and third arise when another request moves the
  expiry in between: its payment is a new row of the ledger, or the trigger has
  found one confirmed after the old period (`ChangesArePaid`).
- **`TradingGate_proof`**: types and `PassedWhileAllowed` unconditionally,
  `UnreviewedHaltStands` under `Punctual` and `LockAnswers`. The first argument
  follows an off on its way: whoever holds an answer, is about to clear a latch,
  or waits behind one, has lived through a moment the switch was off
  (`OrderInv`, `GateInv`). The second is exclusion by the lock (`LockInv`) and
  then: a reset that has read the holds has read the standing ones, and one that
  has cleared the switch left none (`HoldInv`).
- **`PaperTrading_proof`**: types (which include that no balance is negative),
  `LedgerExplainsAccount`, `ReservedOnce`, `AcceptedIsReserved`,
  `MarketPaidOnce`, `FilledIsSettled`, and that a terminal order stays
  (`TerminalStays`). The invariant has a part local to each call, what it
  relies on between two of its statements (`Ready`); it survives the steps of
  the others because the tables only grow (`Grows`). On it rest the parts that
  relate calls on one order: at most one call owns an order on its way to the
  book or to its payment (`OwnInv`), and what is reserved and paid follows from
  where that call is (`ReserveInv`, `PayInv`). `Refinement`: the account
  implements `AtomicAccount`, in which a reservation, a payment, a release and a
  reset are each one movement. The mapping reads off the ledger which orders were
  reserved and paid; `AtomicInv` adds to the above what an order must have come
  through before its funds are about to move (`AccountInv`). Of the abstract
  account it takes a few lines to see that no movement makes money, and the
  refinement carries that to the code: `NoMoneyIsMade`.
- **`UsageMeter_proof`**: types, `RefusedWhenFull`, `AdmittedWithinLimit`. The
  meter is bounded from above by what is recorded, under way or lost to a
  failure, whatever happens (`UpperInv`), and from below, in a clean history, by
  what is recorded and under way (`MeterCovers`); the latter because whoever
  rebuilds it is alone (`RebuildsAlone`).

Theorems without a run of their own (`ResultsAreFinal`, `LeaseExcludes`, `LeaderOwnsLease`, `RunsTheLoop`, `OwnClaim`,
`DurableCompletion`, `StreamsKeepLease`, `TerminalStays`, `CutOffsAreFaults`,
`TwoOwnersCost`, `OneOwner`, and the types of most modules) state facts the runs' properties rest
on or follow from.

Model-checked only: liveness (`EveryCallEnds`, `LockIsFreed`, `EventIsHandled`,
`LivePairIsStreamed`, `RetiredPairIsClosed`, `NoStrandedClaim`,
`StopIsHonoured`, `LatchIsLifted`), since fairness and ENABLED are out of the prover's reach.

## 6. What is left out

- *Idempotency, webhooks*: what the operation and the handler do is one effect.
- *Fill worker*: the events a stream delivers and the REST fallback; the sleep of
  two intervals under backpressure (`core/worker_base.py:101-104`), which skips the
  lease check with the streams open. Nothing calls `update_queue_size` of that
  controller, so it never throttles. If something did, `OneStreamer` would not
  survive: the lease is three intervals long.
- *Fleet*: the thread of a heartbeat that was cancelled in the middle of a call: it
  may refresh the row of its bot once more, which is over by then; pause, close requests, capacity and tier limits, `shutdown_all`,
  quota, expiry, guard trips. One bot key: others do not share state with it.
- *Settlement*: the grant in `deployment_permissions` (no code reads it), audit
  entries, partial refunds, `suspended` and the reinstatement (nothing writes
  the former), whole calendar months (a month is a constant).
- *Known weaknesses of settlement without a run*: two renewals decided from one
  expiry lose a month; a payment confirmed before the expiry of a cancelled
  subscription is refused by the trigger for ever; a retry keeps a stale view; a
  renewal at a new price is a mismatch. They follow from the modelled guards and
  are listed as hazards or follow from the model's comments.
- *Gate*: history, metadata and audit rows of the switch, which nothing reads to
  decide; authority checks before a reset; the tenants, which share no state
  (one is modelled); what happens to an order after the gate.
- *Paper trading*: sells and closed trades, equity snapshots, the risk limits of
  `place_order`, other symbols (they have a position row of their own and share
  the account), the paper sessions with their simulator.
- *Usage*: counted resources (a count of rows, without state of its own),
  `release` and idempotency keys (no production caller passes one), plans that
  are unlimited or allow nothing (nothing is decided from the meter), the month's
  end (another key).
- Not modelled at all, with reasons in `PROJECT.json`: risk and portfolio
  arithmetic, market data, backtesting, machine learning, websockets,
  authentication, notifications, the terminal and the infrastructure, and code
  that no production module imports (order state engine, fill and cancellation
  deduplication, transactional execution manager).

The models show further disagreements between the code and its comments, for
which there is a hazard with a note and no run:

- a heartbeat whose call hangs keeps its bot trading, without a bound, although an
  unreachable store "must not grant indefinite ownership either"
  (`backend/fleet_manager.py:230-231`): `OwnerUnlessCutOff` and `BotLease` count the
  rounds lost, nothing ends them;
- a webhook refused because the database is unreachable is answered 200, so the
  provider does not send it again (`routers/billing.py`);
- a fill stream that failed to connect is never started again, since a task
  that is over counts as running (`workers/exchange_fill_worker.py`);
- a second stop turns `stopping` into `stopped` while the bot still trades, and
  `running` is written over a `failed` that came first;
- an activation of the kill switch whose SET fails is undone by the next order's
  probe, although a kill switch "is cleared deliberately [...] or not at all"
  (`core/global_safety.py`);
- a meter is rebuilt over increments made meanwhile, so that in a fresh month
  two requests get the last unit without any fault; a failed ledger read or GET
  gives a fresh month (`core/usage_ledger.py`). Without `clean`, TLC finds both;
- a tenant's mirror is set from the store and never cleared from it: a worker
  refuses the tenant's orders after a clear "every worker will see";
- two cancels of one paper order both release its funds; a market order can be
  rejected for want of funds after it was paid; a limit order whose attempt died
  behind `insert_fill` is never filled and ends every later sweep.

## 7. Plan

Done, in this order: idempotency, webhooks, lease and fill worker, bot
ownership with deployments, settlement, the trading gate (kill switch and tenant
halt), paper trading on the default account, the usage meter. Next:

1. command stream worker: stream, pending list, reclaim, dead letter; a command
   is executed or dead-lettered, never dropped (liveness), and duplicated only
   by a reclaim;
2. pause, resume and close requests in `DeploymentState`; guard trips, expiry
   and the strategy quota;
3. sells in `PaperTrading`; the paper sessions beside it;
4. the order watchdog's two loops over `LeaderLease`; signal lifecycle;
5. proofs: an abstract latch implemented by `GlobalKillSwitch`; the streams of
   the fill worker as an exclusive resource handed over between leaders; an
   abstract allowance implemented by `UsageMeter` while its history is clean.
