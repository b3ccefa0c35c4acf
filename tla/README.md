# Formal model of the arbitrage trading platform

TLA+ modules, TLC configurations and TLAPS proofs about the control plane in
`src/trading_platform`: the order ledger, the pair lock, recovery traces, the
decision and the submission of an entry and the entry cycle that ties them together,
strategy runs and configs, the Redis client, and the market data the strategy
evaluates. Paths below are relative to the repository.

    tlc -config MCOrderStore.cfg MCOrderStore.tla      # any run of PROJECT.json
    tlapm LedgerProofs.tla                             # proofs; likewise PgOrderStoreProofs,
                                                       # EntryCycleProofs, RecoveryTraceProofs,
                                                       # PairLockProofs, StrategyRunsProofs,
                                                       # RedisPoolProofs, MarketDataProofs

## 1. The system

One Python process (`main.py`, `server.py`) serves HTTP and runs three kinds of
threads: HTTP handlers, one strategy runtime, one recovery runtime (and market
data pollers). State is in a *store* (in-memory, or PostgreSQL with autocommit
statements) and in *Redis* (evaluations, recovery traces, pair locks, event
streams). Nothing in the process is transactional across the two; several
processes may share both. All threads of a process share one Redis client.

| Component | State it keeps | Operations | Talks to |
|---|---|---|---|
| Order ledger (`storage/order_mutation_views.py`, `storage/postgres_order_mutation_ops.py`) | intents, orders, fills, `decision_count` | create_order_intent, create_order, update_order_status, create_fill | called by handlers, both runtimes |
| Pair lock (`redis_runtime.py`) | one key per market and quote pair, with a TTL | acquire, release | strategy runtime, entry execution |
| Recovery trace (`redis_runtime.py`, `recovery_runtime.py`, `route_handlers_recovery_write.py`) | one JSON document per trace, mirrored in the run's evaluation | transition, resolve, handoff, start-unwind, submit-unwind-order, cancel-open-orders, record-unwind-fill, record-reconciliation; the runtime's pass | store, Redis, private connectors |
| Strategy runtime (`strategy_runtime.py`, `strategy_runtime_execution.py`) | latest evaluation per run | tick: reconcile lock, look for traces, load, decide, persist, submit, report | store, Redis, execution adapter |
| HTTP evaluation (`route_handlers_strategy_write.py`) | none | evaluate-arbitrage (persist, execute) | the same |
| Control-plane store (`storage/memory_mutable_store.py`, `storage/postgres_mutation_ops.py`) | bots, runs, configs, assignments, alerts, heartbeats | create/start/stop run, create/assign/acknowledge config, alerts, heartbeats | handlers |
| Redis client pool (`redis_client.py`) | idle and open connections | execute, close | every thread |
| Limiters (`request_guard.py`, `rate_limit.py`) | window per client; tokens | check_and_consume; acquire | handlers; connectors |
| Private execution (`strategy/arbitrage_private_execution_adapter.py`, `private_exchange_connector.py`) | none | submit, validate answers, poll orders | exchanges, store |
| Decision (`strategy/arbitrage_*.py`) | none | gates, sizing, pricing, candidate selection | pure |
| Market data (`market_data_runtime.py`, `public_ws_market_data.py`, ...) | snapshot cache, collector state | poll, receive, reconnect | exchanges, Redis |

What is hard: check-then-write sequences over autocommit SQL and over Redis GET/SET, documents
written back whole from an old copy, answers that carry no version, the same entry code run by
two kinds of threads of which only one takes the lock, a lock with a TTL, late and duplicate
fills, and the ends that must be reached when evidence never arrives. `PROJECT.json` lists every
hazard at its line with the properties aimed at it.

## 2. Modules

| Module | Models | State ↔ code |
|---|---|---|
| `OrderStore` | the memory store's order operations, one step each (they run under `_lock`) | `intents`, `orders`, `fills`, `decisions` ↔ the store's dictionaries; `orders[o].filled` is the sum the code takes over the fills |
| `PgOrderStore` (EXTENDS `OrderStore`) | the same operations as sequences of SQL statements | `req[c]` ↔ the local variables of a handler between two statements |
| `PgHistory` (EXTENDS `PgOrderStore`) | the same with a history variable | `overlapped` ↔ nothing in the code: whether two requests were ever in flight together or a connection was lost |
| `RunLock` | what the pair lock promises | `owner`, `granted` |
| `PairLock` | `acquire_pair_lock`, `release_pair_lock`, one Redis command per step | `owner` ↔ the key; `op[c].seen` ↔ the result of the GET |
| `Reconciliation` | the `_reconciliation_..._reason` helpers as operators | a result ↔ the `reconciliation_*` fields of a trace |
| `RecoveryTrace` (EXTENDS `Reconciliation`) | one trace, the recovery runtime's pass and the operator's handlers | `trace`, `preview` ↔ the trace and evaluation keys; `op[a]` ↔ an agent's copy; `overdue` ↔ what its age compares to |
| `EntryCycle` | the strategy runtime's tick, evaluate-arbitrage, the recovery runtime's two sweeps, two runs on one pair | `evaluation`, `intents`, `traces`, `holder` ↔ the Redis keys and the store's rows; `late` ↔ orders older than `submit_timeout_seconds` |
| `EntrySubmit` (EXTENDS `OrderStore`) | `submit` of the execution adapters and `execute_persisted_arbitrage_intent`, one ledger call per step, while other threads create, cancel and fill orders | `at` ↔ where the thread is; `reply`, `pending`, `pendingFills` ↔ the executor's answer and what is left to write of it; `booked`, `filledLegs` ↔ `order_index`, `created_fills`; `seen` ↔ `_refresh_orders`; `placed` ↔ what an exchange may have; `result`, `claim`, `evaluation` ↔ `ArbitrageSubmitResult` and the published lifecycle |
| `EntryDecision` | one evaluation: gates, size, profit, reservation, choice of the direction; no state | a candidate ↔ `ArbitrageCandidateInputs`; an amount ↔ a `Decimal` with `Precision` digits, rounded as Python's |
| `Handlers` | the handler threads of the HTTP server and the store behind them | `backend` ↔ the store `store_factory` built; `threads` ↔ the threads in use; `req[c]` ↔ a handler's local variables |
| `StrategyRuns` | what the store promises of strategy runs: create, start, stop of `MemoryMutableStore` | `runs` ↔ `strategy_runs` in the order of creation; `latest` ↔ `latest_strategy_run` of a bot's detail |
| `PgStrategyRuns` (EXTENDS `StrategyRuns`, `Handlers`) | the requests over either store, in PostgreSQL statement by statement, and the write of the result to Redis | `mirror` ↔ `strategy_run:{run_id}:state` |
| `ConfigRollout` (EXTENDS `Handlers`) | register_bot, create_config_version, assign_config, acknowledge_config_assignment of both stores, the apply policy, and the worker that answers | `versions`, `assignments`, `registered`, `alert` ↔ the tables; `running`, `answer` ↔ the worker, which `src/` has only a contract of |
| `RedisPool` | `RedisClient.execute` and `close`, and the connections with the commands and answers on them | `idle`, `open` ↔ `_idle_connections`, `_open_connections`; `conn` ↔ what a thread acquired; `wire`, `orphans` ↔ commands Redis has not answered, or will execute although nobody waits; `key` ↔ one key |
| `BotState` (EXTENDS `RedisPool`) | the handlers that change a bot's detail, and those that copy it to `bot:{bot_key}:state` | `detail` ↔ the store's detail, as the number of marked changes it shows; `handler` ↔ the rest of a request |
| `MarketData` | poller, refresh requests, direct reads, websocket and REST fetches, cache, Redis, the choice of the strategy's snapshot | `cache` ↔ `_latest_snapshots`; `redis` ↔ `market:orderbook_top`; `inflight` ↔ `_inflight_targets`; `polling` ↔ `_running`; `health` ↔ the success and failure counts |
| `*Proofs` (eight) | theorems about the module of that name (`LedgerProofs` about `OrderStore` and `EntrySubmit`, `PgOrderStoreProofs` also about `PgHistory`, `StrategyRunsProofs` also about `PgStrategyRuns` and `ConfigRollout`, `RedisPoolProofs` about `BotSpec`) | |
| `MC*` | instances for TLC | |

How they compose. `EntrySubmit` drives the operations of `OrderStore` step by step, and
`EntryCycle` keeps of a submission what it shows: both legs booked or a recovery trace
(`SuccessBooksBothLegs`, `UnbookedLegInRecovery`), and of an evaluation whether it accepts;
`EntryDecision` is that evaluation, checked in the same instance. `PgOrderStore` is shown to
implement `OrderStore`, as long as no two requests overlap and no connection is lost, under the
mapping that counts the last statement of a request in flight as done; `PgStrategyRuns`
implements `StrategyRuns` under the same condition, for either backend. `RunLock` is what the pair
lock promises and demands: `PairLock` implements it command by command, and `EntryCycle`
implements it too (`EntriesKeepLock`, with `holder` as the owner and the runs that count on
an entry, `InEntry`, as those granted), which says that the runtime uses the lock as it must.
`BotState` is composed of the handlers and the pool they all use: a command that
timed out may still overwrite the copy. `PgStrategyRuns` and `ConfigRollout` share the handler
threads only, and `MCControlPlane` checks them in one instance, one part at a time.
`RecoveryTrace` and `EntryCycle` use the results of the others as assumptions at a coarser
grain: `RecoveryTrace` keeps of an order only its class and relies on `TerminalIsFinal`;
`EntryCycle` acquires and releases the lock in one step, keeps orders per intent as one class, and its
`MoveTrace` is the outside view of `RecoveryTrace`: the write of the trace and that of the
evaluation, which `RecoveryTrace` has apart, are one step of it.

Atomicity. In the memory store an operation is one step. In PostgreSQL each statement
is one. In Redis each command is one, except that in `EntryCycle` an acquire or
release of the lock is one step (its grain is `PairLock`), one scan of
`list_recovery_traces` is one step, and `sync_arbitrage_evaluation_recovery_state`
is one. In
`RedisPool` a command is sent, executed and answered in three. Event streams and counters are left
out, and of the alerts all but the newest about a bot's config: no decision reads them.

Abstractions. Outside `EntryDecision`, quantities are small numbers and prices, fees and payload
texts are left out. Time is what has passed its limit (`overdue`, `late`), never a clock.
Whether inputs load and whether a decision accepts is a free choice of `EntryCycle`, which has
one quote pair, a runtime configured to persist and execute, and no failing Redis command
(`PairLock` and `RecoveryTrace` have those). `EntrySubmit` has at most one fill per leg in a
reply, ledger operations that are atomic as in memory, and a Redis that stores what it is given;
other threads act where the submission is about to touch the ledger, since their steps commute
with its other steps. The intent that a crash leaves in `created` blocks its run for ever, as in
the code. `MarketData` has one market, snapshots are ordered by the version of the book they
show as the code orders them by timestamp, the order in which a round visits its targets is
arbitrary, and `stop()` is left out. In `BotState` every request, a heartbeat too,
changes the detail, and they go on for ever; a behaviour marks any of these changes, and a detail
is the number of marked changes it shows, so the copy is behind or equal. `MaxChanges` bounds
the marks, not the changes. A worker may register its
bot again at any time, which stands for its restart.

## 3. Runs

The bound of a run is in its `.cfg`. "Symmetry" is used where ids are
interchangeable and the run checks no liveness.

| Run | Question | Bounds, and why they are enough |
|---|---|---|
| order_store | the ledger's invariants | 1–2 of everything, quantity 2: two orders of one intent, a partial and a completing fill, a duplicate trade and a late update fit |
| pg_orders | do the SQL statements implement the ledger, how far can concurrent fills overbook, is an intent completed too early? | two clients, lost connections, two orders of one intent, two fills of one or two units: every pair of stale sums occurs. A history variable says whether requests ever overlapped or a connection was lost, and the refinement is claimed as long as they have not |
| pair_lock | refinement, and with it exclusion | three runs with a client each: two compete while a third's key expires; lost commands and restarts included |
| recovery_trace | the trace's invariants, does it end, which results end it | one agent at a time, while orders and time move in between; two unwind order ids so that a second could be created; every result over two observed orders, streaks up to the limit |
| recovery_twice | a documented claim that fails | two agents |
| entry_submit | is every leg booked or in recovery, and is what is published true? | every adapter; two legs, quantity 2 so that fills can be short or whole, one exchange id per exchange so that ids can collide, one order and one fill of other threads, cancellations of every order; every reply over three order statuses |
| entry_cycle | exclusion on a pair, the use of its lock, visibility of traces, recovery blocks entries; does the size of an entry fit, has an opportunity one direction? | two running runs of two bots, three intents: one entry can end and another begin while the other run waits; a crash anywhere. Decision inputs: two and three exchanges, books of one and two levels, amounts of four digits; each limit (base balance, depth, order, bot, budget) is the binding one for some accepted or rejected size |
| entry_fair | one entry per run, one trace per entry, failed entries traced, lock given back, overdue entry noticed | one run, one strategy and one recovery thread, two entries, two traces: a late trace of the first entry can meet the second, and either thread can open a second trace |
| control_plane | do both stores implement the atomic runs; what do Redis, the apply policy and the status of an assignment say that is true? | runs: one bot, three runs, up to three threads, so that three requests pass the same check. Configs: one bot and worker, up to three versions and assignments with one thread (the third assignment is the first that can be compared with an unapplied one), two threads with two versions and one assignment. Either store, failing statements |
| redis_pool | is a connection ever shared, an answer read by the wrong thread, the pool overgrown; does every change of a bot reach its copy? | two threads on a pool of one connection, so that one waits; three connection objects, one call of close() while a connection is in use; one change marked after the registration, any of the unbounded many, since the property is about each change by itself; timeouts and resets anywhere |
| market_data | one fetcher per target, is an older book evaluated, does every target catch up? | two exchanges, one of them with a websocket; poller, one requesting thread, one direct reader; one retry; a book that moves once. With a direct reader, one exchange |
| lost_socket | a documented claim that fails | the same instance |

`CHECK_DEADLOCK FALSE` is given where ids are used up and the system then rests.
Ids (`uuid4` in the code) are finite sets; `IntentsLeft` in `EntryCycle` keeps a
thread from starting an entry for which no id is left.

Every property has a mutant in `PROJECT.json`: a definition of the model changed as
a bug in the code would, under which TLC finds the property violated.

### What the runs show

Holding: the ledger in memory never overfills and never reverts; the PostgreSQL statements implement it as long as requests do not overlap; an
overfill is bounded by the fills that were in flight together. The pair lock excludes two runs
as long as a holder refreshes in time, and entries of two runs on one pair exclude each other
through it: the runtime takes only a free lock and gives it back only when its run counts on
nothing any more. A trace keeps status, lifecycle and residual consistent, ends or reaches an operator
if passes keep running, and blocks entries.
A failed submit leaves a trace, an overdue one gets one, and a run's first entry never gets two
while one sweep is at work. Whatever the exchanges answer, a
submission that is reported as a success has both legs in the ledger, a leg that may be live
and is not in the ledger leaves a trace, and
`hedge_balanced` or `closed` is said only of legs that are filled in full. The size of an entry
uses up one of the limits it was computed from and exceeds none by more than rounding (a tenth
of a per cent at four digits, less than the fee of the inputs), and no two exchanges are traded in both directions at a time.

Strategy runs behave alike over both stores until requests overlap; then a bot can have as
many active runs as there are threads, and no more. Redis may show an older status of a run
(two handlers can write in either order, and nothing corrects it), never one not reached. An apply
policy is true of a worker that applies every assignment before the next is made, while requests
do not overlap; the status `applied` of one that answers every assignment before the next,
even if they do. An acknowledgement carries no version, so a late one is written into an assignment
the worker never saw. The Redis client never hands a connection or an answer to two threads, and a
timed-out command can still overwrite the copy of a bot; but each change of the bot, although
heartbeats go on changing it and although the copy may stay behind the store, is after a time
shown in every copy. A target
is fetched by one thread at a time whatever exception ends a fetch, and a living poller shows
every target as it is in the end.

`EntryDecision` rounds as Python's `decimal` does. On the inputs of the run it makes the same
8,704 decisions and 2,816 selections, reason by reason, as the code does with its decimal
context set to four digits. In 124 of them the size that was computed to exhaust the quote
balance is then refused (`RESERVATION_FAILED`) because the cost, multiplied out again, is a unit
in the last place above it; with 28 digits the same happens to a few sizes in a thousand when a
limit ends inside the second or third level of the book. An opportunity is lost, nothing is
overspent.

Not holding, each a documented claim with a counterexample (`findings`): two requests create two
unwind orders for one trace; a websocket that is closed or silent raises an exception that
nobody turns into a `MarketDataError`, so REST is not asked and the poller thread ends, for good
and without a degraded state. More claims that fail are recorded as hazards: concurrent fills
overfill a PostgreSQL order (`FillUpperBound` of `PgOrderStore`) and a status update that checked
an order before another request filled it reverts it (`TerminalIsFinal`), two passes of the
recovery runtime, which handlers start too, open two traces for one entry (`OneTracePerEntry` with
two `Watchers`), a trace is resolved while an
order is open, an HTTP evaluation persists a second entry of a run (`OneEntryPerRun` with
`Handlers` in `EntryCycle`), and a filled reply whose legs have different quantities is
published as balanced.

Where a passing run excludes an interleaving, the hazards in `PROJECT.json` say what
happens with it. They are: a key that expires under a client that counts on it
(`Expire`'s guard); a trace handed off between the two scans of
`get_blocking_recovery_trace` (`ScansUndisturbed`: it is in neither, and the runtime
enters); a recovery agent that has written a trace and not yet the evaluation, in `entry_cycle`
(`MoveTrace` does both: with a step for each TLC finds "closed" written over the evaluation of an
entry that failed since, so that `ActiveTraceShown` and `OneEntryPerPair` fail, while
`NoEntryDuringRecovery` holds); a recovery thread in `entry_cycle` (the stale close can hide a trace that is
being opened) and a second one in `entry_fair` (two traces for one entry, an
evaluation closed over a new entry); HTTP evaluations in either (they overwrite the evaluation of
a run in recovery and can release the runtime's lock); a second agent for
`TerminalStays` (a resolved trace written back as active); overlapping requests for
`SerialImplementsLedger`, `ImplementsRuns`, `MirrorIsPast` and `HotReloadIsHot`; unanswered assignments for
`HotReloadIsHot` and `AppliedIsRunning` (`AllApplied`, `InStep`); direct readers for `UsedNeverOlder`
(a slow one puts an older book over a newer); a dead poller for `TargetsCatchUp`.

Further hazards of the code that no property is about: cancelled orders leave their intent submitted,
which blocks the run; a lost connection between an order's insert and its intent's update leaves
the intent `created`; the connectors normalise a live order to `open`, which the adapter does
not accept; `list_recovery_traces` and `list_arbitrage_evaluations` end at 100 entries; the
strategy loads the newest assigned config whatever its apply status; `TokenBucketRateLimiter`
counts without a lock, and `WriteRequestRateLimiter` reads the time before it takes its lock.

### Fairness

- `RecoveryTrace!FairSpec`: a begun pass or request goes on (weak), the recovery thread's loop
  begins a pass again and again (strong, since it is disabled while a pass is running), time
  passes.
- `EntrySubmit!SubmitSpec`: the submitting thread goes on (weak): every call it makes returns or
  times out. Other threads, exchanges and operators are not fair.
- `EntryCycle!FairSpec`: begun work goes on (weak), `_tick` visits every running run (strong per
  run), the sweep visits submitted evaluations (strong). Neither fills, operators nor MoveTrace
  are fair. It assumes the threads do not die.
- `BotState!BotSpec`: handlers, and commands Redis has received, go on (weak); heartbeats keep
  coming, to any of the threads, as bots send them periodically; a thread that asks for a connection again and again
  gets one, and one that sends again and again sometimes gets through (strong: a condition
  variable wakes waiters in any order, and `Break` can take each attempt). Nothing says that an
  answer comes in time.
- `MarketData!FairSpec`: threads go on (weak), the poller polls while it lives, and a fetch that
  is repeated for ever is sometimes answered (strong: the exchange is not down for good). Books,
  requests and readers need not act.

## 4. Proofs

Every theorem is about all values of the constants that satisfy the ASSUMEs of the modules: ids
of different kinds differ (`NoIdAssumption`, `NoneAssumption`), ids that `uuid4` draws are not
among those already used (`FreshAssumption`, `ReplyIdsAssumption`), a thread is of one kind
(`ThreadAssumption`), sets of threads are finite, bounds are positive.

`LedgerProofs`, the ledger in memory (`OrderStore`): `TypeCorrect`, `NeverOverfilled`,
`FullyFilledStaysFilled`, `TerminalOrdersAreFinal`, `ExternalIdsStayUnique`,
`OrdersFollowIntents`. The three facts about
quantities are proved together: that an order is never overfilled needs that a terminal order
takes no fill, and that a full order is `filled` needs the bound, so neither is inductive alone;
the action property then follows from the outcome guards under type correctness. An exchange
order id or a trade id is never rewritten, so only the two creating operations could repeat one,
and each looks its own id up in the step that stores it: the atomicity of the memory store is
what the proof uses, and what `PgOrderStore` replaces by unique indexes. An order follows its
intent because no operation removes an intent or returns it to `created`.

`LedgerProofs`, a submission into that ledger (`SubmitSpec`: any adapter, any replies, other
threads that create, cancel and fill orders): `UnbookedLegAlwaysInRecovery`,
`SuccessAlwaysBooksBothLegs`, `BalancedClaimAlwaysFilled`. `SubmitInv` follows the thread through
its program: how far it is and what came of it, a failed result publishing recovery and leaving a
trace before `done` (`ProgressOK`); what is still to be booked can be booked (`PendingOK`); each
adapter goes its own way, and past the orders both legs are booked (`WayOK`); what was booked and
read agrees with the orders of the ledger (`FilledOK`). The last rests on `LedgerGrows`, what any
use of the ledger leaves of an order: the requested quantity is kept, a terminal order does not
change, and an order that becomes filled is filled in full, so that no other thread undoes a fill
between its booking and the claim.

`PairLockProofs` (any runs and clients, `Spec`, one client per run): `RunsExclude`,
`OwnKeyStillOwned`, `PairLockRefinesRunLock`. Exclusion is not inductive by itself:
`LockInv` adds that what a client has seen of its own run is still in the key when its
SET or DEL is executed, and that a client on its way to a DEL no longer counts on the
lock. The lock is only as good as its time to live: that a key does not expire under
such a client is `Expire`'s guard, not something the code enforces.

`PgOrderStoreProofs` (any finite set of clients, lost connections included): `PgTypeCorrect`,
`OverfillPerClient`, `ExchangeOrdersStaySingle`, `SimulatedOnlyWhenFilled`,
`SerialRequestsImplementLedger`, `TerminalOrdersFinalUntilOverlap`. The bound needs to know what is still to come:
`FillInv` says of each order that its fills, with every pending fill counted as a whole order,
fit into one whole order per client, or do so when the fill of the client that read the sum last
is counted as it is (that client's sum was the true one). No other use of the interleaving is
made. An exchange order is single because of the unique index that `InsertOrderFails` stands
for. An intent is completed by a statement that judges the orders as they are, so its theorem
needs types only. The refinement is the one that says when the two backends are
interchangeable: `HistoryInv` adds, for the time before an overlap or a lost connection
(`QuietInv`), that at most one request is in flight (`Solo`), that what it read is still so
(`Promise`: the sum, the trade id, the status, the intent), and that an intent with an order has
left `created` or is about to (`StoreOK`). Under it each statement is one operation of
`OrderStore` or a stutter, the initial states correspond, and there is one lemma per statement.
`Promise` is what fails first when requests overlap. That terminal orders are final until then is
a corollary: no operation of the ledger touches one, and a statement is such an operation or none.

`RecoveryTraceProofs`. The verdicts (any observed orders, open-order counts and mismatch
limits): `ResolvesExactly`, `UndecidedWaits`. The cascade is a nested IF; the proof shows that
under a clean claim its six refusals together say exactly what is not trustworthy. The trace
(`FailingSpec`: any agents, each may stop anywhere): `StatusAlwaysAgrees`, from `AgreeInv` (every
copy in an agent's hands agrees, and every patch names all of the three fields or none), and
`LinksAlwaysHold`, from `LinkInv` (the links of every copy and every patch are in the order store,
which only grows). With one agent (`Agents = {a}`: one thread works on a trace at a time, which is
what `recovery_trace` checks and `recovery_twice` shows to be needed): `AloneOneUnwindOrder`,
`AloneEvaluationShowsTrace`, `AloneTerminalStays`. `AloneInv` says that the agent's copy is the
stored trace until it writes, that an unwind order is linked in the trace or still in the agent's
hands, and where between the two writes the evaluation lags behind.

`EntryCycleProofs` (any runs, bots, ids). `CycleTypeCorrect`: with HTTP evaluations, and with
restarts; it also says what each thread holds at each step. `FailedEntryAlwaysTraced` (`Spec`,
any number of runtimes and sweeps; not with restarts, see the hazards): an intent without an
order is in the hands of a runtime that will open a trace, or its run has one (`FailInv`).
`NoEntryEverDuringRecovery` (restarts, any number of runtimes and sweeps, no other hypothesis
than `ScansUndisturbed` in the specification): of the traces that blocked when a runtime looked,
none is handed off after the first scan and all are resolved after the second, and a resolved
trace stays so (`ScanInv`). `OneEntryPerRunAlways` (any sweeps, restarts) assumes the one strategy
runtime thread that a process has (`Runtimes = {s}`): with two, both find the run free.
`OneEntryPerPairAlways` and `ActiveTraceAlwaysShown` (restarts, any runs and bots) assume besides
that no recovery sweep is at work (`Watchers = {}`), as their run does: the stale close is a
counterexample to both. They come from one invariant, `PairInv`: every unresolved trace is shown
by its run and alone on its bot, whoever shows an entry holds the lock (`PairOK`), and while the
runtime is entering nothing blocks its bot and it owns the lock from the acceptance on
(`StepOK`). Neither is inductive without the other, since what releases the lock is what the
evaluation shows. `EntriesImplementRunLock` comes from the same invariant (same hypotheses): who
counts on the lock is its holder, the lock passes only from and to nobody, and it is given back
only by a run that counts on it no more. `ExpireLock` has as its guard what `Expire` of
`PairLock` has, so nothing is claimed of expiry.

`OneTracePerEntryAlways` (`Spec`, any runs, bots and ids) is about one runtime and one sweep
(`Runtimes = {s}`, `Watchers = {w}`), both of which open traces. `SoleInv` says of a run with one
entry that it has at most one trace, and none while its entry can still fail (`Failing`) or the
sweep is on its way to open one (`Watching`); the two exclude each other, since the sweep starts
only from an evaluation that shows `entry_submitting`, which is published when the submission is
over, and the trace that is opened moves the evaluation on (`Showing`), so that the next
sweep does not begin. With a second sweep the claim is false (TLC opens two traces). Restarts are not
covered: after one, a trace may have been opened and not shown, which `SoleInv` excludes.

`StrategyRunsProofs` (any bots, any finite set of threads). `OneRunPerBot` and
`DetailShowsActiveRun` are about the atomic store: an active run is its bot's newest
(`RunsInv`), which is why start and stop may write the detail without looking.
`BackendsImplementRuns` and `MirrorIsOfThePast` are about the requests over both stores:
`SerialInv` says what a request in flight found and still finds when it is alone.
`ActiveRunsPerThread` counts (`Room`): the active runs of a bot, those that a pending request is
about to bring back, and the threads about to insert one, are together at most as many as the
threads. About `ConfigRollout` (`ConfigSpec`: any bots and versions, either store, failing
statements): `AppliedAlwaysRunning` and `HotReloadAlwaysHot`, from `ConfigInv`. `AnswerAgrees` and
`AppliedRuns` say that in step an assignment is `applied` only by the answer about the version it
names; that this holds also when requests overlap was found by the proof (the hypothesis that they
do not was not used) and confirmed by TLC. `HotIsHot` does need it: `RequestOK` keeps that the
policy a request carries was computed against the version the bot was assigned last, which is
true only while the request is alone.

`RedisPoolProofs` (any threads and connections, any number of calls of close()):
`ConnectionsExclusive` (a thread has a connection exactly while it is between taking and giving
it up), `AnswersOwn` (`WireInv`: a connection that is not in use carries nothing, and one in use
only the command of its thread, since a broken connection never goes back), `SocketsBounded`
(`CountInv`: close() forgets at most `max_connections`).

`MarketDataProofs` (any exchanges, any threads): `MarketTypes`, `OneFetcherPerTarget`
(`FetchInv`: a target is in flight exactly while somebody fetches it) and `EvaluatesForward`
(`FreshInv`: without direct readers, Redis is never ahead of the cache, nor the fetcher behind it).

Only model-checked: the liveness properties (`PlacedLegAccounted`, `RecoveryEnds`, `LockGivenBack`,
`OverdueEntryNoticed`, `ChangesReachCopy`, `TargetsCatchUp`), since liveness and ENABLED are out
of the prover's reach; and `EntrySizeFits` and `EntryHasOneDirection`, which are about what folds
over the levels of a book return with rounded amounts, an induction over data. Every other
property of the passing runs is stated by a theorem.

Proved, and in no run: `ExternalIdsUnique`, `ExchangeOrderBookedOnce`, `TerminalUntilOverlap` and
`MutualExclusion` (the last two follow from the refinements `pg_orders` and `pair_lock` check),
and the type invariants except that of `order_store`.

## 5. Not modelled, and the plan

1. *Done*: every module of section 2 and the proofs of section 4.
2. Proofs: `OneEntryPerPair` with a recovery sweep that cannot meet an entry (its stale close
   excluded as `ScansUndisturbed` excludes a hand-off); `UsedNeverOlder` with direct readers on
   other targets; lemmas about `EntryDecision`'s rounding.
3. `EntrySubmit` over the statements of `PgOrderStore`, with the rejected insert of `submitted`
   and the exception it raises; the polling of private orders.
4. `WriteLimiter`, `TokenBucket`: at most the limit in any window. They need a clock, which no
   module has.
5. The order of reasons in `EntryDecision` against `05_arbitrage_reason_code_precedence.md`,
   which puts the skew before the balances and `max_spread_bps` before the profit, and the
   rounding of a size at its limit, each as a run of its own.

Left out for good: HTTP routing and rendering, read-only views and bootstrap, request signing
and balance sources, the command-line adapter `PsqlCliAdapter` (the same statements over another
driver), developer tools and the offline simulation. They keep no state that others share, or
are pure I/O. (Of the simulation: `ExchangeFetchScheduler.mark_attempt` leaves the due time of
an attempt that came early, inside the tolerance, where it is, so that the exchange is due again
at once; the observer evaluates a pair only if both exchanges were refreshed in the same round.)
