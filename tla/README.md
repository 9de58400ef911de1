# Samvid Trading Core: TLA+ models, checks and proofs

Samvid is a Python trading system for Interactive Brokers (IBKR) and MetaTrader.
One asyncio process (`src/src/main.py`, `brain.py`) scans markets, vets signals
with many agents, places orders, watches positions and reconciles its memory and
its SQLite ledger with the broker. What can go wrong in it is mostly order: tasks
split at their awaits, worker threads that read shared state, broker callbacks
that come late, restarts that forget. This directory holds TLA+ models of it, TLC
configurations that check them, and TLAPS proofs of safety properties for every
value of their constants.

Paths below are relative to `src/src/` of the repository.

## The system

| Component | State | Operations | Modelled by |
|---|---|---|---|
| Trading switch (`trading_state.py`, `native_loader.py`, `safety_core.c`) | ACTIVE/REDUCING/HALTED, native latch | `halt`, `reduce_only`, `activate` on the loop; `allow_order` in threads | `TradingRisk` |
| Drawdown ladders (`brain_state.py`, `brain_accounting.py`) | level, peak and equity of each account | `_update_drawdowns` | `TradingRisk` |
| Loss tracker (`brain_state.py`) | counts, flags, pause, time of the last loss | `record_outcome`, `force_reduce_only`, `get_size_modifier`, `is_trading_allowed` | `LossTracker` |
| Exit resolver, reconciliation (`brain_position.py`, `brain_reconcile.py`, `brain_execution.py`) | `positions`, `exit_triggered`, strikes, trades rows | monitor, exit, confirm, finalize, poll, purge, settle | `PositionExit`, `Exit`, `Trail` |
| Coordinator (`coordinator.py`, `sovereign_task.py`) | pending vets, tasks, cortex cache | the lifecycle of a proposal | `Entry`, `Bracket`, `Consensus`, `Sizing` |
| Run loop, bus, oracle's freeze (`brain.py`, `intelligence_bus.py`) | FSM, risk modifier, freeze flag, streak | scan, monitor, listen, thaw | `Freeze`, `Entry` |
| Dead-man switch (`dms.py`) | heartbeats, incident, alert, lock file | check, alert, flatten | `DeadMan` |
| Dead-letter queue (`resilience_layer.py`) | bounded queue, unfinished count | enqueue, retry, escalate, join | `DeadLetter` |
| Engine and watchdog (`main.py`, `watchdog.py`) | PID and heartbeat files | claim, judge, kill, restart | `Guardian` |
| Process life (`main.py`) | the startup, its tasks, the shutdown | `async_init`, supervisors, `shutdown` | `Lifecycle` |
| Broker session (`main.py`, `agent_c_ibkr.py`) | the client, its consumers | probe, reconnect, rebind | `Reattach` |
| Order rows (`agent_c_ibkr.py`) | `persistent_orders` | snapshot in threads, recovery | `OrderLog` |
| MetaTrader lane (`agent_c_mt5.py`, `main.py`) | terminal session, tickets | attach, order, close, emergency | `Terminal` |
| Market data (`data_pipeline.py`, `*_streamer.py`, `tick_batcher.py`, `questdb_adapter.py`) | rows, locks, queues | pulse, sync, push, flush, drain | `Feed`, `Streams` |
| Oracle (`dhatu_oracle.py`) | headlines, current and saved state | harvest, synthesize, announce | `Oracle`, `Freeze` |
| Agents (`agent_a.py` ... `agent_e.py`, `swarm_predictor.py`, `trade_interrogator.py`, ...) | caches, memories, matrices | detect, vote, calibrate, learn | `Patterns`, `Voters`, `Calibration`, `Swarm`, `Learning`, `Observations` |
| Minds (`mind_bridge.py`, `mind_ghost.py`, `llm_circuit_breaker.py`) | mailboxes, probes, breaker | broadcast, audit, reboot, call | `Minds` |
| Files (`session_restorer.py`, `execution_audit.py`, `execution_evidence.py`) | session file, audit log | freeze, thaw, log, repair | `Records` |
| Backtests and promotion (`backtester.py`, `backtest_validator.py`, `backtest_engine.py`, `paper_performance.py`, `promotion_readiness.py`) | the last verdicts, the baseline | simulate, judge, promote | `Backtest` |
| Console (`api_server.py`, `telegram_remote.py`) | slots, queues, PIN window | connect, broadcast, poll, act | `Console` |

How they interact. The scanner asks the loss tracker and spawns a vetting task in
the coordinator; the coordinator collects votes, sizes the proposal and places a
bracket through the connector, whose pre-flight runs `allow_order` in a thread.
The accounting task feeds the ladders, which drive the switch. Fills,
cancellations and positions come back as callbacks. The monitor and the run
loop's reconciliation are two tasks that act on the same `Position` and the same
trades row; `_log_trade_exit` closes the row and feeds the tracker. The oracle
publishes on the bus, which may drop. The reconnect loop of `main.py` moves every
consumer to a new client. After a crash the watchdog starts a new process that
knows what SQLite and the broker tell it.

What is hard here, and what makes each part correct, is listed line by line under
`hazards` in `PROJECT.json`, with the property that would catch it. In short: no
approval that the switch forbids, no two orders for the same shares, no row closed
before the shares are sold, no second bracket, no overruled veto, no freeze that
ends or begins without a reason, one engine and one shutdown, no order, tick or
line that is lost silently, no consumer left on a dead client, no record that says
what did not happen; and everything that must end, ends.

## Modules of the trading core

### TradingRisk

`fsm` is `TradingStateManager._state`, `native` the latch of `safety_core.c`.
`_update_drawdowns` is split at its awaits (`UpdateIbkr`, `PersistPeak`, `UpdateProp`),
and also between the two writes of `halt` and `activate` (`pending`), because worker
threads observe them. A gate call is a small program per thread (`gate`): read the
latch, perhaps halt again (`Reassert`, `RestoreLatch`), read the state twice.
Thresholds are the code's, cleared of divisions. Ghosts: `quiet` (nobody else wrote
the switch during the call), `sawActive`, `lifted`.

### LossTracker

`tracker` holds the fields of `ConsecutiveLossTracker`. Time is a slot of the day
and a day of the week; the last loss is an age, the pause a countdown. `Refresh` is
the decay followed by the morning reset; the code runs it inside `record_outcome`
and `get_size_modifier` only, and so do the actions. `Scan`, `Size` and `Finish` are
the three moments of a proposal; `Exit`, `BreachExit` and `RecordBreach` are the exits.

### PositionExit, Exit and Trail

One symbol, one position bought long, restored from its OPEN row and older than
five minutes. `held` is the truth at the broker, `seen` what `ib.positions()` answers,
`known` whether the symbol is in `_positions_cache`; `orders` are the working orders,
`latest` the last fill; `tracked`, `qty`, `trig` and `strikes` the memory of the process,
`row` and `volume` the ledger. `job` is where the monitor stands, `syncing` whether the
run loop waits in `_log_trade_exit`, `young` the first minute of a process.

| Code | Actions |
|---|---|
| `_on_order_status`, `_on_exec_details`, `_on_position` | `Fill`, `OnCancelled`, `OnPosition` |
| `_state_positioned` | `FoundFlat`, `Finalize`, `Vet`, `Hold` |
| `_process_exit` | `Suppressed`, `NothingToExit`, `BeginExit`, `Realize`, `GiveUp`, `Log` |
| `_place_ibkr_order`, `place_order` | `Shield`, `Guard`, `Send`, `Refuse` |
| `_reconcile_broker_positions`, `_reconcile_open_trade_rows` | `ReconcileFill`, `ReconcileDone`, `Purge`, `SyncVolume`, `SettleRow`, `PollOnly` |
| crash, then `_restore_positions_from_db` | `Restart` |

`Exit` is what all of them together promise the ledger, in two variables: the shares
leave one by one (`Sell`); the row stays OPEN until the last has left, may then ask for a
reconciliation by hand (`Refer`), and once CLOSED stays so (`Close`). An order that sells what is no
longer there breaks the promise (`Break`), and only then. `PositionExit` implements it
(`ImplementsExit`, also proved) with `Left` and `Outcome` for the two variables; only the steps that
fill an order or write the row are visible in `Exit`, the others are stutters.

`PositionExit` leaves open what asks for an exit. `Trail` models that side: the
monitor's cycle, the heartbeat of `mind_ultrathink.py` (`Judge`), `ExitIntelligence`
(its five protocols), the stop they move, and the suppressions of the resolver,
with prices counted from the entry in units of the risk.

### Entry, Bracket and Consensus

`Entry` is the way of one symbol from the scanner to a bracket: hand-offs, the
phantom probe, the task and its gate, `initiate_trade_lifecycle` and
`_execute_decision` split at their awaits, the order shield, the polarity shield,
`place_bracket_order`, faults at every await, lost signals and restarts. `Bracket` is
what it promises the broker: one bracket at a time, placed whole, its children
awake when the parent fills, its side never changed. `Entry` implements it
(`ImplementsBracket`, also proved). `Entry` leaves out `purge_completed`
(`sovereign_task.py:349-384`), which forgets tasks that gate nothing any more.

`Consensus` is one vote after the other: Agent A, the assembly of eleven votes with
the parallel tier and the dictatorship of a sure Agent D, the early exit, the
fallback, the decision, and the promotion of near misses. `Voters` and `Patterns` are
how the voters get there (below). The optional twelfth voter and the Rust engine
are left out.

### Freeze, DeadMan, DeadLetter, Guardian

`Freeze` joins the oracle's loop, the bus with its priorities, the listener, the run
loop, the monitor, the streak of losses, a remote override and a restart. `DeadMan`
splits `check_timeout` at its awaits; `due` keeps what it knew before them; `Relaunch`
is the supervisor in `main.py`. `DeadLetter` is the queue whose only consumer also puts
into it, with `join`'s count. `Guardian` has two engines and two helpers that run at
any time and interleave between their accesses to two PID files.

### Lifecycle and Reattach

`Lifecycle` is one process from its first await to its exit. `main` says where `main()`
stands, `shut` where each of the three callers of `shutdown` (signal, request file,
`finally`) stands, `owner` is `_shutdown_task`, `task` each supervisor and its retries. A
step ends at an await; startup may fail at each, a signal may come at each.
`Reattach` numbers the clients in the order in which they connected. The reconnect
loop polls, connects, rebinds the dead-man switch and the connector, and
reconciles, in separate steps, and may crash between two of them and be restarted.
Its trouble is bounded below the five retries of the supervisor, after which the
code gives up the loop.

## Modules of the services

State machines, each split at its awaits or threads:

- `OrderLog`: the broker's orders, the writer threads in flight, the rows, and the
  recovery that compares them after a connection.
- `Terminal`: the one MetaTrader terminal, three places that attach to it, its health
  watch, the agent with its whitelist guard, the hot swap, the book of tickets.
  The guard refuses every order the brain sends, so the success branch of
  `PlaceOrder` is there and never taken.
- `Learning`, `Observations`: closed trades become rows, counts and priors across
  restarts; samples of a market are paired with later ones.
- `Swarm`: concurrent forecasts over one cached consensus, a memory queue and a flash
  answer.
- `Feed`: the pulse, the cascade of price sources, the background sync, the database
  lock, a cancelled store whose thread goes on.
- `Oracle`: headlines, alarms that wake the loop, the synthesis, the saved state, the
  announcement, restarts.
- `Streams`: three specifications, the streamer with its batcher, the QuestDB queue, the
  free quote lane.
- `Console`: two specifications, the sockets of the API and the Telegram remote.
- `Minds`: three specifications, the bridge, the ghost, the circuit breaker.
- `Records`: two specifications, the session file and the audit evidence.

Pure rules, as operators over a question (a record of what the code reads):

- `Sizing`: both sizers, budgets, the best-day rule, the checks of an order.
- `Calibration`: what Agent D computes from trades.
- `Patterns`: the chart detectors of Agent A over sequences of bars.
- `Backtest`: the simulated trades of a figure and the gate before an order, the windows of
  the engine and their verdicts, the first phase, the promotion from the paper account.
- `Voters`: how agents A, B and E, the interrogator, the governance, the adaptive
  streak, the quantitative signals and the router decide.

Fractions are thousandths, money is cents, and a floating-point result is rounded
down to them. A language model's answer is an input.

### How they are put together

`MCProgress` and `MCServices` hold the components whose states are disjoint: `part`
names the one a behaviour is about, its actions run, and the others keep still.
This is sound because no module of a group reads another's variables, and it keeps
one state space the sum of the parts and not their product. `MCProgress` has the
parts whose promise is that something ends; `MCServices` the others, the vote of
`Consensus` among them. The parameters of the parts are constants of the two modules:
`MCProgress.cfg` and `MCServices.cfg` give them small values, the theorems leave them open.

`MCRules` asks the pure rules: the sets of questions are constants (`QuestionAssumption`
says what they may be, `MCRules.cfg` gives them the values `SomeSizes`, `SomeCharts` and so on). It
states named assumptions,
which TLC evaluates for all of them before the run begins (for example
`PassedIsNoBarrier`, `UnknownPasses`, `BacktestsDoNotPeek`). `MCServices` and `MCProgress` state
further ones about the rules inside their modules (`FailuresAreLocal`, `BooksBalance`,
`FramesAreAPrefix`, `BatchesAreMeans`). Where a question leads to an answer that matters
for trading it is a state as well: a behaviour asks one question, `Reply` answers, and
`SizesAreBounded` and `VotersKeepLimits` judge.

## What is checked

| Run | Size | Shows |
|---|---|---|
| `trading_risk` | 2 threads (symmetric), 6 account values; 830 thousand states | `GateSound`, `RestrictionHolds` |
| `loss_tracker` | 12 slots a day, 7 days, 5 positions, 1 symbol; 440 thousand | `LossesHalveSize`, `LockEndsProperly` |
| `position_exit` | 3 shares, 3 strikes, 2 order slots; 840 thousand | `OneWorkingOrder`, `ExitOrderGuarded`, `ClosedMeansSold`, the refinement `ImplementsExit`, and the liveness property `FlatRowSettles` |
| `entry` | 2 lifecycles, 2 bracket slots, faults and the probe; 444 thousand | `OneVetAtWork`, `PendingIsWork`, the liveness property `PendingEnds`, the refinement `ImplementsBracket` |
| `guardian` | 2 engines, 2 helpers, one fault; 472 thousand | `OneEngineUnlessLost`, `EngineIsGuarded`, and the liveness properties `HelpersConverge`, `CrashIsAnswered` |
| `freeze` | streak 3, 1 command, 1 restart; 343 thousand | `ThawIsEarned`, and the liveness properties `StopReachesBrain`, `CalmReachesBrain` |
| `progress` | see `MCProgress.cfg`; for the dead-man switch 2 agents, timeout 2, grace 1, hour 4, lock 6 ticks, 2 launches; 392 thousand | `JoinCoversWork`, `GivingUpHalts`, `ShutdownIsOrderly`, `SessionIsServed`, `StreamsCount`, `FlattenHasCause`, and the liveness properties `OrdersAreSettled`, `ShutdownEnds`, `OutageEnds`, `QuestDrains`, `DangerIsAnswered` |
| `services` | see `MCServices.cfg`; every assembly of the vote, cycle after cycle; 809 thousand | `SafetyNoHolds`, `TierNoHolds`, `RecordsAgree`, `LearningIsHonest`, `NewsIsHeard`, `WatchersHold`, `StepsAreEarned` |
| `decisions` | the questions of `MCRules`; 60 thousand | `SizesAreBounded`, `VotersKeepLimits` |

The properties of `progress`, `services` and `decisions` are made of properties that the modules state
and explain:

| Property | Says |
|---|---|
| `ShutdownIsOrderly` | of any number of callers one runs the sequence, nothing is started after it, the brain has one main loop, an orderly exit is on record (`Lifecycle`) |
| `SessionIsServed` | a session that is up serves every consumer and its positions were reconciled (`Reattach`) |
| `StreamsCount` | pushed ticks are batched, waiting, in flight or lost with a cancelled task; unfinished lines are those queued and those in the worker's batch (`Streams`) |
| `RecordsAgree` | an order marked for manual reconciliation is over at the broker (`OrderLog`); the guarded lane opens nothing (`Terminal`); what a start thaws was frozen whole (`Records`); a row is repaired from its own fills (`Records`) |
| `LearningIsHonest` | no rate is answered before the trades are there, and a process counts clean trades only, each once (`Learning`); observations are settled with a sample of the right minute (`Observations`); an answer is about the symbol that was asked about, and only debates that were held are remembered (`Swarm`) |
| `NewsIsHeard` | one writer at a time, and a calm report means fresh prices (`Feed`); an alarm that woke the loop leads to a synthesis, and an inherited freeze is judged again (`Oracle`) |
| `WatchersHold` | an address holds no more sockets than it may, and every queue has an endpoint that takes it away (`Console`); no update is acted on twice in one process, and no more wrong PINs are looked at than the window allows (`Console`); the ghost resets the gateway only after two probes in a row that failed (`Minds`) |
| `SizesAreBounded`, `VotersKeepLimits` | the rules of `Sizing`, `Calibration`, `Patterns`, `Voters`, `Backtest`: caps at the end of the chain, weights, stops behind and targets before the entry, a sector below its share, two voices for an approval |
| `StepsAreEarned` | a stop never loosens and a breach asks for an exit (`Trail`); a settled observation stays (`Observations`); "connected" is written of the own account only (`Terminal`); the breaker trips for enough failures within its window (`Minds`) |

Why the bounds are enough. Account values meet the three ranges of the threshold
scale and every level of both ladders; two threads give every pair of interleaved
calls. Two-hour slots put 08:00, 09:45 and four hours of decay on slot boundaries;
five positions reach the audit. Three shares make a partial exit, a partly filled
exit and a rest; two slots hold the stop and one exit; three strikes are the code's
number. The lock of the dead-man switch outlives a silence and a grace period, so a
second flattening meets it fresh, stale or not at all. Two lifecycles meet in every
pair of awaits, and a second bracket needs a second slot. In `Freeze` the counts are
the code's shrunk in their order (`Lock < Streak`). Two engines and two helpers make
every race of two claims; `Budget` bounds the faults, `Most` the silence. The dead-letter
queue has two places for four orders, so that the worker meets a full queue.
`Lifecycle` has a critical and an ordinary supervised part and two retries (the code
counts ten, and does the same at each). `Reattach` loses two sessions, so that a
client is lost while its successor is being bound. `Streams` cancels two rounds, and
its database goes and comes twice. `MCServices.cfg` gives every service two of what may
collide (orders, symbols, askers, writers, headlines), three clients for two slots
and three calls of a breaker that trips at two; a queue has one place, a counter
reaches its limit. `Reach` in `PositionExit` and `Entry` bounds how far the broker position
goes. The constants whose comment begins with "bound" are the bounds.

Each property has a mutant: a changed form of a definition of the code, defined next to
it, under which TLC finds the property violated. Further changed forms stand in the
modules beside what they change; they were run in the same way.

Deadlock is checked in every run except `progress`, `services` and `decisions` (`CHECK_DEADLOCK FALSE`): a
process that was shut down, a question that was answered and a service whose bounded
inputs are used up do stop, and the bridge of the minds stops for good once the
mailboxes that nobody reads are full, as the code does (`BroadcastReturns`, below).

Type invariants: those of the proved modules are theorems and were model-checked
before; those of `Lifecycle`, `Reattach`, `Trail`, `Learning` and `Observations` are conjuncts of the
runs' invariants.

### Fairness

- `FlatRowSettles`: position messages arrive, the run loop keeps polling and finishes what
  it began, and the database does not refuse its writes for ever. Strong fairness,
  because restarts may interrupt any number of times, but not always before the same step.
- `DangerIsAnswered` (`DeadIsFair`): time passes and the monitor goes on. Telegram and IBKR are awaited
  with timeouts (`dms.py:135`, `447`, `480`); a call of the MetaTrader library runs in a
  thread without one and is assumed to return.
- `PendingEnds`: a lifecycle that has begun goes on, since each of its awaits has a timeout
  or a failure, and a handed-off signal is taken up.
- `HelpersConverge`, `CrashIsAnswered`: every live process takes its next step, and the
  heartbeat file ages. A hung process is a state, not unfairness.
- `StopReachesBrain`, `CalmReachesBrain`: the oracle, the listener, the run loop, the vets and
  the monitor go on; nothing is assumed of losses, commands and load.
- `OrdersAreSettled`, `ShutdownEnds`, `OutageEnds`, `QuestDrains`, `DangerIsAnswered` state the fairness of their part
  as a premise (`LettersAreFair`, `LifeIsFair`, `LinkIsFair`, `QuestIsFair`, `DeadIsFair`), so that no promise is
  checked under the fairness of another. `LifeIsFair`: main and each caller of `shutdown` go
  on, every wait in them having a timeout; signals and requests need not come.
  `LinkIsFair`: the reconnect loop goes on (its supervisor restarts it) and the brain ends
  its start; the gateway need not stay, the promise is about one that does. `QuestIsFair`:
  the worker goes on; the database need not come back.

## Disagreements found

Each is a run that TLC must find violated, quoting the repository.

- `AcceptedIsTracked`: the NameError at `coordinator.py:1929` ends the lifecycle after the
  broker accepted the bracket; the position is neither tracked nor logged.
- `StopsCost`: `r = (stop - entry) / risk  # negative` (`backtester.py:157`); no figure has a direction, all
  are simulated as purchases (`213`), and a falling one that was stopped gains one risk in the
  gate before its order.
- `StreakKeepsMonitoring`: "protective monitoring remains active" (`brain.py:1093`); five
  losses freeze the run loop before the line that starts the monitoring.

### Seen in the code and kept by the models, without a run

Some of these have a definition in the module, named here, that TLC refutes.

Trading core.
- The recovery of one account activates trading that the other halted with "Manual
  review required" (`brain_state.py:140`, `150`).
- `allow_order` reads the state twice (`trading_state.py:90`, `93`): between REDUCING and
  HALTED an entry slips through.
- Nothing reads the high-water mark back (`brain_accounting.py:234`, `session_restorer.py:267`).
- The sizer clamps a forbidden size to one half (`agent_c_ibkr.py:1795`), and cutting the
  risk can enlarge an order of a thin book (`1792`).
- Once no position is open, nothing runs the reset of a locked tracker (`brain_state.py:331`).
- `ExitNeverReverses`: the polarity guard lets an exit pass when the broker is already flat
  (`brain_execution.py:48`, `77`), and turns the position short. After a reversal the
  ghost `reversed` is set, `ClosedMeansSold` says nothing, and `Exit` counts the promise as broken.
- The reconciliation does not defer to the resolver (`brain_reconcile.py:340`).
- With `exit_triggered` still set the monitor never looks at a position again
  (`brain_position.py:837`); the flatten of 15:55 skips it too (`205`).
- A failed lifecycle leaves its task RUNNING and its gate closed (`coordinator.py:266`).
- No line ends a resume incident of the dead-man switch, its lock file is never removed,
  and `flatten_executed` says that the attempt ended, not that anything was sold.
- A dictatorship leaves no real majority in the vote (`resilience_layer.py:364`).
- An empty PID claim is never reclaimed; a claim is checked and then created in two
  steps, though `README.md:135` names `O_EXCL`.
- A panic followed by `_handle_emergency` sells `int(pos.qty)` again (`brain_position.py:562`).
- Messages of priority 10 and 15, the operator's panic and the oracle's state, may be
  dropped (`intelligence_bus.py:374`).

Process and session.
- A signal during `async_init` starts a shutdown, and startup goes on beside it; the request
  listener overwrites `_shutdown_task` (`main.py:2821`); a fatal error inside `shutdown` never
  sets the event (`3107`).
- A supervised part that "finishes" ten times ends silently (`main.py:2727`).
- `HooksOnce`: rebinding a client registers the callbacks twice (`main.py:1607`).
- `LineageIsKept`: the lineage of orders is wiped before the recovery (`agent_c_ibkr.py:819`); an
  unconditional UPDATE may override 'Filled' (`496`).
- `BookIsKept`: the emergency clears the MetaTrader book although its closes failed, and an
  error of the terminal looks like an empty account, which purges the tickets.
- `RatesSurvive`: three writers freeze different contents, the last one wins
  (`brain.py:1208`, `main.py:2680`, `brain_accounting.py:251`).
- `CommissionsCounted`: commissions logged after a crash are never counted once the row is
  audited; twin intents are never repaired.

Agents and data.
- `BroadcastReturns`: `broadcast` awaits `put`, so the QueueFull branch that drops is dead
  (`mind_bridge.py:87`), and the two mailboxes nobody reads stop every speaker.
- `ScentCallsOff`: the ghost does not look again after its wait (`mind_ghost.py:201`), never
  recognises a success, and its retries grow.
- `OneProbe`: several calls probe in HALF_OPEN; a late success of an old call closes it.
- `VetoContradicts`: the veto of the swarm may contradict its own bias
  (`swarm_predictor.py:72`); flash memory answers any symbol; the cache ignores the side.
- `FreezeIsObeyed`: a failure between the freeze and the state leaves subscribers with half
  of it; a VIX that is unknown counts as 15 (`dhatu_oracle.py:1946`).
- `SlotsAreExact`: a slot counted before a failing handshake is never given back
  (`api_server.py:479`). After a restart the remote acts on an unacknowledged command again.
- `LaneEndsAtOnce`: the cooling of the quote lane sleeps in its `finally` (`tv_quote_streamer.py:482`).
- `df.tail(k).to_numpy()[-1]` is the newest value whatever `k` is: five figures of Agent A can
  never be found (`Unreachable`), and sector sympathy never shows (`agent_a.py:812`).
- The interrogator is asked with no sample (`coordinator.py:764`) and passes nobody; Agent B
  has no bars (`coordinator.py:946`) and always says YES; neither HIGH ENTROPY report of
  Agent D can be reached (`agent_d.py:940`, `1156`).
- The best-day rule exists three times, the one of the MetaTrader lane being the loosest
  (`agent_a.py:250`, `agent_c_mt5.py:276`, `coordinator.py:278`).
- A restart counts dynamic priors and all rows, dirty ones included (`agent_d.py`), which is
  why `LearningIsEarned` speaks of what is used and not of what is counted.
- A cancelled store gives back the lock while its thread goes on (`data_pipeline.py:1604`); the
  staleness veto has no consumer (`1256`). With QuestDB enabled its latest row, however
  old, is stored again and stamped as a fresh pulse (`446`, `1246`): `CalmIsReal` then fails,
  which is why `NewsAreHeard` assumes `~Quest` and the run sets it.
- A figure that never lost has the factor 0 and is refused, one loss more and it passes
  (`OneLossIsNeeded`, `backtester.py:62`); the thorough validation passes nothing, and a verdict on bars that
  were handed over answers for the stored ones (`HandedBarsAnswer`, `backtest_validator.py:142`).
- The engine fills a stop at the stop however far the market opens beyond it (`GapsCostNothing`,
  `backtest_engine.py:381`); the first phase refuses a p that rounds to zero (`ZeroIsRefused`, `576`) and
  asks a majority of the symbols that had bars (`665`).
- A paper loss whose amount cannot be read is left out, and the promotion does not ask how
  many were (`UnreadLossesAreForgotten`, `paper_performance.py:145`).
- The evidence report counts a complete bracket as overfilled (`execution_evidence.py:166`).

## What is proved

TLAPS proves, for every value of the constants allowed by the named assumptions:

| Module | Theorems | Assumptions |
|---|---|---|
| `TradingRisk_proofs` | `TypeCorrect`, `GateIsSound`, `RestrictionsHold` | account values and capital positive, `NativeLib` Boolean |
| `Risk_proofs` | `TypeCorrect`, `EscalationHolds`, `LocksEndProperly`, `SizesAreHalved` (`LossTracker`) | the calendar's slots lie inside the day and the week |
| | `SizesStayBounded` (`Sizing`, `Calibration`) | `QuestionAssumption`: the questions are numbers of the kind the code passes, weights in their bounds |
| | `VotesStayKept` (`Patterns`, `Voters`, `Backtest`) | `QuestionAssumption`: a chart is a sequence of bars whose prices are positive and whose low and high enclose open and close |
| | `LossesOpenNoBudget`, `PropRuleIsTheLoosest`, `MarginEatsTheCushion`, `MoreAtStakeIsVetoed` (`Sizing`) | none: each ranges over all values |
| | `FearShrinksTheRegime`, `WorseRatesVoteNo`, `AuditsAreNeverCrowded`, `EntropyIsNeverCalledHigh` (`Calibration`) | none |
| | `SurerProposalsStay`, `SuccessIsNeverPunished` (`Voters`), `NobodyEverFollows` (`Patterns`) | none |
| `PositionExit_proofs` | `TypeCorrect`, `OneOrderWorks`, `ExitsAreGuarded`, `ClosedRowsAreSold`, `RealizedExitsStay`, `ExitIsPromised` | at least one share, one strike and one slot; `Reach >= Shares` |
| `Entry_proofs` | `TypesHold`, `OneVetWorks`, `NobodyIsShutOut`, `OneBracketAtATime`, `EntryImplementsBracket` | at least one slot, `Reach` positive, names apart |
| `Freeze_proofs` | `TypesHold`, `ThawsAreEarned` | positive thresholds, natural budgets |
| `Guardian_proofs` | `TypeCorrect`, `ClaimsHold`, `EnginesStayApart` | engines, helpers, the ghost and the two words for "no PID" are apart; natural bounds |
| `MCProgress_proofs` | `TypesHold`, `JoinIsExact`, `NoSilentLoss`, `RoomFreesTheWorker` (`DeadLetter`) | room for one order, at least one attempt |
| | `SessionServed` (`Reattach`) | natural bounds, at least one client id |
| | `ShutdownOrderly` (`Lifecycle`) | the dead-man switch is supervised, the brain is not among those parts; at least one restart |
| | `StreamsCounted` (`Streams`) | queues and batches of at least one |
| | `DetectionsAreAlerted`, `FlatteningsHaveCause` (`DeadMan`) | the primary agent is critical, timeouts positive, the hour longer than the timeout |
| `MCServices_proofs` | `SafetyNoIsObeyed`, `TierNoIsObeyed` (`Consensus`) | none |
| | `RecordsDoAgree` (`OrderLog`, `Trail`, `Terminal`, `Records`) | prices integers, the risk a positive multiple of 20, lots positive, "nobody" no bracket |
| | `LearningStaysHonest` (`Learning`, `Observations`, `Swarm`) | finitely many keys, thresholds and minutes natural, room for one debate |
| | `NewsAreKept`: all of `NewsIsHeard` but the calm (`Feed`, `Oracle`) | `Limit < Old` |
| | `NewsAreHeard` (`Feed`, `Oracle`) | QuestDB is not enabled; `Limit < Old` |
| | `WatchersDoHold` (`Console`, `Minds`) | finitely many clients; limits, windows and thresholds positive |
| | `StepsDoEarn` (`Trail`, `Observations`, `Terminal`, `Minds`) | as above |

`PositionExit`. `ClosedMeansSold` is not inductive: a row is closed by a task that looked
at the broker earlier. `IInv` adds what makes the look still count. `ResolverAlone`: from its
look at the pending orders to its own order the resolver has the position to itself,
and while it waits only its order works; this needs the flag, which `ExitsCounted` ties to
every working exit together with the strikes left. `FillsBounded`: an order fills no
more than its size. `StillLong`, until the first reversal: nobody believes less than what
is held, every order sells, a full exit is as large as what is held. `ClosedIsFlat`: who is
about to close the row saw the broker flat, and flat stays flat while nothing buys.
The refinement `ExitIsPromised` goes through the steps by what they write (`RowMoves`, `FillsSell`,
`OthersHold`): a step that writes the row is taken by one who saw the broker flat or who logs
an exit that `ClosedIsFlat` covers (`WritersSawFlat`), so `Refer` and `Close` find nothing left; a
fill sells one share until the reversal, and the reversal itself is `Break`.

`Entry`. `IInv` is `TypeOK`, `TaskIsCarried`, `PendingIsWork`, `ShieldHolds` and `OneBracket`. `_pending_vets`
alone does not keep two vets apart, because the probe claims without asking and every
end discards: a task that is RUNNING is carried by exactly one lifecycle
(`TaskIsCarried`), and the scanner's gate asks the task. From the shield's look to the
order no await lies between (`ShieldHolds`), so brackets come one after the other. The
refinement follows: each step of `Entry` is a step of `Bracket` or leaves it alone.

`Freeze`. `Announced` and `Flagged` tie the freeze on its way and the brain's flag to the verdict
that caused them. `DeadLetter`. What `join` waits for is counted exactly;
`RoomFreesTheWorker` is the condition under which the worker cannot block on itself.

`Guardian`. What keeps two engines apart is not the file but what is remembered of it.
`RawsAreDead`: a PID that was read belongs to a dead process, and stays with it, since no
new process gets a PID that is still mentioned; so a removal that hits the text that
was read hits nobody alive. `Claimed`: what an engine created or wrote in `main.pid` is there
for as long as it lives. Both hold until the ghost `lost` records one of the two flaws, for
any number of engines, helpers and faults; `BlanksAreDogs` says that an engine never
takes the empty file of a claim in the making for a stale one.

`MCProgress`. Every part has an inductive invariant of its own, and a step of the whole is
a step of one part that leaves the variables of the others alone (`StepsApart`), so the
invariants hold side by side for all values of all constants.
`Reattach`: the connector and the dead-man switch are on the last client once startup is over
(`Followed`); the loop probes, binds and reconciles in an outage only, and an outage ends
with the positions known and the callbacks registered (`Declared`); a client that lost its
session never has it again, so clients are counted by the drops (`Counted`). `Lifecycle`: the sequence of `shutdown` belongs to
the caller that holds `_shutdown_task` (`Owned`), each of its steps leaves the parts before
it stopped (`Stilled`), the brain's loop has one task (`Looped`), and the database
is closed when the sequence finishes (`Written`); only `async_init` raises `is_running` again,
which the ghost `late` records and `OneShutdown` excepts. `Streams`: `TickInv` counts the ticks
of each symbol by where they are (batch, snapshot of a round, published, gone), `QuestInv` the
lines in the queue and in the hands of the worker. The counts are sums over the symbols;
that a sum changes by as much as one of its terms is proved from the recursive definition
of the fold, by a least counterexample over the finite subsets (`LeastSubset`, `SumChanges`).

`MCServices`. The parts are proved as those of `MCProgress` are, side by side.
`Consensus`: `Assembled` says what the assembly holds when the engine is asked, `Obeyed` and
`Objected` carry a NO through the dictatorship, the decision and the promotion.
`OrderLog`: an order that the recovery will mark was over at the broker when it was asked, and
what the broker ended stays ended (`OrderInv`). `Records`: a row meets the fills of its own
intent only, since the match asks for the id (`TheMatchIsItsOwn`), and the report counts every
intent once (`TheReportAddsUp`). `Learning`: `Earned` ties the matrix in use to the trades
counted, or to the sum of the table that a restart reads; the lemmas about sums are those of
`MCProgress`. `Observations`: `Paired` says that a sample is paired with a later one, neither too young nor
too old for its horizon, and the pairing of a settled sample never changes. `Swarm`: `SwarmInv` ties
the numbers of the memory to the debates that were held, those waiting to be stored included.
`Feed`: `FeedInv` says who holds the lock (`Writing`, for every `Quest`), and that without QuestDB
a price is as old as the pulse that stored it (`Unqueried`). `Console`: an endpoint that is not "out"
holds its slot (`Seated`), and a writer or queue belongs to an endpoint that was accepted
(`Served`); updates wait in the order of their numbers and none beyond `last_update_id` was acted on
(`UpdatesInv`); no wrong PIN on record is younger than the last try, so that when the lock has run
out they all have (`PinInv`). `Minds`: no more failed probes are on record than failed in a
row; the failures of a closed breaker are the last of the failed calls since it closed,
in order of time, so what is left of them after the old ones are taken away lies within
the window (`BreakerInv`, `RecordedIs`).

`GateSound` rests on what an undisturbed call has read so far at each of its steps;
`RestrictionHolds` on what each pending half of a write will still restore.
`FlattenHasCause` could fail only at `Alerted`, which decides with an age taken before its
await; `DetectedIsAlerted` with `DueIsIncident` shows that an alert that finds the grace period
over is an incident's. `EscalationMatches` is inductive once the age of the last loss is tied
to the count.

`Risk_proofs`. The sizing chain is a sequence of roundings, each of which could turn an order
around: the proof follows the budget of a question and of the same question without
losses through all of them. Rounding half to even keeps an order (`RoundedGrows`),
the reduction for losses only lowers the budget (`BudgetShrinks`, the audit of the smaller
budget included), then the lift to the smallest trade worth its costs and the cap keep the order of
two risks (`WantedGrows`, `AllowedGrows`); only the halving for depth may break it, which is why
`SizesAreBounded` excepts it. One step of a weight stays within bounds whatever the rate
and the distance in the past (`StepIsKept`), so all weights do. The proof needs the guard of
the code that a Kelly fraction counts only for a positive ratio of reward to risk.

`VotesStayKept` needs for every detector of Agent A what orders its stop, entry and target on
every chart. Sums are those of the recursive fold (`TotalsExist`, `TotalsAreAll`: its equation has
one solution; `TotalsLose`: whichever term is taken away, the sum loses as much), extremes of
finite sets exist and bound their elements (`ExtremesAre`), and a window holds bars of its chart
(`NewestIs`, `RangeIs`). Then each detector has its lemma (`WallIsDrawn`, `VcpIsDrawn`, ...) that its
guard leaves a positive risk and a positive reach; five are blind, since the bar they
compare with is the newest itself (`FlagsAreBlind`, `HeadsAreBlind`). The proof found the one
that is not ordered: the entry of a cup lies a thousandth above its handle, the target
its depth above it, so the target of a handle that soared fiftyfold and more lies below the entry;
`FigureHolds` excepts exactly that (`Soared`, and `SoaredCupsTurn` shows it). The votes: Agent E
sums over the positions and the one proposed (`OneMoreCounts`), the governance counts two
different voices, the interrogator is refused by its own sample count.

The other theorems about rules say for every value what the assumptions of `MCRules` and the
list of what was seen in the code say for a few. `EntropyIsNeverCalledHigh` is tight: the worst trend, a week and a
falling record reach -1177, and HIGH ENTROPY begins below -1200. `AuditsAreNeverCrowded` rests on
the slope of a constant sequence (`FlatSlope`: its partial sums are k * (k - n)), `SurerProposalsStay`
on an edge that only grows with the reward (`EdgeGrows`), `SuccessIsNeverPunished` on (c + 1) / (n + 1)
being no smaller than c / n when rounded down (`QuotientOfMore`).

Only model-checked: all liveness, which is out of the prover's reach under fairness
(`FlatRowSettles`, `PendingEnds`, `EngineIsGuarded`, `HelpersConverge`, `CrashIsAnswered`, `StopReachesBrain`,
`CalmReachesBrain`, `OrdersAreSettled`, `ShutdownEnds`, `OutageEnds`, `QuestDrains`, `DangerIsAnswered`); the
named assumptions about rules that no theorem repeats, among them those that a
theorem cannot reach (`NewsAges` halves by a power of two, `KalmanGoesOn` and `LastBookDecides`
recur over sequences) and one that the rounding to thousandths makes false between the values that
are asked (the second half of `FearVetoes`); and the refutations. Every invariant of a passing run is a
theorem, and so is every action property and refinement; two have conditions: `NewsAreHeard`
assumes that QuestDB is not enabled, `VotesStayKept` has the exception in its property.

## Not modelled

- The content of prices, models and messages: what a language model, a provider or a
  broker's algorithm answers is an input. Inside rules, floating point is rounded down
  to thousandths, so a tie at the last digit may differ.
- The flattening of IBKR positions by panic and emergency, MetaTrader entries (refused by
  the guard), shadow trades, adoption of foreign positions (switched off).
- Relay queues and sockets between processes on the bus, REST endpoints apart from
  the state and health, dashboards, alerts.
- The news and research loops, the feature engine, the schema; `rules_engine`,
  `vix_circuit_breaker`, `bayesian_oracle`, `debate_engine`, `pattern_evolution`, whose answers are
  inputs of the scanner or unused.
- Code without callers: the healing tools of `mind_system.py`, `reconcile_with_broker`, the
  regime stop engine, the local extensions of `resilience_layer.py`. The circuit breaker is
  modelled although only an unused import reaches it.
- The sized variant of a simulated trade, generated bars, the shadow and market simulators;
  p values and Sharpe ratios of the engine are given.
- Native and Rust components, contracts, scripts, hardware, mobile.

## What is left

1. The flattening by panic and emergency over the positions of `PositionExit`: nothing is
   sold twice, nothing is forgotten.
2. Theorems about the windows of the backtest engine and the calibrated exits for every history.
3. Duplicate rows and the adoption of foreign positions in the reconciliation.

## Running

`tlc -config MCServices.cfg MCServices.tla`, and so on for the other configurations
(`MCPositionExit.cfg` is one of `PositionExit` itself);
`tlapm Entry_proofs.tla` for the proofs. `PROJECT.json`
lists the runs, the mutants, the source lines of every definition, the hazards and the
theorems.
