# KeryxFlow in TLA+

KeryxFlow (`src/keryxflow`) is a trading program. One asyncio event loop runs an
engine that trades on signals, an agent that trades through tools, a terminal and
an HTTP API; all of them share an event bus, a paper account in SQLite and a risk
layer. These modules say what that program does where it is hard to test: at the
awaits, where one coroutine reads something, waits, and goes on with what it read.

Contents: [the system](#the-system) · [the modules](#the-modules) ·
[the runs](#the-runs) · [the proofs](#the-proofs) ·
[what the code does otherwise than it says](#what-the-code-does-otherwise-than-it-says) ·
[what is not modelled](#what-is-not-modelled) · [the plan](#the-plan) ·
[running it](#running-it)

## The system

| Component | State it keeps | Operations | Hard behaviour | What makes it correct |
|---|---|---|---|---|
| Event bus, `core/events.py` | subscribers, a bounded queue, `_running`, a processor task | `subscribe`, `unsubscribe`, `publish`, `publish_sync`, `start`, `stop`, the processor loop | backpressure, handlers that publish, a stop in the middle of a dispatch, a start before it has returned | serial dispatch, every event served |
| Paper account, `exchange/paper.py`, `core/database.py` | balances, positions, trades (tables); prices (memory) | market order, open, average in, close, close all, price update | check and write in different statements, two transactions for one operation, restarts | the records add up, nothing overdrawn, position = coins |
| Risk layer, `aegis/risk.py`, `guardrails.py`, `portfolio.py`, `quant.py`, `profiles.py` | portfolio entries, day's and week's profit, counters, breaker, day of the last reset | approve an order, add and close a position, daily reset | approval and booking are awaits apart, counters kept twice, reset only on demand | limits hold when booked, mirrors agree, breaker latched, daily halt |
| Agent tools, `agent/execution_tools.py` | none | place, close, close all, cancel, set stop or target | four awaits per order, each may fail | what the portfolio is told is what the account did |
| Engine, `core/engine.py` | `_running`, `_paused`, buffers, time of the last analysis, preload task | start, stop, price, pause, resume, panic, preload | handlers by the bus and a task beside it | a pause and a panic stop what they say they stop |
| Session, `agent/session.py` | a state of seven, a loop task, a shutdown event | start, stop, pause, resume, the agent loop | restarts, failed starts, a loop that watches only its own state | exactly one loop while it runs, a turn for the agent |
| API, `api/server.py`, `webhook.py` | its own `_paused`, client queues | panic, pause toggle, status, event stream | a flag that must follow the engine's, slow clients | flag = engine |
| Terminal, `hermes/app.py`, `main.py` | its own `_paused`, the session | keys, price feed, starts the engine | a flag that follows nothing | the key does what it shows |
| Order manager, `exchange/orders.py` | pending limit orders | place, cancel, check pending | awaits while it walks a copy of the dict | what it promises of an order (RestingOrders) |
| Trailing stops, `aegis/trailing.py` | one stop per tracked symbol | start, update, trigger, stop | forgotten before its close is done, told late of closes | a stop never moves back and goes for a cause |
| Circuit breaker, `aegis/circuit.py` | tripped, losses, streak, the day's start | balance, win, loss, trip, reset | days, cooldown, forced resets | closed means within every limit |
| Task scheduler, `agent/scheduler.py` | tasks with their next run | add, remove, enable, run now, the loop | a dict that changes while it is walked | the next run is the next occurrence |
| Agent, team, tool executor, `agent/{cognitive,orchestrator,base_agent,executor}.py` | tokens, call times, errors | cycles, tool calls | limits checked before an await, counted after | by how much they pass the limits; only the executor trades |
| Agent tools that look, `agent/{perception,analysis}_tools.py`, `tools.py` | the registry | 14 tools | who registers, what fails | — |
| Memory, `memory/*` | episodes, rules, patterns (tables) | record, recall, update | lost updates | no pattern valid on counts nobody observed |
| Strategies and reflection, `agent/{strategy,strategy_gen,reflection}.py` | a catalog, a current strategy | select, generate, reflect | an id registered again | — |
| Candles, `core/mtf_buffer.py` | candles per timeframe | add a price, preload | preload beside live prices | a live candle is what its prices make it |
| Signals, `oracle/{technical,signals,mtf_signals,mtf_analyzer,brain}.py` | the last signal | generate | published before it is recorded, and by the engine once more; a model after the filter | subscribers know the current signal |
| News, `oracle/feeds.py` | a cached digest | fetch, serve | overlapping fetches | what is served was recent for the fetch that brought it |
| Live mode, `exchange/client.py`, `core/safeguards.py` | a client, the balance told | checks, balance, orders | lost answers, retries, two coroutines that order | one order per approval |
| Backtester, `backtester/*` | account, positions, the shared risk manager | runs, stops, liquidation | one manager for all runs | counts and account follow the trades |
| Optimizer and walk-forward, `optimizer/*`, `backtester/walk_forward.py` | the settings of the process | grid search, validation | failures, cancellation | tested on unseen data, settings restored |
| Grid strategy, `strategies/grid.py` | pending buys, counters | initial orders, fills, break-out | fills in any order | every cell keeps an order |
| Outbound, `api/server.py`, `notifications/manager.py` | a queue per client | enqueue, send, notify | slow clients, overlapping dispatches | a client gets the newest, in order |

How they interact: `publish()` puts an event in the bus's queue and the processor
awaits the handlers of one event before it takes the next. The engine's handlers,
the agent loop, the preload task and the API's requests are coroutines that call
the risk layer (synchronously: atomic) and the paper account (every SQL statement
an await) directly. Nothing holds a lock, except SQLite while a transaction has
written. The hazards this creates are in `PROJECT.json`, each at its line, with the
property that would catch it.

## The modules

**EventBus** (`core/events.py`). State: subscribers, queue, `_running`, one state
per processor task ever created, the handler calls of each dispatcher, and what
each producer waits to put. One action per method: `Subscribe`, `Unsubscribe`,
`Start`, `Stop` (lowers the flag and cancels the task) and `StopReturns` (the task
has ended), `Publish` and `PutResumes` (`await put()`: at once, or when there is
room), `PublishSync`, `TakeEvent` and `DispatchDone` (one round of
`_process_events`), and `CallPublishes`, `CallEnds` for what a handler does inside
`_safe_call`: publish the events of its script and return or raise at any point.
Between `Stop` and `StopReturns` the handlers of the cancelled task unwind one by one,
and `Start` may create the next task. The program wants Python 3.12
(pyproject.toml:17), where `wait_for(queue.get())` runs in the processor's own task:
an event is taken or stays queued, and a timeout of the poll is a step that changes
nothing. The order of the queue is then asyncio's and no property is spent on it;
which of two blocked producers goes first is left open.

**PaperLedger** is the abstract account: a buy or a sale takes cash and coins and
writes the trade in one step, and only when they are there.

**PaperTrading** (`exchange/paper.py`). Cut at the awaits. A SELECT is one action
(`ReadBalance`, `ReadPosition`, `LookUp`); from its first write to its commit a
transaction is one action (`Book`, `InsertPosition`, `AverageIn`, `Remove`), because
SQLite lets one writer in. `Fill` writes balances computed from what was *read*, as
the code does: that is how an update gets lost. `NextListed` and `CloseAllReturns`
walk the list of `close_all_positions`, which ends at the first exception.
`Interrupt` is a cancelled task or an exception at an await, `Restart` a crash:
memory goes, tables stay. `anomalies` names what went wrong so far, so that the
properties can say exactly which anomaly breaks which promise. The slippage, a
percentage in the code, is a number of ticks; the code charges no fee.

**Aegis** (`aegis/*`, the tools, the engine's signal path). `Decide` is
`approve_order` with all its refusals in their order and its side effects (the day's
reset, the breaker). `ToolAsks`, `ToolFills`, `ToolOpens`, `ToolBooks` are the
awaits of `place_order`; `SignalAsks`, `SignalFills`, `SignalSyncs` those of the
engine; `ToolCloses` and `ToolReports` those of `close_position`; `CloseAllCloses`
and `TrailingCloses` are the closes nobody reports to the portfolio. The account is
here at the grain of a call. Side conventions are the code's: the tool passes
"buy" and "sell" where the portfolio knows "long" and "short". The two read awaits
at the end of a signal (positions, then balance) are one step, the panic handler's
overwriting of the mirrors is not here, and the reward-to-risk test of a take
profit is left out (a test of the request alone).

**TradingControl** (`core/engine.py`, `agent/session.py`, `api/server.py`,
`hermes/app.py`). Who may trade. The bus is one queue and one event being handled.
`TakePrice`, `TakePauseOrResume`, `TakePanic` begin a dispatch with what the
handlers do before their first await; `SignalOrders`, `TrailingStops`, `PanicLists`,
`PanicCloses`, `PriceDone`, `PanicDone` are what they do afterwards. The rest are
the keys, the requests, the start and stop of the engine (the API goes first, the
subscriptions last), the preload task and the session with its loop. `Trades` is an
order or a close, by whoever is allowed to; whether the order is approved is Aegis's
matter. `SessionStops` belongs to the session's interface; the terminal itself
never calls it. A tracked trailing stop needs a POSITION_OPENED event, which
the program subscribes to and never publishes: `TrailingStops` is
the handler, for whoever does.

**TrailingStops** (`aegis/trailing.py` with the handlers of `core/engine.py`). The bus
hands over one event at a time from `inbox`. `MoveStop` and `TriggerStop` are the
price handler; `CloseRemoves`, `CloseReports`, `CloseFindsNothing`, `CloseFails` what
comes after its awaits; `TakeOpened`, `TakeClosed`, `TakePanic`, `TakeResume` the other
handlers. `Opens`, `ClosesSilently`, `PanicRemoves` are the rest of the program.
Nothing in the program publishes POSITION_OPENED; here whoever opens does.

**RestingOrders** is what an order manager promises of limit orders: an order rests
until it is withdrawn or filled, and only a check that found it resting fills it.
**AgentOrders** (`exchange/orders.py`, `agent/execution_tools.py`, and the position row
of `exchange/paper.py`) implements it. Each transaction is an action of its own.
`PlaceRests` puts an order in the book; `PlaceMeets`, `ReadsBalance` and `PlaceFilled`
execute one that the price already meets. The tool then opens a position, which executes
the order again: `ReadsBalance`, `OpenFilled`, `OpenReadsRow`, and `OpenInserts` or
`OpenAverages`; `ToolFails` ends it at any of these awaits. `CloseReadsRow`,
`CloseReadsBalance`, `CloseFilled`, `CloseRow` and `CloseRaises` are those of
`close_position()`: the sale is committed, then the row that was read is deleted. An order or a
close that is between its fill and its row (`BetweenWrites`) is why lots and row differ
for a while, and `apart` remembers that they were torn for good: a fill whose row was not written
(`ToolFails`, or the row averaged into was deleted meanwhile), a sale whose row was not deleted,
was sold twice or had changed, a buy averaged with a sale. `Cancel`, `BeginCheck`, then
`SkipOrder`, `TakeOrder`, `FillOrder` and `FillFails` are the book and its walk,
`SetStopChecks`, `SetTakeChecks` and `SetLevelWrites` the tools that set a stop or a
target.
`check_pending_orders()` has no caller in the program; callers are arbitrary.

**CircuitBreaker** (`aegis/circuit.py`), **Scheduler** (`agent/scheduler.py`): one
action per method, time as a clock of minutes or slots; the walk of the scheduler
over its dict ends with an error when the dict's size changed under it.

**AgentCycles** (`agent/cognitive.py`, `orchestrator.py`, `base_agent.py`,
`executor.py`). A cycle asks the model, starts and ends each tool it names, and asks
again. Asking blocks the event loop and is one step; a tool is awaited. What the model
answers is arbitrary: any batch of tools of any category, words, or a failure.

**TradeMemory** (`core/engine.py`, `memory/*`): an entry stored and then linked, an
exit that reads and writes episode, rule and pattern over separate awaits. **Recall**
is what those tables answer, as operators; **AgentTools** the tools that look around,
with the registry, over Recall and Quant. **Learning** is the catalog of strategies,
generated ones and reflections. 

**Candles** (`core/mtf_buffer.py` and the engine): every accepted price in every
timeframe, the preload a timeframe at a time. **Technical** turns readings of
indicators into trends and a confidence, as operators; **Signals** makes signals of
them: filter, model, comparison with the last one, publish, record. `EnginePublishes` is
the engine, which publishes once more whatever signal it got back, significant or not
(engine.py:594); `LacksCandles` is the signal without action of a timeframe that is too short,
which the engine publishes too; `Mtf` says whether the engine filters by a longer timeframe.
The price handler, the preload task and the terminal ask for signals beside one another.
**News** is the cache of `oracle/feeds.py` under concurrent readers. A story without a
date, or with one that cannot be parsed, gets the moment it is read (feeds.py:158, 183), so that
it passes the cutoff at any age; a fetch may take any time, since its timeouts are those of single
network operations and the feeds are asked one after another.

**LiveMode** (`core/engine.py`, `core/safeguards.py`, `exchange/client.py`): the checks
at the start, the balance with its retries, orders whose answer may be lost
(`ExchangeFills` and then `OrderRaises`). Orders are sent by two coroutines beside each
other (`Traders`): the price handler and the preload task, which analyses every symbol
when its candles are loaded (engine.py:300, 445). Each awaits its own order; neither
asks about the other's.

**Backtest** (`backtester/engine.py` with the risk manager of the process; positions
left at the end are closed in the order they were opened),
**Tuning** (`backtester/walk_forward.py`, `optimizer/engine.py`): one action per candle
and symbol, and per window and combination. **History** (loading, resampling),
**Analysis** (simulations, comparisons) and **Quant** (`aegis/quant.py`) are pure.

**GridBot** (`strategies/grid.py`): the initial orders, asked for once or again, and the
fills its caller reports, in any order.

**Outbound** (`api/server.py`, `notifications/manager.py`): the drop-oldest queue of
each WebSocket client and the handler that asks one service after the other.

**MCPlatform** puts the components that share no variable side by side; a behaviour
exercises one of them (`focus`), so that one run has the sum of their states and not
the product. Its `ASSUME`s compare the pure algorithms with reference definitions on
bounded inputs: `DrawdownIsWorstFall`, `SizesRiskWhatTheyMay`, `AtrOfFlatCandles`,
`RatiosAgree`, `RecalledAreMostAlike`, `PagesOverlapByOne`, `ResamplingComposes`,
`CurvesAreSeeded`, `BestIsUnbeaten`. TLC evaluates them when it starts.

Each `MC` module gives the constants of its module values that a `.cfg` cannot
express. Mutated forms of definitions stand before the original; they show, run by
run, that each property can fail.

## The runs

With two workers: `bus` 166 thousand distinct states, `paper` 1.4 million, `aegis` 1.1
million and `control` 1.0 million, about half a minute each; `platform` 1.6 million, two
and a half minutes.

| Run | Property | What it shows |
|---|---|---|
| `bus` | `SerialDispatch` | the handlers of two events never act side by side, also when the bus is started while a stop waits for the handlers it cancelled |
| | `NeverWedged` | while handlers that publish leave room, or do not publish |
| | `EveryEventTaken`, `BlockedPublisherResumes` | progress of the processor and of a blocked producer |
| `bus_wedge` | `NeverWedged` **violated** | a publishing handler meets a full queue: deadlock |
| `paper` | `BooksBalanceUnlessStale`, `NeverOverdrawn` | balances are what the trades add up to, and never negative |
| | `AtomicUnlessStale` | the account implements PaperLedger until an update is lost |
| | `PositionsMatchCoins` | a position and its coins part only in the ways `anomalies` names |
| | `CloseAllComplete` | a close-all that ends leaves none it listed |
| `paper_oversold` | `NeverOversold` **violated** | two closes sell the same coins |
| `aegis` | `PortfolioAddsUp`, `MirrorsAgree` | the arithmetic of the portfolio over entries, closes and resets |
| | `PortfolioMatchesAccount` | portfolio and account part in three ways only |
| | `FreshBookingsKeepLimits` | an approval holds at the booking if nobody booked in between and the fill was not dearer |
| | `BreakerLatched` | the breaker survives midnight and recoveries |
| `aegis_daily_loss` | `DailyLossHalts` **violated** | a day that lost more than its limit goes on trading |
| `control` | `EngineObeysPause` | the price handler cannot be paused half-way, so a flag read once is enough |
| | `FlagsAgree` | API and engine agree on the pause once only prices are queued |
| | `OneLoop`, `AgentGetsItsTurn` | one agent loop per session, over failed starts and restarts, and it gets its cycle |
| `control_panic` | `PanicStopsTrading` **violated** | orders after a panic |
| `control_key` | `PauseKeyToggles` **violated** | the pause key pauses what is paused |
| `platform` | `StopNeverRetreats`, `StopDroppedForCause` | a trailing stop moves one way, and goes for three causes only |
| | `LotsOutsideRow` | whenever no fill waits for its row, the lots that no position shows are exactly the orders that were executed twice or by a check, up to the accidents `apart` names |
| | `KeepsOrderPromise` | AgentOrders implements RestingOrders |
| | `ClosedWithinLimits` | a closed breaker means that no limit it watches is reached |
| | `NextIsNextOccurrence` | next runs are never skipped or repeated by overlapping runs, restarts and changes of the dict |
| | `RateOvershoot`, `BudgetOvershoot` | by how much callers that pass a check together do exceed rate limit and budget, and no further |
| | `PatternEarnsValidity` | lost updates only lose: no pattern is validated early |
| | `CandlesFromTicks` | a candle of live prices is what its prices make it, beside a preload |
| | `HeardIsCurrent` | once no signal is on its way, subscribers know the type and strength of the last one made, and its confidence within two thresholds |
| | `AgainstFilterOnlyByModel` | only a strong recommendation of the model goes against the trend filter |
| | `ServedIsRecent` | a dated story that is served was recent when the fetch that brought it began, over digests that overlapping fetches overwrite |
| | `StreamIsNewest` | a slow client gets the newest events in order |
| | `CountOfPositions` | the shared risk manager counts the positions of the current run |
| | `TestedOnUnseen` | validation is on later data than the fit, and settings are restored whatever fails |
| | `OneOrderPerApproval` | a lost answer never becomes a second order, with two coroutines ordering |
| `stop_loss_hit` | `StopLossHit` **violated** | a stop loss set by the agent closes nothing |
| `backtest_return` | `ReturnFollowsTrades` **violated** | the account of a backtest and its short trades disagree |

Every passing run checks its module's `TypeOK` too (`PlatformTypeOK`: that of each
component).

Bounds, and why they suffice:

* `bus`: a queue of 2 (it must be full, and partly full), 2 producers
  (one blocked while another puts), 2 handlers (one publishes, one does not), 2
  processor tasks (a restart), and no more than 4 events from outside. `MaxEvents`
  bounds what `EveryEventTaken` quantifies over.
* `paper`: 2 coroutines, 2 symbols, one amount and one price with a slippage of 1
  (so what is checked, paid and received differ), cash for two orders and not for
  three, 4 operations: enough for two opens or averages and two closes overlapping
  in every way, with an interruption or a restart anywhere.
* `aegis`: 2 coroutines, 2 days, 3 approvals or closes, orders of ten per cent of
  the portfolio against an exposure limit of 25, two trades a day, a profile whose
  drawdown limit one lost lot passes: each refusal and the breaker are reachable.
  Symmetry of the two coroutines is sound: no property of the run is a liveness
  property and nothing orders them. `aegis_daily_loss`
  uses one coroutine, the code's 5 per cent and one price of loss.
* `control`: one symbol (nothing relates two), a queue of 2 (two pauses in flight
  in either order), 2 sessions (a restart) and one order for each of the engine, the
  preload task and the agent: the safety properties look at one step each.
* `platform`: per component, the smallest numbers at which its hazard happens.
  Trailing stops: one symbol (nothing relates two), two positions of it one after the
  other so that an event of the first can be late for the second, three prices that move
  a stop, activate it and trigger it, two queued events. Orders: two tickets and two
  checks, to be filled, cancelled and filled twice. Breaker: balances on either side of
  each limit, a day shorter than two cooldowns. Scheduler: two tasks, a caller beside
  the loop, every frequency; days of two slots, so that a daily plan may be for later
  today or for tomorrow; months of two days and of one, with a monthly plan that every
  month has and one that a month lacks. Cycles: two cognitive agents, which pass the
  budget's check together, and a team; a rate of two, a budget of one, so that two
  cycles of one call exceed it. Memory: three closers of one order, so that two
  updates are lost to one. Candles: two timeframes, one twice the other, buffers of two.
  Signals: charts that rise and fall, either of which may be the filter; a model that
  strongly recommends to buy or to sell, or says nothing, waits or falls back on the
  trend; three signals, to drift in two steps.
  Streams: queues of two, four events. Backtests: two symbols, three timestamps, two
  runs. Tuning: two windows, two combinations, data too short and long enough. Grid: two
  cells. Live: two traders, two orders, an account above and one below the minimum. News: two
  readers, two sources, three stories of which one has no date, a cache and a lookback
  shorter than the time that passes. `stop_loss_hit` and `backtest_return` use the same modules with fewer
  actors.

`CHECK_DEADLOCK FALSE` is in every `.cfg`: the bounds end every behaviour, and a
program without events rests. The one deadlock that matters is a property,
`NeverWedged`.

Fairness. EventBus: weak fairness of the processor, of a woken `put()` and of a
handler that can move. asyncio runs every ready task; that a handler that waits for
nothing ends is an assumption on the handlers. Nobody is made to publish, start or
stop. TradingControl: weak fairness of the beginning of a cycle, which is a timeout
of `asyncio.wait_for` on a running loop. Nothing is assumed of a person, a
request or of the end of a cycle. AgentOrders: `OrdersFairSpec` has weak fairness of
`OrdersStep`, the steps that walks and tools already begun go on with; it is given to
`stop_loss_hit` so that its counterexample is not a program that merely stopped. The
other modules state safety only.

## The proofs

`*_proofs` modules hold them; tlapm checks all of them for any value of the
constants that satisfies the named assumption of the module. Those assumptions say
what the program takes for granted: prices and amounts are positive, there are finitely
many coroutines, producers and symbols, a day is made of whole hours,
a monthly task names a day of the month, the grid of a search is a list, the default
strategies have ids of their own and percentages, a bar has whole prices. TLC evaluates
each of them in the runs.

* **EventBus**: `TypeOK`; `SerialDispatch`, by the inductive `OneProcessor` (a task
  that polls or dispatches is the one `_processor_task` names and `_running` is set; only
  a dispatching or a cancelled task has calls). `SerialDispatch` itself does not say which
  task a `Stop` cancels, and so does not survive one: the next `Start` would make a second.
  `NeverWedged` does not hold under every load (`bus_wedge`), so it is proved under a
  hypothesis on the load, `LeavesRoom`: either no handler publishes, or an event makes at
  most one other and what comes from outside fits the queue.
  `RoomInv` then bounds what is `InFlight` by what came from outside. `MCEventBus` checks
  by `ASSUME WorkloadsSplit` that the loads of `bus` leave room and that of `bus_wedge`
  does not: the hypothesis is what separates the two runs.
* **PaperTrading**: `TypeOK` and `NeverOverdrawn`, by `Inv`: types, what an
  operation must know at each await (`OpKnows`), and that an order about to book has
  *seen* a sufficient balance (`SeenEnough`). The balance may have changed since, but
  what is written is what was seen less the cost. `BooksBalanceUnlessStale` and
  `AtomicUnlessStale`, by `FreshFill`: a fill from a current balance is a step of the
  ledger. `CloseAllComplete`, by `CloseAllProgress`: during a close-all a row is
  either still on its list, being closed, or opened meanwhile; the difficulty is the
  other coroutines that delete and re-open rows. `PositionsMatchCoins`, by `MatchInv`:
  while no anomaly has happened, coins and rows of a symbol differ by what the operations
  under way have traded and not yet written (`CoinsAccounted`). The property itself speaks
  only of states in which nobody is under way and is far from inductive.
* **Aegis**: `MirrorsAgree` and `BreakerLatched`, by `Shape`: the manager, the
  portfolio and the operations are records with their fields, which every helper
  keeps. The rest is about values. `TypeOK` and `PortfolioAddsUp` follow from `BooksInv`
  (the types, what an operation under way carries, cash and entries add up);
  `PortfolioMatchesAccount` from `MatchInv` (portfolio and account differ by what
  operations have done and not told); `FreshBookingsKeepLimits` from `LimitsInv` (an
  approved order fits the portfolio until somebody else reports one). The totals are sums
  by a recursive function; `SumIs` says what appending, replacing and removing an
  element does to them. A fact about every partial sum is proved by looking at the
  smallest one that lacks it (`SmallestOf`), without an induction theorem.
* **TradingControl**: `TypeOK`; `EngineObeysPause`, by `PriceUnpaused` (a price is
  being handled only while the engine is not paused: the flag is written by handlers,
  and handlers are serial); `FlagsAgree`, inductive because it speaks of every state in
  which only prices are queued and not of the engine's listening alone; `OneLoop`,
  inductive with the types.
* **Orders_proofs** (AgentOrders, TrailingStops, TradeMemory): `OrderManagerKeepsPromise`, the
  refinement of RestingOrders. Initial states map to initial states, and each action maps
  to `Rest`, `FillAtOnce`, `Withdraw`, `Walk`, `Fill`, `PassOver` or a stutter. It needs
  `OrdersInv`: what is on a check's list was placed and is there once, which is why a
  fill leaves no second claim. `LotsOutsideRow`, a difference of cardinalities, by
  `LotsInv`: the trades are what the row shows, what was filled and is in hand for it
  (`InHand`), less what a close has sold of it and not deleted yet (`Sold`), and the orders counted
  apart (`Accounted`), as long as a row that was read is still the same (`CopiesOK`). The
  property itself speaks only of the moments between the operations.
  `TrailingStopNeverRetreats` and `TrailingStopDroppedForCause`, by `TrailingInv`:
  positions are numbered as they open, an inbox tells openings in that order (`OpenedInOrder`),
  and a stop, an event and a close in progress name positions that exist. The arithmetic
  is in `MovedIs`: a price replaces the peak only when it is better.
  `PatternEarnsValidity`, by `MemoryInv`: the counts a writer holds are of exits observed
  before (`ReadsAreBehind`), and an order's exit is observed once (`OrdersLinkedOnce`).
* **Boundary_proofs** (LiveMode, Outbound, News, Scheduler, Signals, Candles):
  `OrderSentOnce`, by what the
  orders on their way mean for the exchange (`OrdersOnTheirWay`: no two traders send for
  one approval); `SlowClientGetsNewest`, by
  `HoldsNewest`, which is stated of a queue and a count so that dropping and enqueueing are
  lemmas on sequences; `NewsServedIsRecent`, by what a fetch may bring and a digest may hold (`Fresh`,
  `GoodReader`), each for the hour its own fetch began; `NextRunIsNextOccurrence`, by `SchedInv` and lemmas about the calendar (the
  first slot of a month, days and weeks apart). The proviso of `NextIsNextOccurrence` is
  in its definition: a weekly day is a day of the week and every month has the monthly
  day, because `next_run` raises on a month that lacks it (scheduler.py:523).
  `HeardIsCurrent` and `AgainstFilterOnlyByModel`, by `SignalsInv`: what a signal under
  way has kept of the filter's verdict (`FilterKept`), and that what was heard, returned
  and made last is close to the record, except between a publication and its record
  (`RecordFollows`). `CandlesFromTicks`, by `CandlesInv`: prices are
  kept in the order of time (`TicksInOrder`), the open candle is the one of the latest
  price (`OpenIsLatest`), completed ones are over (`DoneAreOver`). `OutboundKeepsTypes`
  needs that a stream that is not connected has nothing queued (`ClosedStreams`).
* **Decisions_proofs** (CircuitBreaker, Tuning, GridBot, AgentCycles, Backtest):
  `ClosedBreakerWithinLimits`; `WalkForwardTestsOnUnseen`, whose lemmas are the
  divisions that cut the timestamps; `GridKeepsItsCells` and `GridAccountsForBuys`, for
  any number of levels; `BudgetOvershootBounded`, by `Affordable`: what is counted and
  what the cycles under way may still count, a sum over a finite set that a step of one
  member changes in one place; `RateOvershootBounded`: what stays of the
  recorded times maps one to one into the window counted before, so a tool that ends adds
  at most itself and no longer runs; `TeamTradesByExecutor`;
  `PositionsCounted`, by `CountInv`: the loop that closes everything at the end of a run is
  a recursive function over the symbols, and each round takes one position and one from
  the count. The types of the five: of the optimizer, that some result is the best of
  any list (`BestExists`, again by a smallest counterexample); of the backtester, that
  the helpers on an account keep it one (`ClosedTyped`, `AllClosedTyped`, `BecomesTyped`)
  and that no more symbols are held than there are (`HeldBounds`).
* **Platform_proofs** (AgentTools and Recall, Learning, Quant, and MCPlatform itself).
  `PlatformRunsComponents`: a behaviour of the platform is one of each of the sixteen
  components, because a step of one leaves the variables of the others alone. From it and
  the theorems above follow `PlatformTypes`, which states `PlatformTypeOK`, and
  `PlatformKeepsPromises`, which states the other invariants and the three action
  properties of the run `platform`. `RecallIsIdle` proves `NothingRecalled`: every
  episode stored is one of `EngineEpisodes`, whose similarity to any question is at most 100,
  and recall wants 300. `LearningTypes`, by `CatalogOK` (an id registered again takes the
  place of the old one, a new one a place of its own) and by the existence of a best
  score. `SizeWithinRisk`, `KellyWantsAnEdge` and `RewardBreaksEven` are about the
  arithmetic of `Quant` for all whole amounts; what they need of division is
  `DivideDown`. The `ASSUME`s `SizesRiskWhatTheyMay` and `RatiosAgree` test the same on
  small numbers.

`GridKeepsItsCells`, `GridAccountsForBuys`,
`TeamTradesByExecutor` and `RecallIsIdle` are proved for every instance and so need no
run.

Every invariant and action property that a run checks is so a theorem. Only
model-checked: the liveness properties (`EveryEventTaken`, `BlockedPublisherResumes`,
`AgentGetsItsTurn`), which the prover cannot do under fairness. What the other pure
algorithms compute (drawdown, ATR, resampling, paging, ranking, Monte Carlo) is folds and
sums over data, which would take an induction over data: it is checked on bounded inputs,
by the `ASSUME`s of MCPlatform.

## What the code does otherwise than it says

The seven violated runs, with the lines quoted, are findings in `PROJECT.json`:

1. `bus_wedge`: a handler publishes into the full queue and the bus stands still; the
   branch meant for it (`except asyncio.QueueFull`) cannot be reached.
2. `paper_oversold`: two closes of one position pass the balance check on the same
   coins, are both paid and both recorded.
3. `aegis_daily_loss`: the tool names the side of a position "buy"; the portfolio takes
   every side but "long" for a short, books losses as gains, and the daily halt does
   not come.
4. `control_panic`: a panic pauses the engine's price handler; the preload task and the
   agent's loop go on placing orders.
5. `control_key`: the terminal's pause flag follows neither a panic nor the other
   pauses, and the key then does the opposite of what is shown.

6. `stop_loss_hit`: the stop loss of a position is written and shown, and never compared
   with a price.
7. `backtest_return`: the backtester pays out a short as if it had been bought.

Met while modelling and in no run of its own; the modules follow the code. Four of
them are stated beside the properties, and TLC finds the first three violated and the
last kept:

* `LiveIsBlocked` (LiveMode): README.md:313 says that live trading is blocked when a
  check fails; the engine logs and goes on (engine.py:260).
* `BudgetHolds` (AgentCycles): the tokens of failed cycles are not counted, and what is
  counted passes the budget as far as `BudgetOvershoot` says: it is no maximum, though
  docs/user-guide.md:177 calls it "Max AI tokens per day".
* `TrailingExitRecorded` (TradeMemory): the exit of a trailing stop is reported under
  an order id made of symbol and price, which is no order's id, so its episode stays open
  (engine.py:1057).
* `NothingRecalled` (AgentTools): no past trade ever reaches an agent or a decision,
  because what is stored and what is compared have no reading in common
  (episodic.py:349, engine.py:827).
* Live mode sizes orders by the paper account (engine.py:700), drops the result of its
  balance sync (792), tells a balance of 0 when the sync failed (288), and
  `_maybe_sync_balance()` has no caller.
* The model may override the trend filter after it was applied (mtf_signals.py:211),
  where docs/trading-guide.md:96 says that "LONG signals only pass if the 4h trend is
  bullish or neutral": `AgainstFilterOnlyByModel` says what holds instead.
* The engine publishes a signal that its generator has just published, and one the
  generator kept to itself as insignificant (engine.py:594).
* A story without a readable date counts as published when it is read (feeds.py:158).
* The news cache does not look at which symbols it was filled for (feeds.py:347).
* The equity of a running backtest leaves out what open positions cost
  (backtester/engine.py:543), and `update_daily_pnl()` sets where its callers add
  (risk.py:136). A breaker tripped in one combination of a search rejects the orders of
  the later ones, and the grid's "risk" parameters never reach the manager.
* Reflections call the memory with an argument and methods it does not have
  (reflection.py:380, 422, 517, 865, 940): no lesson, rule or pattern is learned.
* `fallback_cycles` is counted twice; a confidence is lowered for LOSS but not for
  STOPPED_OUT (manager.py:253).
* `fetch_ticker`, `fetch_ohlcv` and `fetch_order_book` exist on no adapter, so the tools
  that call them always fail; `get_trading_rules` raises when given a context, and
  `recall_similar_trades` and `get_market_patterns` fail whenever something matches.
  `register_all_tools()` raises for the second of agent and team (cognitive.py:245).
* `generate_and_backtest()` does not backtest the strategy it generated
  (strategy_gen.py:237); registering an id again leaves the old object current.
* `check_pending_orders()` has no caller: limit orders of paper mode are never filled.
* A monthly task on a day the next month lacks raises (scheduler.py:523).
* A Monte Carlo analysis without a seed draws other trades in its second pass than in
  its first (monte_carlo.py:178; `CurvesAreSeeded`).
* Pages of history overlap by one candle, and an exchange whose page is under 1000
  candles ends the history after one (data.py:65; `PagesOverlapByOne`).

## What is not modelled

* Prompts, language models and the text they answer: any answer is possible.
* Indicator formulas in floating point, the irrational ratios (only their signs).
* HTTP, WebSocket and exchange libraries. The adapters of Bybit, Kraken and OKX repeat
  `client.py`; the price feed of a live client (`start_price_feed`) has no caller.
* Widgets, screens, onboarding, configuration, reports, the text of notifications.
* The DCA strategy, which nothing in the program drives.
* The refresh of `current_price` on position rows, `reset_weekly`, `reset_hourly`:
  nothing calls them.

Hazards without a property, beside the one in `PROJECT.json`: a tool that asks the
guardrails before the day was reset is refused more than necessary
(execution_tools.py:145; `ToolAsks` models it, and no liveness is promised); a handler
that is already running outlives `stop()` of the engine (engine.py:465; TradingControl
has the step, and no text says what it may not do); two first initialisations of the
paper account meet in a UNIQUE constraint (database.py:118); `main()` makes a second
paper engine over the same tables, with prices of its own (main.py:62; PaperTrading lets
any symbol have no price, which is what one engine then meets).

## The plan

Done: the modules of the first two rounds, above. Next, in this order:

1. **TwoEngines**: PaperTrading instantiated for two engines with separate prices over
   one set of tables, as `main.py` builds them.
2. **System**: Aegis with TradingControl: the count of open positions that
   `set_open_positions` overwrites, and the panic's reset of the mirrors.
3. Liveness of the scheduler (a due task runs while nobody changes the dict) and of the
   streams (a client that reads catches up).
4. The DCA strategy, once a module of the program drives it.

## Running it

    tlc -workers 2 -config MCEventBus.cfg MCEventBus
    tlapm EventBus_proofs.tla

`tlc -config MC<module>[_<case>].cfg MC<module>` for the others.
