--------------------------- MODULE TradingControl ---------------------------
(***************************************************************************)
(* Who may trade: the pause, resume and panic events, the engine that      *)
(* hears them (core/engine.py), the agent's session (agent/session.py),    *)
(* the HTTP API (api/server.py) and the terminal (hermes/app.py).          *)
(*                                                                         *)
(* The bus is EventBus seen from here: one queue, one event at a time, its *)
(* handlers run to their end before the next event.  A put on a full queue *)
(* is left to that module: publishing takes effect at once, and no promise *)
(* that an event is ever handled is made here.  Orders are approved or     *)
(* refused by Aegis, so a trader may place an order or not.                *)
(*                                                                         *)
(* `placed`, `panicked` and `unheard` are history variables.               *)
(***************************************************************************)
EXTENDS Naturals, Sequences, FiniteSets

CONSTANTS
    Symbols,
    MaxQueue,      \* bound: events in the queue
    MaxStarts,     \* bound: sessions started
    MaxOrders      \* bound: orders placed, by trader

Loops == 1 .. MaxStarts

ASSUME ControlAssumption == MaxQueue \in Nat /\ MaxStarts \in Nat /\ MaxOrders \in Nat

VARIABLES
    queue,         \* event types in the bus
    handling,      \* what the bus processor is in the middle of
    todo,          \* positions the panic handler has yet to close
    engine,        \* TradingEngine: _running, subscribed, _paused, the preload task
    session,       \* TradingSession: _state
    loop,          \* the agent loops created so far
    agentTask,     \* _agent_task: the loop created last, 0 for None
    api,           \* module state of the API: is it listening, _paused
    terminal,      \* _paused of the terminal
    positions,     \* symbols with an open position
    placed,        \* history: orders placed, by trader
    panicked,      \* history: a panic was handled, and no resume since
    unheard        \* history: an event passed the engine or the API by

vars == <<queue, handling, todo, engine, session, loop, agentTask, api, terminal,
          positions, placed, panicked, unheard>>

control == <<engine, session, loop, agentTask, api, terminal>>
market == <<positions, placed>>
history == <<panicked, unheard>>

Events == {"price", "paused", "resumed", "panic"}
States == {"idle", "starting", "running", "paused", "stopping", "stopped", "error"}
Traders == {"engine", "preload", "agent"}

Init ==
    /\ queue = <<>>
    /\ handling = "nothing"
    /\ todo = {}
    /\ engine = [running |-> FALSE, listens |-> FALSE, paused |-> FALSE, preload |-> FALSE]
    /\ session = "idle"
    /\ loop = [k \in Loops |-> "none"]
    /\ agentTask = 0
    /\ api = [listens |-> FALSE, paused |-> FALSE]
    /\ terminal = FALSE
    /\ positions = {}
    /\ placed = [t \in Traders |-> 0]
    /\ panicked = FALSE
    /\ unheard = FALSE

Publish(e) == Len(queue) < MaxQueue /\ queue' = Append(queue, e)
Places(t) == placed[t] < MaxOrders /\ placed' = [placed EXCEPT ![t] = @ + 1]

(* One act of a trader: an order, of the signal path or of a tool of the    *)
(* agent, with or without a position of its own, or a tool's close.         *)
Trades(t) ==
    \/ /\ Places(t)
       /\ positions' = positions \/ \E s \in Symbols : positions' = positions \cup {s}
    \/ /\ \E s \in positions : positions' = positions \ {s}
       /\ UNCHANGED placed

-----------------------------------------------------------------------------
(* The price feed, and the keys of the terminal.  Mutated form: the key     *)
(* publishes one event for both ways.                                       *)
FeedPrice ==
    /\ Publish("price")
    /\ UNCHANGED <<handling, todo, control, market, history>>

PressPanic ==
    /\ Publish("panic")
    /\ UNCHANGED <<handling, todo, control, market, history>>

PressPauseToggles ==
    /\ terminal' = ~terminal
    /\ Publish("toggled")
    /\ UNCHANGED <<handling, todo, engine, session, loop, agentTask, api, market, history>>

PressPause ==
    /\ terminal' = ~terminal
    /\ Publish(IF terminal THEN "resumed" ELSE "paused")
    /\ UNCHANGED <<handling, todo, engine, session, loop, agentTask, api, market, history>>

(* The API: pause_toggle() and panic() set the flag after the event is in.  *)
ApiPause ==
    /\ api.listens
    /\ Publish(IF api.paused THEN "resumed" ELSE "paused")
    /\ api' = [api EXCEPT !.paused = ~@]
    /\ UNCHANGED <<handling, todo, engine, session, loop, agentTask, terminal, market, history>>

ApiPanic ==
    /\ api.listens
    /\ Publish("panic")
    /\ api' = [api EXCEPT !.paused = TRUE]
    /\ UNCHANGED <<handling, todo, engine, session, loop, agentTask, terminal, market, history>>

(* _lifespan(): the server task gets there some time after the engine's     *)
(* start, or never.                                                         *)
ApiListens ==
    /\ engine.running /\ ~api.listens
    /\ api' = [api EXCEPT !.listens = TRUE]
    /\ UNCHANGED <<queue, handling, todo, engine, session, loop, agentTask, terminal,
                   market, history>>

-----------------------------------------------------------------------------
(* The bus processor takes the next event when the handlers of the last one *)
(* are done.  Mutated forms: an event does not wait for the last one, and   *)
(* the API does not subscribe to panics.                                    *)
ReadyAlways == queue # <<>>

Ready == handling = "nothing" /\ queue # <<>>

ApiHearsNoPanic(e) ==
    api' = IF ~api.listens \/ e = "panic" THEN api ELSE [api EXCEPT !.paused = e = "paused"]

ApiHears(e) ==
    api' = IF api.listens THEN [api EXCEPT !.paused = e # "resumed"] ELSE api

EngineHears(e) ==
    engine' = IF engine.listens THEN [engine EXCEPT !.paused = e # "resumed"] ELSE engine

(* _on_price_update() looks at the flag first, and then awaits.             *)
TakePrice ==
    /\ Ready /\ Head(queue) = "price"
    /\ queue' = Tail(queue)
    /\ handling' = IF engine.listens /\ ~engine.paused THEN "price" ELSE handling
    /\ UNCHANGED <<todo, control, market, history>>

(* _on_pause(), _on_resume() and the API's handlers.                        *)
TakePauseOrResume ==
    LET e == Head(queue) IN
    /\ Ready /\ e \in {"paused", "resumed"}
    /\ queue' = Tail(queue)
    /\ EngineHears(e)
    /\ ApiHears(e)
    /\ panicked' = (panicked /\ ~(e = "resumed" /\ engine.listens))
    /\ unheard' = (unheard \/ ~(engine.listens /\ api.listens))
    /\ UNCHANGED <<handling, todo, session, loop, agentTask, terminal, market>>

(* _on_panic() pauses and then lists the positions to close.                *)
TakePanic ==
    /\ Ready /\ Head(queue) = "panic"
    /\ queue' = Tail(queue)
    /\ EngineHears("panic")
    /\ ApiHears("panic")
    /\ handling' = IF engine.listens THEN "panic" ELSE handling
    /\ panicked' = (panicked \/ engine.listens)
    /\ unheard' = (unheard \/ ~(engine.listens /\ api.listens))
    /\ UNCHANGED <<todo, session, loop, agentTask, terminal, market>>

-----------------------------------------------------------------------------
(* What the handlers do before they are done.  A price may end in orders,   *)
(* of a signal or in a cycle of the agent, or in the close of a trailing    *)
(* stop.                                                                    *)
SignalOrders ==
    /\ handling = "price"
    /\ Trades("engine")
    /\ UNCHANGED <<queue, handling, todo, control, history>>

TrailingStops(s) ==
    /\ handling = "price"
    /\ positions' = positions \ {s}
    /\ handling' = "nothing"
    /\ UNCHANGED <<queue, todo, control, placed, history>>

PriceDone ==
    /\ handling = "price"
    /\ handling' = "nothing"
    /\ UNCHANGED <<queue, todo, control, market, history>>

PanicLists ==
    /\ handling = "panic"
    /\ handling' = "closing"
    /\ todo' = positions
    /\ UNCHANGED <<queue, control, market, history>>

PanicCloses(s) ==
    /\ handling = "closing" /\ s \in todo
    /\ todo' = todo \ {s}
    /\ positions' = positions \ {s}
    /\ UNCHANGED <<queue, handling, control, placed, history>>

(* Everything is closed, or an exception was logged.                        *)
PanicDone ==
    /\ handling \in {"panic", "closing"}
    /\ handling' = "nothing"
    /\ todo' = {}
    /\ UNCHANGED <<queue, control, market, history>>

-----------------------------------------------------------------------------
(* start() of the engine: the first one by the terminal, a later one by a   *)
(* session.  The preload task trades on what it loaded, beside the bus.     *)
Started == [engine EXCEPT !.running = TRUE, !.listens = TRUE, !.preload = TRUE]

TerminalStartsEngine ==
    /\ session = "idle" /\ ~engine.running
    /\ engine' = Started
    /\ UNCHANGED <<queue, handling, todo, session, loop, agentTask, api, terminal,
                   market, history>>

PreloadOrders ==
    /\ engine.preload
    /\ Trades("preload")
    /\ UNCHANGED <<queue, handling, todo, control, history>>

PreloadEnds ==
    /\ engine.preload
    /\ engine' = [engine EXCEPT !.preload = FALSE]
    /\ UNCHANGED <<queue, handling, todo, session, loop, agentTask, api, terminal,
                   market, history>>

-----------------------------------------------------------------------------
(* The session.  start() awaits the agent's and perhaps the engine's.       *)
(* Mutated form: the shutdown event of the last session is still set.       *)
SessionStarts ==
    /\ session \in {"idle", "stopped"}
    /\ session' = "starting"
    /\ UNCHANGED <<queue, handling, todo, engine, loop, agentTask, api, terminal,
                   market, history>>

StartFails ==
    /\ session = "starting"
    /\ session' = "error"
    /\ UNCHANGED <<queue, handling, todo, engine, loop, agentTask, api, terminal,
                   market, history>>

SessionStartsEngine ==
    /\ session = "starting" /\ ~engine.running
    /\ engine' = Started
    /\ UNCHANGED <<queue, handling, todo, session, loop, agentTask, api, terminal,
                   market, history>>

SessionRunsUncleared ==
    /\ session = "starting" /\ engine.running
    /\ session' = "running"
    /\ \E k \in Loops :
         /\ loop[k] = "none" /\ \A j \in Loops : j < k => loop[j] # "none"
         /\ loop' = [loop EXCEPT ![k] = IF agentTask = 0 THEN "waiting" ELSE "ended"]
         /\ agentTask' = k
    /\ UNCHANGED <<queue, handling, todo, engine, api, terminal, market, history>>

SessionRuns ==
    /\ session = "starting" /\ engine.running
    /\ session' = "running"
    /\ \E k \in Loops :
         /\ loop[k] = "none" /\ \A j \in Loops : j < k => loop[j] # "none"
         /\ loop' = [loop EXCEPT ![k] = "waiting"]
         /\ agentTask' = k
    /\ UNCHANGED <<queue, handling, todo, engine, api, terminal, market, history>>

(* pause() and resume() tell the bus; nothing tells them.                   *)
SessionPauses ==
    /\ session = "running"
    /\ session' = "paused"
    /\ Publish("paused")
    /\ UNCHANGED <<handling, todo, engine, loop, agentTask, api, terminal, market, history>>

SessionResumes ==
    /\ session = "paused"
    /\ session' = "running"
    /\ Publish("resumed")
    /\ UNCHANGED <<handling, todo, engine, loop, agentTask, api, terminal, market, history>>

(* stop() cancels the loop and awaits its end, then stops the engine: the   *)
(* API goes first, the subscriptions last.  Mutated form: the loop is left. *)
StopLeavesLoop ==
    /\ session \in {"running", "paused", "error"}
    /\ session' = "stopping"
    /\ UNCHANGED <<queue, handling, todo, engine, loop, agentTask, api, terminal,
                   market, history>>

SessionStops ==
    /\ session \in {"running", "paused", "error"}
    /\ session' = "stopping"
    /\ loop' = [k \in Loops |-> IF k = agentTask THEN "ended" ELSE loop[k]]
    /\ UNCHANGED <<queue, handling, todo, engine, agentTask, api, terminal, market, history>>

EngineStops ==
    /\ session = "stopping" /\ engine.running
    /\ engine' = [engine EXCEPT !.running = FALSE, !.preload = FALSE]
    /\ api' = [api EXCEPT !.listens = FALSE]
    /\ UNCHANGED <<queue, handling, todo, session, loop, agentTask, terminal, market, history>>

StopEnds ==
    /\ session = "stopping" /\ ~engine.running
    /\ engine' = [engine EXCEPT !.listens = FALSE]
    /\ session' = "stopped"
    /\ UNCHANGED <<queue, handling, todo, loop, agentTask, api, terminal, market, history>>

-----------------------------------------------------------------------------
(* _run_agent_loop(): the state is looked at before a cycle, not during it. *)
CycleBegins(k) ==
    /\ loop[k] = "waiting" /\ session = "running"
    /\ loop' = [loop EXCEPT ![k] = "cycle"]
    /\ UNCHANGED <<queue, handling, todo, engine, session, agentTask, api, terminal,
                   market, history>>

CycleTrades(k) ==
    /\ loop[k] = "cycle"
    /\ Trades("agent")
    /\ UNCHANGED <<queue, handling, todo, control, history>>

CycleEnds(k) ==
    /\ loop[k] = "cycle"
    /\ loop' = [loop EXCEPT ![k] = "waiting"]
    /\ UNCHANGED <<queue, handling, todo, engine, session, agentTask, api, terminal,
                   market, history>>

-----------------------------------------------------------------------------
BusStep ==
    \/ TakePrice \/ TakePauseOrResume \/ TakePanic
    \/ SignalOrders \/ PriceDone \/ PanicLists \/ PanicDone
    \/ \E s \in Symbols : TrailingStops(s) \/ PanicCloses(s)

SessionStep ==
    \/ SessionStarts \/ StartFails \/ SessionStartsEngine \/ SessionRuns
    \/ SessionPauses \/ SessionResumes \/ SessionStops \/ EngineStops \/ StopEnds

Next ==
    \/ FeedPrice \/ PressPanic \/ PressPause \/ ApiPause \/ ApiPanic \/ ApiListens
    \/ BusStep
    \/ TerminalStartsEngine \/ PreloadOrders \/ PreloadEnds
    \/ SessionStep
    \/ \E k \in Loops : CycleBegins(k) \/ CycleTrades(k) \/ CycleEnds(k)

(* The wait between two cycles of an agent loop times out.  Nobody owes a   *)
(* key, a request or a session.                                             *)
Fairness == \A k \in Loops : WF_vars(CycleBegins(k))

Spec == Init /\ [][Next]_vars /\ Fairness

-----------------------------------------------------------------------------
TypeOK ==
    /\ queue \in Seq(Events)
    /\ handling \in {"nothing", "price", "panic", "closing"}
    /\ todo \subseteq Symbols
    /\ engine \in [running : BOOLEAN, listens : BOOLEAN, paused : BOOLEAN, preload : BOOLEAN]
    /\ session \in States
    /\ loop \in [Loops -> {"none", "waiting", "cycle", "ended"}]
    /\ agentTask \in 0 .. MaxStarts
    /\ api \in [listens : BOOLEAN, paused : BOOLEAN]
    /\ terminal \in BOOLEAN
    /\ positions \subseteq Symbols
    /\ placed \in [Traders -> Nat]
    /\ panicked \in BOOLEAN
    /\ unheard \in BOOLEAN

(* The engine's price handler places no order while the engine is paused,   *)
(* though it looks at the flag once and awaits before it orders: the flag   *)
(* changes in handlers only, and the bus runs those one event at a time     *)
(* (engine.py:499-529, 1076-1088 with events.py:214-227).                   *)
EngineObeysPause == [][ engine.paused => placed'["engine"] = placed["engine"] ]_vars

(* The API's flag says what the engine does once only prices are left in    *)
(* the bus, whoever paused, resumed or panicked and in whatever order,      *)
(* unless an event went by while one of them was not listening              *)
(* (server.py:153-173, 210-247; engine.py:1076-1088).                       *)
OnlyPrices == \A i \in 1 .. Len(queue) : queue[i] = "price"

FlagsAgree == OnlyPrices /\ ~unheard => api.paused = engine.paused

(* A running or paused session has one agent loop alive, the one its next   *)
(* stop will cancel, and in any other state no loop is left that could      *)
(* trade, over failed starts, stops and restarts (session.py:194-313).      *)
LiveLoops == {k \in Loops : loop[k] \in {"waiting", "cycle"}}

OneLoop == LiveLoops = IF session \in {"running", "paused"} THEN {agentTask} ELSE {}

(* A session that stays running gives its agent a cycle (session.py:381).   *)
AgentGetsItsTurn ==
    (session = "running") ~> (session # "running" \/ \E k \in Loops : loop[k] = "cycle")

(* A panic "closes all open positions and pauses trading": nobody places an *)
(* order until somebody resumes (docs/api.md, POST /api/panic).             *)
PanicStopsTrading == [][ panicked => placed' = placed ]_vars

(* The pause key pauses what runs and resumes what is paused, when the bus  *)
(* is quiet ("Pause or resume signal processing and trading",               *)
(* docs/user-guide.md).                                                     *)
PauseKeyToggles ==
    [][ terminal' # terminal /\ queue = <<>> /\ ~unheard
          => queue' = <<IF engine.paused THEN "resumed" ELSE "paused">> ]_vars
=============================================================================
