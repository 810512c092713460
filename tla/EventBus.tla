------------------------------ MODULE EventBus ------------------------------
(***************************************************************************)
(* The bounded publish/subscribe bus of keryxflow/core/events.py.          *)
(*                                                                         *)
(* Coroutines publish onto one asyncio.Queue.  A single processor task     *)
(* takes an event, runs every handler subscribed to its type concurrently, *)
(* waits for all of them and only then takes the next event.  Handlers     *)
(* are coroutines of other components: here a handler is the sequence of   *)
(* event types it publishes while it runs, and it may return or raise      *)
(* after any prefix of it.  An event is its type.                          *)
(*                                                                         *)
(* The program runs on Python 3.12 (pyproject.toml:17), whose wait_for()   *)
(* awaits queue.get() in the same task: an event is taken or it stays in   *)
(* the queue when the wait times out or is cancelled, so that a timeout is *)
(* a step that changes nothing.  `enqueued` and `taken` count insertions   *)
(* and removals; the code keeps neither number, a property needs both.     *)
(***************************************************************************)
EXTENDS Naturals, Sequences, FiniteSets

CONSTANTS
    Types,         \* event types (EventType)
    Handlers,      \* handler coroutines that may be subscribed
    Producers,     \* coroutines that publish from outside any handler
    NoType,        \* a producer that is not inside publish()
    QueueMax,      \* max_queue_size, 1000 in the program
    Workloads,     \* what the handlers publish, and how much comes from outside
    Interests,     \* which handler may be subscribed to which type
    MaxStarts,     \* bound: how often start() creates a processor task
    MaxEvents      \* bound: insertions EveryEventTaken speaks of

Tasks == 1 .. MaxStarts
Dispatchers == Tasks \cup Producers

ASSUME BusAssumption ==
    /\ QueueMax \in Nat \ {0}
    /\ MaxStarts \in Nat /\ MaxEvents \in Nat
    /\ Interests \subseteq Types \X Handlers
    /\ NoType \notin Types
    /\ Tasks \cap Producers = {} /\ IsFiniteSet(Producers)
    /\ Workloads \subseteq [script : [Handlers -> Seq(Types)], limit : Nat]

VARIABLES
    workload,      \* the workload of this behaviour, chosen initially
    subscribers,   \* _subscribers: event type -> handlers
    queue,         \* _queue: the types of the events in it, oldest first
    running,       \* _running
    processor,     \* _processor_task: the task start() created last, 0 for None
    task,          \* what each created processor task is doing
    calls,         \* dispatcher -> handlers it is running -> state of the call
    putting,       \* producer -> the type it waits to put, or NoType
    published,     \* bound: publish() calls made by producers
    enqueued,      \* history: events put so far
    taken          \* history: events taken by processors so far

vars == <<workload, subscribers, queue, running, processor, task, calls,
          putting, published, enqueued, taken>>

Call == [left : Seq(Types), blocked : BOOLEAN]
NoCalls == [h \in {} |-> [left |-> <<>>, blocked |-> FALSE]]

(* Mutated forms of Full: one slot short, and a queue without a bound.      *)
FullEarly == Len(queue) >= QueueMax - 1
FullNever == FALSE

Full == Len(queue) >= QueueMax
Cancelled(d) == d \in Tasks /\ task[d] = "cancelled"
Idle(p) == putting[p] = NoType /\ DOMAIN calls[p] = {}

Init ==
    /\ workload \in Workloads
    /\ subscribers = [t \in Types |-> {}]
    /\ queue = <<>>
    /\ running = FALSE
    /\ processor = 0
    /\ task = [k \in Tasks |-> "none"]
    /\ calls = [d \in Dispatchers |-> NoCalls]
    /\ putting = [p \in Producers |-> NoType]
    /\ published = 0
    /\ enqueued = 0
    /\ taken = 0

-----------------------------------------------------------------------------
(* subscribe() and unsubscribe(): a handler appears at most once per type.  *)

Subscribe(t, h) ==
    /\ <<t, h>> \in Interests
    /\ h \notin subscribers[t]
    /\ subscribers' = [subscribers EXCEPT ![t] = @ \cup {h}]
    /\ UNCHANGED <<workload, queue, running, processor, task, calls, putting,
                   published, enqueued, taken>>

Unsubscribe(t, h) ==
    /\ h \in subscribers[t]
    /\ subscribers' = [subscribers EXCEPT ![t] = @ \ {h}]
    /\ UNCHANGED <<workload, queue, running, processor, task, calls, putting,
                   published, enqueued, taken>>

-----------------------------------------------------------------------------
(* start() and stop().  Both return early when there is nothing to do.      *)
(* stop() lowers the flag, cancels the task start() created last and awaits *)
(* it.  The cancelled task leaves its loop at the await it is in, but first *)
(* the handler calls it gathers unwind, the ones blocked in publish() too,  *)
(* each with awaits of its own; until then start() may create another task. *)

Start ==
    /\ ~running
    /\ \E k \in Tasks :
        /\ task[k] = "none"
        /\ \A j \in Tasks : j < k => task[j] # "none"
        /\ processor' = k
        /\ task' = [task EXCEPT ![k] = "polling"]
    /\ running' = TRUE
    /\ UNCHANGED <<workload, subscribers, queue, calls, putting, published,
                   enqueued, taken>>

(* Mutated form of Stop: the flag is lowered and the task is not cancelled. *)
StopWithoutCancel ==
    /\ running
    /\ running' = FALSE
    /\ UNCHANGED <<workload, subscribers, queue, processor, task, calls, putting,
                   published, enqueued, taken>>

Stop ==
    /\ running
    /\ running' = FALSE
    /\ task' = [task EXCEPT ![processor] = "cancelled"]
    /\ UNCHANGED <<workload, subscribers, queue, processor, calls, putting,
                   published, enqueued, taken>>

(* The cancelled task has no call left: it ends, and its stop() returns.    *)
StopReturns(k) ==
    /\ task[k] = "cancelled"
    /\ DOMAIN calls[k] = {}
    /\ task' = [task EXCEPT ![k] = "ended"]
    /\ UNCHANGED <<workload, subscribers, queue, running, processor, calls,
                   putting, published, enqueued, taken>>

-----------------------------------------------------------------------------
(* publish(): `await self._queue.put(event)`.  A put on a queue with room   *)
(* does not suspend; on a full queue the coroutine waits for a get(), and   *)
(* another put may overtake it when it is woken.                            *)

Enqueue(t) ==
    /\ queue' = Append(queue, t)
    /\ enqueued' = enqueued + 1

Publish(p, t) ==
    /\ Idle(p)
    /\ published < workload.limit
    /\ published' = published + 1
    /\ \/ /\ ~Full
          /\ Enqueue(t)
          /\ UNCHANGED putting
       \/ /\ Full
          /\ putting' = [putting EXCEPT ![p] = t]
          /\ UNCHANGED <<queue, enqueued>>
    /\ UNCHANGED <<workload, subscribers, running, processor, task, calls, taken>>

PutResumes(p) ==
    /\ putting[p] # NoType
    /\ ~Full
    /\ Enqueue(putting[p])
    /\ putting' = [putting EXCEPT ![p] = NoType]
    /\ UNCHANGED <<workload, subscribers, running, processor, task, calls,
                   published, taken>>

-----------------------------------------------------------------------------
(* _dispatch(): the calls of one event start together, one per handler that *)
(* is subscribed at that moment.                                            *)

CallsFor(t) ==
    [h \in subscribers[t] |-> [left |-> workload.script[h], blocked |-> FALSE]]

(* publish_sync(): the caller dispatches the event itself.                  *)
PublishSync(p, t) ==
    /\ Idle(p)
    /\ published < workload.limit
    /\ published' = published + 1
    /\ calls' = [calls EXCEPT ![p] = CallsFor(t)]
    /\ UNCHANGED <<workload, subscribers, queue, running, processor, task,
                   putting, enqueued, taken>>

(* _process_events(): get(), then the whole dispatch, then the next get().  *)
TakeEvent(k) ==
    /\ running
    /\ task[k] = "polling"
    /\ queue # <<>>
    /\ queue' = Tail(queue)
    /\ taken' = taken + 1
    /\ calls' = [calls EXCEPT ![k] = CallsFor(Head(queue))]
    /\ task' = [task EXCEPT ![k] = "dispatching"]
    /\ UNCHANGED <<workload, subscribers, running, processor, putting,
                   published, enqueued>>

(* Mutated form of DispatchDone: the loop ends after an event.              *)
DispatchEndsLoop(k) ==
    /\ task[k] = "dispatching"
    /\ DOMAIN calls[k] = {}
    /\ task' = [task EXCEPT ![k] = "ended"]
    /\ UNCHANGED <<workload, subscribers, queue, running, processor, calls,
                   putting, published, enqueued, taken>>

DispatchDone(k) ==
    /\ task[k] = "dispatching"
    /\ DOMAIN calls[k] = {}
    /\ task' = [task EXCEPT ![k] = "polling"]
    /\ UNCHANGED <<workload, subscribers, queue, running, processor, calls,
                   putting, published, enqueued, taken>>

-----------------------------------------------------------------------------
(* A handler under _safe_call().  It publishes its next event, waits when   *)
(* the queue is full, and may return or raise wherever it is not waiting:   *)
(* an exception ends this call only.  A cancellation is no Exception: a     *)
(* cancelled call publishes nothing more and leaves wherever it waits.      *)

Published(c) == [left |-> Tail(c.left), blocked |-> FALSE]

CallPublishes(d, h) ==
    /\ h \in DOMAIN calls[d] /\ ~Cancelled(d)
    /\ calls[d][h].left # <<>>
    /\ \/ /\ ~Full
          /\ Enqueue(Head(calls[d][h].left))
          /\ calls' = [calls EXCEPT ![d][h] = Published(@)]
       \/ /\ Full
          /\ ~calls[d][h].blocked
          /\ calls' = [calls EXCEPT ![d][h].blocked = TRUE]
          /\ UNCHANGED <<queue, enqueued>>
    /\ UNCHANGED <<workload, subscribers, running, processor, task, putting,
                   published, taken>>

CallEnds(d, h) ==
    /\ h \in DOMAIN calls[d]
    /\ ~calls[d][h].blocked \/ Cancelled(d)
    /\ calls' = [calls EXCEPT ![d] = [g \in DOMAIN @ \ {h} |-> @[g]]]
    /\ UNCHANGED <<workload, subscribers, queue, running, processor, task,
                   putting, published, enqueued, taken>>

CallStep(d, h) == CallPublishes(d, h) \/ CallEnds(d, h)

-----------------------------------------------------------------------------
Next ==
    \/ \E t \in Types, h \in Handlers : Subscribe(t, h) \/ Unsubscribe(t, h)
    \/ Start
    \/ Stop
    \/ \E p \in Producers, t \in Types : Publish(p, t) \/ PublishSync(p, t)
    \/ \E p \in Producers : PutResumes(p)
    \/ \E k \in Tasks : TakeEvent(k) \/ DispatchDone(k) \/ StopReturns(k)
    \/ \E d \in Dispatchers, h \in Handlers : CallStep(d, h)

(* The event loop runs every task that is ready: the processor takes events *)
(* and a woken put resumes.  A handler is assumed to end unless it waits    *)
(* for room.  Nobody owes a publish, a start or a stop.                     *)
Fairness ==
    /\ \A k \in Tasks : WF_vars(TakeEvent(k) \/ DispatchDone(k) \/ StopReturns(k))
    /\ \A p \in Producers : WF_vars(PutResumes(p))
    /\ \A d \in Dispatchers, h \in Handlers : WF_vars(CallStep(d, h))

Spec == Init /\ [][Next]_vars /\ Fairness

-----------------------------------------------------------------------------
TypeOK ==
    /\ workload \in Workloads
    /\ subscribers \in [Types -> SUBSET Handlers]
    /\ queue \in Seq(Types) /\ Len(queue) <= QueueMax
    /\ running \in BOOLEAN
    /\ processor \in 0 .. MaxStarts
    /\ task \in [Tasks -> {"none", "polling", "dispatching", "cancelled", "ended"}]
    /\ DOMAIN calls = Dispatchers
    /\ \A d \in Dispatchers :
        /\ DOMAIN calls[d] \subseteq Handlers
        /\ calls[d] \in [DOMAIN calls[d] -> Call]
    /\ putting \in [Producers -> Types \cup {NoType}]
    /\ published \in Nat
    /\ enqueued \in Nat
    /\ taken \in Nat

(* The handlers of two queued events never act side by side, across any     *)
(* order of start() and stop(), a start() included while a stop() still     *)
(* awaits the task it cancelled: one task at most dispatches, the calls of  *)
(* a cancelled one only unwind, and a stop() that has returned has left no  *)
(* call behind.  The engine's handlers hold no lock and rely on this        *)
(* (events.py:214-250).                                                     *)
SerialDispatch ==
    /\ \A j, k \in Tasks : task[j] = "dispatching" /\ task[k] = "dispatching" => j = k
    /\ \A k \in Tasks : DOMAIN calls[k] # {} => task[k] \in {"dispatching", "cancelled"}

(* A workload that leaves the bus room: its handlers publish nothing, or no  *)
(* event makes more than one other and no more events come from outside     *)
(* than the queue has slots.                                                *)
Mute(w) == \A h \in Handlers : w.script[h] = <<>>

Modest(w) ==
    /\ w.limit <= QueueMax
    /\ \A h \in Handlers : Len(w.script[h]) <= 1
    /\ \A t \in Types, g, h \in Handlers :
          /\ {<<t, g>>, <<t, h>>} \subseteq Interests
          /\ w.script[g] # <<>> /\ w.script[h] # <<>>
          => g = h

LeavesRoom(w) == Mute(w) \/ Modest(w)

(* The bus is wedged when the processor waits for handlers that all wait    *)
(* for room in the queue only the processor can empty (events.py:161).      *)
Wedged ==
    /\ Full
    /\ \E k \in Tasks :
        /\ task[k] = "dispatching" /\ DOMAIN calls[k] # {}
        /\ \A h \in DOMAIN calls[k] : calls[k][h].blocked

NeverWedged == ~Wedged

(* An event in the queue of a running bus is taken, unless the bus is       *)
(* stopped first (events.py:214-227).                                       *)
EveryEventTaken ==
    \A n \in 1 .. MaxEvents :
        (running /\ taken < n /\ n <= enqueued) ~> (taken >= n \/ ~running)

(* A publisher blocked on the full queue of a running bus gets its event in *)
(* (events.py:161).                                                         *)
BlockedPublisherResumes ==
    \A p \in Producers :
        (running /\ putting[p] # NoType) ~> (putting[p] = NoType \/ ~running)
=============================================================================
