------------------------------ MODULE Outbound ------------------------------
(***************************************************************************)
(* What leaves the program when the bus dispatches an event: the WebSocket *)
(* streams of keryxflow/api/server.py and the messages of                  *)
(* keryxflow/notifications/manager.py.                                     *)
(*                                                                         *)
(* A dispatch hands the event to every subscribed stream at once: a stream *)
(* that is full forgets its oldest event.  The manager's handler then asks *)
(* one service after the other, and the dispatch ends with the last        *)
(* answer.  Two dispatches overlap when publish_sync() runs beside the     *)
(* bus's own task.  An event is its place in the order of dispatches.      *)
(***************************************************************************)
EXTENDS Integers, Sequences

CONSTANTS
    Clients,          \* the WebSocket connections
    Services,         \* the notifiers, in the order they were added
    Enabled,          \* those whose `enabled` is True
    QueueSize,        \* maxsize of a stream's queue
    MaxEvents,        \* bound: events dispatched
    MaxWaiting        \* bound: events in the queue of the bus

ASSUME OutboundAssumption ==
    QueueSize \in Nat \ {0} /\ MaxEvents \in Nat /\ MaxWaiting \in Nat

VARIABLES
    waiting,      \* the queue of the bus: whether each event is one to notify
    dispatched,   \* the number of events dispatched so far
    dispatches,   \* "bus", "direct" -> the dispatch it awaits
    streams       \* client -> the state of its connection

outboundVars == <<waiting, dispatched, dispatches, streams>>

NoDispatch == [busy |-> FALSE, event |-> 0, left |-> <<>>, answers |-> <<>>]
(* `taken` is the last event taken from the queue, or the last one that was *)
(* dispatched before the stream subscribed.                                 *)
Disconnected == [open |-> FALSE, queue |-> <<>>, sending |-> FALSE, taken |-> 0]

OutboundInit ==
    /\ waiting = <<>> /\ dispatched = 0
    /\ dispatches = [d \in {"bus", "direct"} |-> NoDispatch]
    /\ streams = [c \in Clients |-> Disconnected]

-----------------------------------------------------------------------------
(* server.py *)
Connects(c) ==
    /\ ~streams[c].open
    /\ streams' = [streams EXCEPT ![c] =
                     [Disconnected EXCEPT !.open = TRUE, !.taken = dispatched]]
    /\ UNCHANGED <<waiting, dispatched, dispatches>>

EnqueuedOldest(q, e) == IF Len(q) < QueueSize THEN Append(q, e) ELSE q   \* drops the new one
EnqueuedAlways(q, e) == Append(q, e)                                      \* has no limit
Enqueued(q, e) ==
    IF Len(q) < QueueSize THEN Append(q, e) ELSE Append(Tail(q), e)

TakesEvent(c) ==
    /\ streams[c].open /\ ~streams[c].sending /\ streams[c].queue # <<>>
    /\ streams' = [streams EXCEPT ![c].taken = Head(streams[c].queue),
                                  ![c].queue = Tail(@), ![c].sending = TRUE]
    /\ UNCHANGED <<waiting, dispatched, dispatches>>

SendsEvent(c) ==
    /\ streams[c].sending
    /\ streams' = [streams EXCEPT ![c].sending = FALSE]
    /\ UNCHANGED <<waiting, dispatched, dispatches>>

(* A connection that is gone is noticed when something is sent to it.       *)
SendFails(c) ==
    /\ streams[c].sending
    /\ streams' = [streams EXCEPT ![c] = Disconnected]
    /\ UNCHANGED <<waiting, dispatched, dispatches>>

-----------------------------------------------------------------------------
(* manager.py under the dispatch of the bus *)
PublishesEvent(notable) ==
    /\ Len(waiting) < MaxWaiting
    /\ waiting' = Append(waiting, notable)
    /\ UNCHANGED <<dispatched, dispatches, streams>>

IsEnabled(s) == s \in Enabled
Asks(notable) == IF notable THEN SelectSeq(Services, IsEnabled) ELSE <<>>

Dispatches(d, notable) ==
    /\ ~dispatches[d].busy /\ dispatched < MaxEvents
    /\ dispatched' = dispatched + 1
    /\ streams' = [c \in Clients |->
         IF streams[c].open
         THEN [streams[c] EXCEPT !.queue = Enqueued(@, dispatched')] ELSE streams[c]]
    /\ dispatches' = [dispatches EXCEPT ![d] =
         [busy |-> TRUE, event |-> dispatched', left |-> Asks(notable), answers |-> <<>>]]

BusDispatches ==
    /\ waiting # <<>> /\ waiting' = Tail(waiting)
    /\ Dispatches("bus", Head(waiting))

DirectDispatches(notable) == Dispatches("direct", notable) /\ UNCHANGED waiting

(* A service that raises counts as one that answered False.                 *)
ServiceAnswers(d, ok) ==
    /\ dispatches[d].left # <<>>
    /\ dispatches' = [dispatches EXCEPT ![d].left = Tail(@),
                        ![d].answers = Append(@, <<Head(dispatches[d].left), ok>>)]
    /\ UNCHANGED <<waiting, dispatched, streams>>

DispatchEnds(d) ==
    /\ dispatches[d].busy /\ dispatches[d].left = <<>>
    /\ dispatches' = [dispatches EXCEPT ![d].busy = FALSE]
    /\ UNCHANGED <<waiting, dispatched, streams>>

OutboundNext ==
    \/ \E c \in Clients : Connects(c) \/ TakesEvent(c) \/ SendsEvent(c) \/ SendFails(c)
    \/ \E n \in BOOLEAN : PublishesEvent(n) \/ DirectDispatches(n)
    \/ BusDispatches
    \/ \E d \in {"bus", "direct"} :
         DispatchEnds(d) \/ \E ok \in BOOLEAN : ServiceAnswers(d, ok)

OutboundSpec == OutboundInit /\ [][OutboundNext]_outboundVars

-----------------------------------------------------------------------------
(* Type invariant of the streams and the dispatches.                        *)
OutboundTypeOK ==
    /\ waiting \in Seq(BOOLEAN) /\ dispatched \in 0 .. MaxEvents
    /\ \A c \in Clients :
         /\ streams[c].open \in BOOLEAN /\ streams[c].sending \in BOOLEAN
         /\ streams[c].taken \in 0 .. MaxEvents
         /\ streams[c].queue \in Seq(1 .. MaxEvents) /\ Len(streams[c].queue) <= QueueSize
    /\ \A d \in DOMAIN dispatches :
         dispatches[d].busy \in BOOLEAN /\ dispatches[d].event \in 0 .. MaxEvents

(* What a slow WebSocket client has still to receive are the newest events, *)
(* in the order they were dispatched and after those it has received, and   *)
(* events are missing in between only while its queue is full:              *)
(* _enqueue(), server.py:262, drops from the other end.                     *)
StreamIsNewest ==
    \A c \in Clients : streams[c].open =>
      LET waits == Len(streams[c].queue)  first == dispatched - waits IN
      /\ streams[c].queue = [i \in 1 .. waits |-> first + i]
      /\ streams[c].taken <= first
      /\ streams[c].taken < first => waits = QueueSize
=============================================================================
