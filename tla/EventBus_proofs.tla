--------------------------- MODULE EventBus_proofs ---------------------------
(***************************************************************************)
(* Safety of the event bus for every number of types, handlers, producers, *)
(* processor tasks and queue slots.                                        *)
(*                                                                         *)
(* TypeOK is inductive.  SerialDispatch is not: that stop() cancels the    *)
(* only task that takes events needs the fact that this task is the one in *)
(* `processor`, and that there is none unless the bus runs, which is what  *)
(* lets start() create another beside a cancelled one.  OneProcessor adds  *)
(* both.  NeverWedged holds under a workload that leaves the bus room, by  *)
(* RoomInv: the events in flight are at most those that came from outside. *)
(***************************************************************************)
EXTENDS EventBus, FiniteSetTheorems, TLAPS

(* A task that is not cancelled is the one start() created last, on a bus  *)
(* that runs, and only a task that dispatches or is cancelled has calls.   *)
Live(k) == task[k] \in {"polling", "dispatching"}
OneProcessor ==
    \A k \in Tasks :
        /\ Live(k) => running /\ k = processor
        /\ DOMAIN calls[k] # {} => task[k] \in {"dispatching", "cancelled"}

CallsOK(c) ==
    /\ DOMAIN c \subseteq Handlers
    /\ c \in [DOMAIN c -> Call]

-----------------------------------------------------------------------------
(* No call is a well-formed table of calls.                                 *)
LEMMA NoCallsOK == CallsOK(NoCalls) /\ DOMAIN NoCalls = {}
  BY DEF CallsOK, NoCalls

(* The calls dispatched for a type are well formed.                         *)
LEMMA CallsForOK ==
  ASSUME TypeOK, NEW t \in Types
  PROVE  CallsOK(CallsFor(t))
<1>1. subscribers[t] \subseteq Handlers
  BY DEF TypeOK
<1>2. workload.script \in [Handlers -> Seq(Types)]
  BY BusAssumption DEF TypeOK
<1>. QED
  BY <1>1, <1>2 DEF CallsOK, CallsFor, Call

-----------------------------------------------------------------------------
(* Initially and after every step the variables have their types.           *)
LEMMA InitTypeOK == Init => TypeOK
<1>. SUFFICES ASSUME Init PROVE TypeOK
  OBVIOUS
<1>1. 0 \in 0 .. MaxStarts
  BY BusAssumption
<1>2. calls = [d \in Dispatchers |-> NoCalls]
  BY DEF Init
<1>3. \A d \in Dispatchers : CallsOK(calls[d])
  BY <1>2, NoCallsOK
<1>4. queue \in Seq(Types) /\ Len(queue) <= QueueMax
  BY BusAssumption DEF Init
<1>5. task \in [Tasks -> {"none", "polling", "dispatching", "cancelled", "ended"}]
  BY DEF Init
<1>6. subscribers \in [Types -> SUBSET Handlers]
  BY DEF Init
<1>7. putting \in [Producers -> Types \cup {NoType}]
  BY DEF Init
<1>8. DOMAIN calls = Dispatchers
  BY <1>2
<1>. QED
  BY <1>1, <1>3, <1>4, <1>5, <1>6, <1>7, <1>8 DEF Init, TypeOK, CallsOK

(* An event that is put finds room.                                         *)
LEMMA EnqueueOK ==
  ASSUME TypeOK, NEW t \in Types, ~Full, Enqueue(t)
  PROVE  queue' \in Seq(Types) /\ Len(queue') <= QueueMax /\ enqueued' \in Nat
<1>1. queue \in Seq(Types) /\ Len(queue) \in Nat /\ Len(queue) < QueueMax /\ QueueMax \in Nat
  BY BusAssumption DEF TypeOK, Full
<1>2. queue' \in Seq(Types) /\ Len(queue') = Len(queue) + 1 /\ enqueued' \in Nat
  BY <1>1 DEF TypeOK, Enqueue
<1>. QED
  BY <1>1, <1>2

(* Every action keeps the types.                                            *)
LEMMA NextTypeOK == TypeOK /\ [Next]_vars => TypeOK'
<1>. SUFFICES ASSUME TypeOK, [Next]_vars PROVE TypeOK'
  OBVIOUS
<1>. USE DEF TypeOK
<1>1. ASSUME NEW t \in Types, NEW h \in Handlers, Subscribe(t, h) \/ Unsubscribe(t, h)
      PROVE  TypeOK'
  BY <1>1 DEF Subscribe, Unsubscribe
<1>2. CASE Start
  <2>1. PICK k \in Tasks : processor' = k /\ task' = [task EXCEPT ![k] = "polling"]
    BY <1>2 DEF Start
  <2>2. processor' \in 0 .. MaxStarts
    BY <2>1, BusAssumption DEF Tasks
  <2>3. task' \in [Tasks -> {"none", "polling", "dispatching", "cancelled", "ended"}]
    BY <2>1
  <2>4. /\ running' = TRUE
        /\ UNCHANGED <<workload, subscribers, queue, calls, putting, published,
                       enqueued, taken>>
    BY <1>2 DEF Start
  <2>. QED
    BY <2>2, <2>3, <2>4
<1>3. CASE Stop
  BY <1>3 DEF Stop
<1>4. ASSUME NEW p \in Producers, NEW t \in Types, Publish(p, t)
      PROVE  TypeOK'
  <2>2. CASE ~Full /\ Enqueue(t) /\ UNCHANGED putting
    BY <1>4, <2>2, EnqueueOK DEF Publish
  <2>3. CASE /\ putting' = [putting EXCEPT ![p] = t]
             /\ UNCHANGED <<queue, enqueued>>
    BY <1>4, <2>3 DEF Publish
  <2>. QED
    BY <1>4, <2>2, <2>3 DEF Publish
<1>5. ASSUME NEW p \in Producers, NEW t \in Types, PublishSync(p, t)
      PROVE  TypeOK'
  <2>1. CallsOK(CallsFor(t))
    BY CallsForOK
  <2>. QED
    BY <1>5, <2>1 DEF PublishSync, CallsOK
<1>6. ASSUME NEW p \in Producers, PutResumes(p)
      PROVE  TypeOK'
  <2>1. putting[p] \in Types
    BY <1>6 DEF PutResumes
  <2>. QED
    BY <1>6, <2>1, EnqueueOK DEF PutResumes
<1>7. ASSUME NEW k \in Tasks, TakeEvent(k)
      PROVE  TypeOK'
  <2>1. Head(queue) \in Types /\ Tail(queue) \in Seq(Types) /\ Len(Tail(queue)) <= QueueMax
    BY <1>7, BusAssumption DEF TakeEvent
  <2>2. CallsOK(CallsFor(Head(queue)))
    BY <2>1, CallsForOK
  <2>. QED
    BY <1>7, <2>1, <2>2 DEF TakeEvent, CallsOK
<1>8. ASSUME NEW k \in Tasks, DispatchDone(k) \/ StopReturns(k)
      PROVE  TypeOK'
  BY <1>8 DEF DispatchDone, StopReturns
<1>9. ASSUME NEW d \in Dispatchers, NEW h \in Handlers, CallPublishes(d, h)
      PROVE  TypeOK'
  <2>1. calls[d][h] \in Call /\ calls[d][h].left # <<>>
    BY <1>9 DEF CallPublishes
  <2>2. /\ Head(calls[d][h].left) \in Types
        /\ Tail(calls[d][h].left) \in Seq(Types)
    BY <2>1 DEF Call
  <2>4. /\ Published(calls[d][h]) \in Call
        /\ [calls[d][h] EXCEPT !.blocked = TRUE] \in Call
    BY <2>1, <2>2 DEF Published, Call
  <2>5. CASE /\ ~Full /\ Enqueue(Head(calls[d][h].left))
             /\ calls' = [calls EXCEPT ![d][h] = Published(@)]
    <3>1. queue' \in Seq(Types) /\ Len(queue') <= QueueMax /\ enqueued' \in Nat
      BY <2>2, <2>5, EnqueueOK
    <3>. QED
      BY <1>9, <2>4, <2>5, <3>1 DEF CallPublishes
  <2>6. CASE /\ calls' = [calls EXCEPT ![d][h].blocked = TRUE]
             /\ UNCHANGED <<queue, enqueued>>
    BY <1>9, <2>4, <2>6 DEF CallPublishes
  <2>. QED
    BY <1>9, <2>5, <2>6 DEF CallPublishes
<1>10. ASSUME NEW d \in Dispatchers, NEW h \in Handlers, CallEnds(d, h)
       PROVE  TypeOK'
  BY <1>10 DEF CallEnds
<1>11. CASE UNCHANGED vars
  BY <1>11 DEF vars
<1>. QED
  BY <1>1, <1>2, <1>3, <1>4, <1>5, <1>6, <1>7, <1>8, <1>9, <1>10, <1>11
     DEF Next, CallStep

(* The variables of the bus always have their types.                        *)
THEOREM TypeCorrect == Spec => []TypeOK
  BY InitTypeOK, NextTypeOK, PTL DEF Spec

-----------------------------------------------------------------------------
(* OneProcessor holds initially and every step keeps it.                    *)
LEMMA InitOneProcessor == Init => OneProcessor
  BY NoCallsOK DEF Init, OneProcessor, Live, Dispatchers

LEMMA NextOneProcessor == TypeOK /\ OneProcessor /\ [Next]_vars => OneProcessor'
<1>. SUFFICES ASSUME TypeOK, OneProcessor, [Next]_vars PROVE OneProcessor'
  OBVIOUS
<1>. USE DEF TypeOK, OneProcessor, Live
<1>1. ASSUME NEW t \in Types, NEW h \in Handlers, Subscribe(t, h) \/ Unsubscribe(t, h)
      PROVE  OneProcessor'
  BY <1>1 DEF Subscribe, Unsubscribe
<1>2. CASE Start
  <2>1. PICK k \in Tasks : /\ task[k] = "none"
                           /\ processor' = k
                           /\ task' = [task EXCEPT ![k] = "polling"]
    BY <1>2 DEF Start
  <2>2. \A j \in Tasks : ~Live(j)
    BY <1>2 DEF Start
  <2>. QED
    BY <1>2, <2>1, <2>2 DEF Start
<1>3. CASE Stop
  <2>1. /\ task' = [task EXCEPT ![processor] = "cancelled"]
        /\ UNCHANGED <<processor, calls>>
    BY <1>3 DEF Stop
  <2>2. ASSUME NEW k \in Tasks
        PROVE  /\ task'[k] = IF k = processor THEN "cancelled" ELSE task[k]
               /\ ~Live(k)'
    BY <2>1
  <2>. QED
    BY <2>1, <2>2
<1>4. ASSUME NEW p \in Producers, NEW t \in Types, Publish(p, t)
      PROVE  OneProcessor'
  BY <1>4 DEF Publish
<1>5. ASSUME NEW p \in Producers, NEW t \in Types, PublishSync(p, t)
      PROVE  OneProcessor'
  <2>1. p \notin Tasks
    BY BusAssumption
  <2>. QED
    BY <1>5, <2>1 DEF PublishSync, Dispatchers
<1>6. ASSUME NEW p \in Producers, PutResumes(p)
      PROVE  OneProcessor'
  BY <1>6 DEF PutResumes
<1>7. ASSUME NEW k \in Tasks, TakeEvent(k)
      PROVE  OneProcessor'
  BY <1>7 DEF TakeEvent
<1>8. ASSUME NEW k \in Tasks, DispatchDone(k) \/ StopReturns(k)
      PROVE  OneProcessor'
  BY <1>8 DEF DispatchDone, StopReturns
<1>9. ASSUME NEW d \in Dispatchers, NEW h \in Handlers, CallPublishes(d, h)
      PROVE  OneProcessor'
  <2>1. \A e \in Dispatchers : DOMAIN calls'[e] = DOMAIN calls[e]
    BY <1>9 DEF CallPublishes
  <2>. QED
    BY <1>9, <2>1 DEF CallPublishes, Dispatchers
<1>10. ASSUME NEW d \in Dispatchers, NEW h \in Handlers, CallEnds(d, h)
       PROVE  OneProcessor'
  <2>1. \A e \in Dispatchers : DOMAIN calls'[e] \subseteq DOMAIN calls[e]
    BY <1>10 DEF CallEnds
  <2>. QED
    BY <1>10, <2>1 DEF CallEnds, Dispatchers
<1>11. CASE UNCHANGED vars
  BY <1>11 DEF vars
<1>. QED
  BY <1>1, <1>2, <1>3, <1>4, <1>5, <1>6, <1>7, <1>8, <1>9, <1>10, <1>11
     DEF Next, CallStep

(* The handlers of two queued events never act side by side, in whatever    *)
(* order the bus is started and stopped, also when it is started again      *)
(* while a stop() awaits the handlers it cancelled.                         *)
THEOREM SerialDispatchCorrect == Spec => []SerialDispatch
<1>1. OneProcessor => SerialDispatch
  BY DEF OneProcessor, SerialDispatch, Live
<1>2. Spec => []OneProcessor
  BY TypeCorrect, InitOneProcessor, NextOneProcessor, PTL DEF Spec
<1>. QED
  BY <1>1, <1>2, PTL

-----------------------------------------------------------------------------
(* NeverWedged.  Whatever is queued, about to be queued by a handler or     *)
(* waiting for room once came from outside, and an event that is taken      *)
(* makes at most one other: the number of events in flight is at most that  *)
(* of the publications.                                                     *)
Pending(c) == {h \in DOMAIN c : c[h].left # <<>>}
Busy == {d \in Dispatchers : Pending(calls[d]) # {}}
Waiting == {p \in Producers : putting[p] # NoType}

OnePending(c) ==
    \A h \in Pending(c) : Tail(c[h].left) = <<>> /\ \A g \in Pending(c) : g = h

InFlight ==
    /\ published <= workload.limit
    /\ Len(queue) + Cardinality(Busy) + Cardinality(Waiting) <= published

RoomInv ==
    /\ \A t \in Types : \A h \in subscribers[t] : <<t, h>> \in Interests
    /\ \A d \in Dispatchers : \A h \in DOMAIN calls[d] :
           calls[d][h].blocked => calls[d][h].left # <<>>
    /\ Mute(workload) => Busy = {}
    /\ Modest(workload) => (\A d \in Dispatchers : OnePending(calls[d])) /\ InFlight

LEMMA Counted ==
  ASSUME NEW S, IsFiniteSet(S), NEW T
  PROVE  /\ Cardinality(S) \in Nat
         /\ T \subseteq S => Cardinality(T) \in Nat /\ Cardinality(T) <= Cardinality(S)
         /\ \A x : T \subseteq S \cup {x} =>
                Cardinality(T) \in Nat /\ Cardinality(T) <= Cardinality(S) + 1
         /\ \A x \in S : T \subseteq S \ {x} =>
                Cardinality(T) \in Nat /\ Cardinality(T) <= Cardinality(S) - 1
<1>1. Cardinality(S) \in Nat
  BY FS_CardinalityType
<1>2. ASSUME NEW R, IsFiniteSet(R), T \subseteq R
      PROVE  Cardinality(T) \in Nat /\ Cardinality(T) <= Cardinality(R)
  BY <1>2, FS_Subset, FS_CardinalityType
<1>3. ASSUME NEW x, T \subseteq S \cup {x}
      PROVE  Cardinality(T) \in Nat /\ Cardinality(T) <= Cardinality(S) + 1
  <2>1. /\ IsFiniteSet(S \cup {x})
        /\ Cardinality(S \cup {x}) = IF x \in S THEN Cardinality(S) ELSE Cardinality(S) + 1
    BY FS_AddElement
  <2>2. Cardinality(T) \in Nat /\ Cardinality(T) <= Cardinality(S \cup {x})
    BY <1>2, <1>3, <2>1
  <2>. QED
    BY <1>1, <2>1, <2>2
<1>4. ASSUME NEW x \in S, T \subseteq S \ {x}
      PROVE  Cardinality(T) \in Nat /\ Cardinality(T) <= Cardinality(S) - 1
  <2>1. /\ IsFiniteSet(S \ {x})
        /\ Cardinality(S \ {x}) = Cardinality(S) - 1
    BY FS_RemoveElement
  <2>2. Cardinality(T) \in Nat /\ Cardinality(T) <= Cardinality(S \ {x})
    BY <1>2, <1>4, <2>1
  <2>. QED
    BY <2>1, <2>2
<1>. QED
  BY <1>1, <1>2, <1>3, <1>4

LEMMA FlightFinite == IsFiniteSet(Busy) /\ IsFiniteSet(Waiting)
<1>1. IsFiniteSet(Tasks) /\ IsFiniteSet(Producers)
  BY BusAssumption, FS_Interval DEF Tasks
<1>2. IsFiniteSet(Dispatchers)
  BY <1>1, FS_Union DEF Dispatchers
<1>. QED
  BY <1>1, <1>2, FS_Subset DEF Busy, Waiting

(* What the dispatch of an event leaves to publish.                         *)
LEMMA CallsForPending ==
  ASSUME TypeOK, RoomInv, NEW t \in Types
  PROVE  /\ \A h \in DOMAIN CallsFor(t) : ~CallsFor(t)[h].blocked
         /\ Mute(workload) => Pending(CallsFor(t)) = {}
         /\ Modest(workload) => OnePending(CallsFor(t))
<1>. DEFINE c == CallsFor(t)
            s == workload.script
<1>1. subscribers[t] \subseteq Handlers /\ \A h \in subscribers[t] : <<t, h>> \in Interests
  BY DEF TypeOK, RoomInv
<1>2. s \in [Handlers -> Seq(Types)]
  BY BusAssumption DEF TypeOK
<1>3. /\ DOMAIN c = subscribers[t]
      /\ \A h \in DOMAIN c : c[h].left = s[h] /\ c[h].blocked = FALSE
  BY DEF CallsFor
<1>. HIDE DEF c, s
<1>4. Pending(c) = {h \in subscribers[t] : s[h] # <<>>}
  BY <1>3 DEF Pending
<1>5. Mute(workload) => Pending(c) = {}
  BY <1>1, <1>4 DEF Mute, s
<1>6. ASSUME Modest(workload), NEW h \in Pending(c)
      PROVE  Tail(c[h].left) = <<>> /\ \A g \in Pending(c) : g = h
  <2>1. h \in Handlers /\ s[h] # <<>> /\ <<t, h>> \in Interests
    BY <1>1, <1>4
  <2>2. Len(s[h]) <= 1
    BY <1>6, <2>1 DEF Modest, s
  <2>3. Tail(s[h]) = <<>>
    <3>1. s[h] \in Seq(Types)
      BY <1>2, <2>1
    <3>. QED
      BY <2>1, <2>2, <3>1
  <2>4. c[h].left = s[h]
    BY <1>3, <1>6 DEF Pending
  <2>5. ASSUME NEW g \in Pending(c)
        PROVE  g = h
    <3>1. g \in Handlers /\ s[g] # <<>> /\ <<t, g>> \in Interests
      BY <1>1, <1>4
    <3>2. {<<t, g>>, <<t, h>>} \subseteq Interests
      BY <2>1, <3>1
    <3>. QED
      BY <1>6, <2>1, <3>1, <3>2 DEF Modest, s
  <2>. QED
    BY <2>3, <2>4, <2>5
<1>. QED
  BY <1>3, <1>5, <1>6 DEF OnePending, c
(* The calls of one dispatcher change.                                      *)
CallsGood(c) ==
    /\ \A h \in DOMAIN c : c[h].blocked => c[h].left # <<>>
    /\ Mute(workload) => Pending(c) = {}
    /\ Modest(workload) => OnePending(c)

LEMMA BusyStep ==
  ASSUME TypeOK, NEW d \in Dispatchers, NEW c, calls' = [calls EXCEPT ![d] = c]
  PROVE  /\ Busy' = IF Pending(c) # {} THEN Busy \cup {d} ELSE Busy \ {d}
         /\ calls'[d] = c
         /\ \A e \in Dispatchers \ {d} : calls'[e] = calls[e]
<1>1. calls'[d] = c /\ \A e \in Dispatchers \ {d} : calls'[e] = calls[e]
  BY DEF TypeOK
<1>2. Busy' = {e \in Dispatchers : Pending(calls'[e]) # {}}
  BY DEF Busy, Pending
<1>. QED
  BY <1>1, <1>2, Zenon DEF Busy

LEMMA RoomStep ==
  ASSUME TypeOK, RoomInv, UNCHANGED <<workload, subscribers>>,
         NEW d \in Dispatchers, NEW c, calls' = [calls EXCEPT ![d] = c],
         CallsGood(c), Modest(workload) => InFlight'
  PROVE  RoomInv'
<1>1. /\ Busy' = IF Pending(c) # {} THEN Busy \cup {d} ELSE Busy \ {d}
      /\ calls'[d] = c
      /\ \A e \in Dispatchers \ {d} : calls'[e] = calls[e]
  BY BusyStep
<1>2. \A e \in Dispatchers : \A h \in DOMAIN calls'[e] :
          calls'[e][h].blocked => calls'[e][h].left # <<>>
  <2>. TAKE e \in Dispatchers
  <2>. QED
    BY <1>1, Zenon DEF RoomInv, CallsGood
<1>3. Mute(workload) => Busy' = {}
  BY <1>1 DEF RoomInv, CallsGood
<1>4. Modest(workload) => \A e \in Dispatchers : OnePending(calls'[e])
  BY <1>1, Zenon DEF RoomInv, CallsGood
<1>5. \A t \in Types : \A h \in subscribers'[t] : <<t, h>> \in Interests
  BY DEF RoomInv
<1>6. /\ Mute(workload)' = Mute(workload) /\ Modest(workload)' = Modest(workload)
      /\ \A e \in Dispatchers : OnePending(calls[e])' = OnePending(calls'[e])
  BY DEF Mute, Modest, OnePending, Pending
<1>. QED
  BY <1>2, <1>3, <1>4, <1>5, <1>6, Zenon DEF RoomInv

LEMMA RoomStill ==
  ASSUME RoomInv, workload' = workload, \A d \in Dispatchers : calls'[d] = calls[d],
         \A t \in Types : \A h \in subscribers'[t] : <<t, h>> \in Interests,
         Modest(workload) => InFlight'
  PROVE  RoomInv'
<1>1. /\ Mute(workload)' = Mute(workload) /\ Modest(workload)' = Modest(workload)
      /\ \A e \in Dispatchers : OnePending(calls[e])' = OnePending(calls'[e])
      /\ Busy' = {e \in Dispatchers : Pending(calls'[e]) # {}}
  BY DEF Mute, Modest, OnePending, Pending, Busy
<1>2. Busy' = Busy
  BY <1>1 DEF Busy
<1>3. \A d \in Dispatchers : OnePending(calls[d])' = OnePending(calls[d])
  BY <1>1
<1>. QED
  BY <1>1, <1>2, <1>3, Zenon DEF RoomInv

(* InFlight survives when no more is in flight than before, counting what   *)
(* is published.                                                            *)
LEMMA FlightNumbers ==
  ASSUME TypeOK
  PROVE  /\ Len(queue) \in Nat /\ published \in Nat /\ workload.limit \in Nat
         /\ Cardinality(Busy) \in Nat /\ Cardinality(Waiting) \in Nat
<1>1. workload.limit \in Nat
  BY BusAssumption DEF TypeOK
<1>2. Len(queue) \in Nat /\ published \in Nat
  BY DEF TypeOK
<1>. QED
  BY <1>1, <1>2, FlightFinite, FS_CardinalityType

(* A step that leaves the queue and the publishers, and at most ends calls. *)
LEMMA FlightShrinks ==
  ASSUME TypeOK, InFlight, UNCHANGED <<workload, queue, putting, published>>,
         Busy' \subseteq Busy
  PROVE  InFlight'
<1>1. Cardinality(Busy') \in Nat /\ Cardinality(Busy') <= Cardinality(Busy)
  BY Counted, FlightFinite
<1>2. Waiting' = Waiting
  BY DEF Waiting
<1>. QED
  BY <1>1, <1>2, FlightNumbers DEF InFlight

LEMMA RoomSubscribe ==
  ASSUME TypeOK, RoomInv, NEW t \in Types, NEW h \in Handlers,
         Subscribe(t, h) \/ Unsubscribe(t, h)
  PROVE  RoomInv'
<1>1. \A e \in Types : \A g \in subscribers'[e] : <<e, g>> \in Interests
  BY DEF TypeOK, RoomInv, Subscribe, Unsubscribe
<1>2. UNCHANGED <<workload, queue, calls, putting, published>>
  BY DEF Subscribe, Unsubscribe
<1>3. Busy' = Busy
  BY <1>2 DEF Busy, Pending
<1>4. Modest(workload) => InFlight'
  BY <1>2, <1>3, FlightShrinks DEF RoomInv
<1>. QED
  BY <1>1, <1>2, <1>4, RoomStill

(* A step of a task that publishes and calls nothing.                       *)
LEMMA RoomNoCall ==
  ASSUME TypeOK, RoomInv, \A d \in Dispatchers : calls'[d] = calls[d],
         UNCHANGED <<workload, subscribers, queue, putting, published>>
  PROVE  RoomInv'
<1>1. Busy' = Busy
  <2>1. Busy' = {e \in Dispatchers : Pending(calls'[e]) # {}}
    BY DEF Busy, Pending
  <2>. QED
    BY <2>1 DEF Busy
<1>2. Modest(workload) => InFlight'
  BY <1>1, FlightShrinks DEF RoomInv
<1>. QED
  BY <1>2, RoomStill DEF RoomInv

(* A step that ends calls of one dispatcher.                                *)
LEMMA RoomCallsEnd ==
  ASSUME TypeOK, RoomInv, UNCHANGED <<workload, subscribers, queue, putting, published>>,
         NEW d \in Dispatchers, NEW c, calls' = [calls EXCEPT ![d] = c],
         Pending(c) = {} \/ d \in Busy, CallsGood(c)
  PROVE  RoomInv'
<1>1. Busy' \subseteq Busy
  BY BusyStep
<1>2. Modest(workload) => InFlight'
  BY <1>1, FlightShrinks DEF RoomInv
<1>. QED
  BY <1>2, RoomStep

LEMMA RoomPublish ==
  ASSUME TypeOK, RoomInv, NEW p \in Producers, NEW t \in Types, Publish(p, t)
  PROVE  RoomInv'
<1>1. /\ UNCHANGED <<workload, subscribers, calls>>
      /\ published < workload.limit /\ published' = published + 1
  BY DEF Publish
<1>2. Busy' = Busy
  BY <1>1 DEF Busy, Pending
<1>3. ASSUME Modest(workload)
      PROVE  Len(queue') + Cardinality(Waiting') <= Len(queue) + Cardinality(Waiting) + 1
  <2>1. CASE Enqueue(t) /\ UNCHANGED putting
    <3>1. Len(queue') = Len(queue) + 1
      BY <2>1 DEF Enqueue, TypeOK
    <3>2. Waiting' = Waiting
      BY <2>1 DEF Waiting
    <3>. QED
      BY <3>1, <3>2, FlightNumbers
  <2>2. CASE putting' = [putting EXCEPT ![p] = t] /\ UNCHANGED <<queue, enqueued>>
    <3>1. Waiting' \subseteq Waiting \cup {p}
      BY <2>2 DEF Waiting, TypeOK
    <3>2. Cardinality(Waiting') \in Nat /\ Cardinality(Waiting') <= Cardinality(Waiting) + 1
      BY <3>1, Counted, FlightFinite
    <3>. QED
      BY <2>2, <3>2, FlightNumbers
  <2>. QED
    BY <2>1, <2>2 DEF Publish
<1>4. Len(queue') \in Nat /\ Cardinality(Waiting') \in Nat
  <2>1. Waiting' \subseteq Producers /\ IsFiniteSet(Producers)
    BY BusAssumption DEF Waiting
  <2>2. Cardinality(Waiting') \in Nat
    BY <2>1, FS_Subset, FS_CardinalityType
  <2>3. Len(queue') \in Nat
    BY DEF Publish, Enqueue, TypeOK
  <2>. QED
    BY <2>2, <2>3
<1>5. Modest(workload) => InFlight'
  BY <1>1, <1>2, <1>3, <1>4, FlightNumbers DEF RoomInv, InFlight
<1>. QED
  BY <1>1, <1>5, RoomStill DEF RoomInv

LEMMA RoomPutResumes ==
  ASSUME TypeOK, RoomInv, NEW p \in Producers, PutResumes(p)
  PROVE  RoomInv'
<1>1. /\ UNCHANGED <<workload, subscribers, calls, published>>
      /\ putting[p] # NoType /\ Enqueue(putting[p])
      /\ putting' = [putting EXCEPT ![p] = NoType]
  BY DEF PutResumes
<1>2. Busy' = Busy
  BY <1>1 DEF Busy, Pending
<1>3. Len(queue') = Len(queue) + 1
  BY <1>1 DEF Enqueue, TypeOK
<1>4. Cardinality(Waiting') \in Nat /\ Cardinality(Waiting') <= Cardinality(Waiting) - 1
  <2>1. p \in Waiting /\ Waiting' \subseteq Waiting \ {p}
    BY <1>1 DEF Waiting, TypeOK
  <2>. QED
    BY <2>1, Counted, FlightFinite
<1>5. Modest(workload) => InFlight'
  BY <1>1, <1>2, <1>3, <1>4, FlightNumbers DEF RoomInv, InFlight
<1>. QED
  BY <1>1, <1>5, RoomStill DEF RoomInv

(* An event is dispatched: the calls it makes take its place.               *)
LEMMA RoomPublishSync ==
  ASSUME TypeOK, RoomInv, NEW p \in Producers, NEW t \in Types, PublishSync(p, t)
  PROVE  RoomInv'
<1>1. /\ UNCHANGED <<workload, subscribers, queue, putting>>
      /\ published < workload.limit /\ published' = published + 1
      /\ p \in Dispatchers /\ calls' = [calls EXCEPT ![p] = CallsFor(t)]
  BY DEF PublishSync, Dispatchers
<1>2. CallsGood(CallsFor(t))
  BY CallsForPending DEF CallsGood
<1>3. Cardinality(Busy') \in Nat /\ Cardinality(Busy') <= Cardinality(Busy) + 1
  <2>1. Busy' \subseteq Busy \cup {p}
    BY <1>1, BusyStep
  <2>. QED
    BY <2>1, Counted, FlightFinite
<1>4. Waiting' = Waiting
  BY <1>1 DEF Waiting
<1>5. Modest(workload) => InFlight'
  BY <1>1, <1>3, <1>4, FlightNumbers DEF RoomInv, InFlight
<1>. QED
  BY <1>1, <1>2, <1>5, RoomStep

LEMMA RoomTakeEvent ==
  ASSUME TypeOK, RoomInv, NEW k \in Tasks, TakeEvent(k)
  PROVE  RoomInv'
<1> DEFINE t == Head(queue)
<1>1. /\ UNCHANGED <<workload, subscribers, putting, published>>
      /\ queue # <<>> /\ queue' = Tail(queue)
      /\ k \in Dispatchers /\ calls' = [calls EXCEPT ![k] = CallsFor(t)]
  BY DEF TakeEvent, Dispatchers
<1>2. t \in Types /\ Len(queue') = Len(queue) - 1
  <2>1. queue \in Seq(Types)
    BY DEF TypeOK
  <2>. QED
    BY <1>1, <2>1
<1> HIDE DEF t
<1>3. CallsGood(CallsFor(t))
  BY <1>2, CallsForPending DEF CallsGood
<1>4. Cardinality(Busy') \in Nat /\ Cardinality(Busy') <= Cardinality(Busy) + 1
  <2>1. Busy' \subseteq Busy \cup {k}
    BY <1>1, BusyStep
  <2>. QED
    BY <2>1, Counted, FlightFinite
<1>5. Waiting' = Waiting
  BY <1>1 DEF Waiting
<1>6. Modest(workload) => InFlight'
  BY <1>1, <1>2, <1>4, <1>5, FlightNumbers DEF RoomInv, InFlight
<1>. QED
  BY <1>1, <1>3, <1>6, RoomStep

(* A handler that publishes has nothing left to publish, when it may        *)
(* publish one event.                                                       *)
LEMMA RoomCallPublishes ==
  ASSUME TypeOK, RoomInv, NEW d \in Dispatchers, NEW h \in Handlers, CallPublishes(d, h)
  PROVE  RoomInv'
<1>1. /\ UNCHANGED <<workload, subscribers, putting, published>>
      /\ h \in DOMAIN calls[d] /\ calls[d][h].left # <<>>
      /\ calls[d] \in [DOMAIN calls[d] -> Call]
  BY DEF CallPublishes, TypeOK
<1>2. h \in Pending(calls[d]) /\ d \in Busy /\ ~Mute(workload)
  BY <1>1 DEF Pending, Busy, RoomInv
<1>3. CASE /\ Full /\ ~calls[d][h].blocked
           /\ calls' = [calls EXCEPT ![d][h].blocked = TRUE]
           /\ UNCHANGED <<queue, enqueued>>
  <2> DEFINE c == [calls[d] EXCEPT ![h].blocked = TRUE]
  <2>1. calls' = [calls EXCEPT ![d] = c]
    BY <1>3
  <2>2. /\ DOMAIN c = DOMAIN calls[d]
        /\ \A g \in DOMAIN c : /\ c[g].left = calls[d][g].left
                               /\ c[g].blocked => calls[d][g].blocked \/ g = h
    BY <1>1 DEF Call
  <2> HIDE DEF c
  <2>3. Pending(c) = Pending(calls[d])
    BY <2>2 DEF Pending
  <2>4. \A g \in DOMAIN c : c[g].blocked => c[g].left # <<>>
    BY <1>1, <2>2 DEF RoomInv
  <2>5. Modest(workload) => OnePending(c)
    BY <2>2, <2>3 DEF RoomInv, OnePending, Pending
  <2>6. CallsGood(c)
    BY <1>2, <2>4, <2>5 DEF CallsGood
  <2>. QED
    BY <1>1, <1>2, <1>3, <2>1, <2>6, RoomCallsEnd
<1>4. CASE /\ Enqueue(Head(calls[d][h].left))
           /\ calls' = [calls EXCEPT ![d][h] = Published(@)]
  <2> DEFINE c == [calls[d] EXCEPT ![h] = Published(@)]
  <2>1. calls' = [calls EXCEPT ![d] = c]
    BY <1>4
  <2>2. /\ DOMAIN c = DOMAIN calls[d]
        /\ c[h].left = Tail(calls[d][h].left) /\ ~c[h].blocked
        /\ \A g \in DOMAIN c \ {h} : c[g] = calls[d][g]
    BY <1>1 DEF Published
  <2> HIDE DEF c
  <2>3. \A g \in DOMAIN c : c[g].blocked => c[g].left # <<>>
    BY <1>1, <2>2 DEF RoomInv
  <2>4. ASSUME Modest(workload)
        PROVE  Pending(c) = {}
    <3>1. /\ Tail(calls[d][h].left) = <<>>
          /\ \A g \in Pending(calls[d]) : g = h
      BY <1>2, <2>4 DEF RoomInv, OnePending
    <3>2. \A g \in DOMAIN c \ {h} : c[g].left = <<>>
      BY <2>2, <3>1 DEF Pending
    <3>. QED
      BY <2>2, <3>1, <3>2 DEF Pending
  <2>5. CallsGood(c)
    BY <1>2, <2>3, <2>4 DEF CallsGood, OnePending
  <2>6. ASSUME Modest(workload)
        PROVE  InFlight'
    <3>1. Busy' \subseteq Busy \ {d}
      BY <2>1, <2>4, <2>6, BusyStep
    <3>2. Cardinality(Busy') \in Nat /\ Cardinality(Busy') <= Cardinality(Busy) - 1
      BY <1>2, <3>1, Counted, FlightFinite
    <3>3. Len(queue') = Len(queue) + 1
      BY <1>4 DEF Enqueue, TypeOK
    <3>4. Waiting' = Waiting
      BY <1>1 DEF Waiting
    <3>. QED
      BY <1>1, <2>6, <3>2, <3>3, <3>4, FlightNumbers DEF RoomInv, InFlight
  <2>. QED
    BY <1>1, <2>1, <2>5, <2>6, RoomStep
<1>. QED
  BY <1>3, <1>4 DEF CallPublishes

LEMMA RoomCallEnds ==
  ASSUME TypeOK, RoomInv, NEW d \in Dispatchers, NEW h \in Handlers, CallEnds(d, h)
  PROVE  RoomInv'
<1> DEFINE c == [g \in DOMAIN calls[d] \ {h} |-> calls[d][g]]
<1>1. /\ UNCHANGED <<workload, subscribers, queue, putting, published>>
      /\ calls' = [calls EXCEPT ![d] = c]
  BY DEF CallEnds
<1>2. DOMAIN c \subseteq DOMAIN calls[d] /\ \A g \in DOMAIN c : c[g] = calls[d][g]
  OBVIOUS
<1> HIDE DEF c
<1>3. Pending(c) \subseteq Pending(calls[d])
  BY <1>2 DEF Pending
<1>4. \A g \in DOMAIN c : c[g].blocked => c[g].left # <<>>
  BY <1>2 DEF RoomInv
<1>5. Mute(workload) => Pending(c) = {}
  BY <1>3 DEF RoomInv, Busy
<1>6. Modest(workload) => OnePending(c)
  BY <1>2, <1>3 DEF RoomInv, OnePending, Pending
<1>7. CallsGood(c)
  BY <1>4, <1>5, <1>6 DEF CallsGood
<1>8. Pending(c) = {} \/ d \in Busy
  BY <1>3 DEF Busy
<1>. QED
  BY <1>1, <1>7, <1>8, RoomCallsEnd

LEMMA NextRoomInv == TypeOK /\ RoomInv /\ [Next]_vars => RoomInv'
<1>. SUFFICES ASSUME TypeOK, RoomInv, [Next]_vars PROVE RoomInv'
  OBVIOUS
<1>1. CASE Start \/ Stop
  BY <1>1, RoomNoCall DEF Start, Stop
<1>2. ASSUME NEW k \in Tasks, DispatchDone(k) \/ StopReturns(k)
      PROVE  RoomInv'
  BY <1>2, RoomNoCall DEF DispatchDone, StopReturns
<1>3. CASE UNCHANGED vars
  BY <1>3, RoomNoCall DEF vars
<1>. QED
  BY <1>1, <1>2, <1>3, RoomSubscribe, RoomPublish, RoomPublishSync,
     RoomPutResumes, RoomTakeEvent, RoomCallPublishes, RoomCallEnds, Zenon
     DEF Next, CallStep

LEMMA InitRoomInv == Init => RoomInv
<1>. SUFFICES ASSUME Init PROVE RoomInv
  OBVIOUS
<1>1. \A d \in Dispatchers : DOMAIN calls[d] = {}
  BY NoCallsOK DEF Init
<1>2. Busy = {} /\ \A d \in Dispatchers : OnePending(calls[d])
  BY <1>1 DEF Busy, Pending, OnePending
<1>3. Waiting = {} /\ Len(queue) = 0 /\ published = 0 /\ workload \in Workloads
  BY DEF Init, Waiting
<1>4. workload.limit \in Nat
  BY <1>3, BusAssumption
<1>5. InFlight
  BY <1>2, <1>3, <1>4, FS_EmptySet DEF InFlight
<1>. QED
  BY <1>1, <1>2, <1>5 DEF Init, RoomInv

(* A full queue and a blocked handler are one event more in flight than the *)
(* queue has slots.                                                         *)
LEMMA RoomNeverWedged ==
  ASSUME TypeOK, RoomInv, LeavesRoom(workload)
  PROVE  NeverWedged
<1>. SUFFICES ASSUME Wedged PROVE FALSE
  BY DEF NeverWedged
<1>1. PICK k \in Tasks : /\ DOMAIN calls[k] # {}
                         /\ \A h \in DOMAIN calls[k] : calls[k][h].blocked
  BY DEF Wedged
<1>2. k \in Busy
  BY <1>1 DEF RoomInv, Busy, Pending, Dispatchers
<1>3. Modest(workload)
  BY <1>2 DEF RoomInv, LeavesRoom
<1>4. Cardinality(Busy) >= 1
  <2>1. Cardinality(Busy) # 0
    BY <1>2, FlightFinite, FS_EmptySet
  <2>. QED
    BY <2>1, FlightNumbers
<1>. QED
  BY <1>3, <1>4, FlightNumbers, BusAssumption DEF RoomInv, InFlight, Modest, Wedged, Full

(* The processor never waits for handlers that wait for the processor, when *)
(* the handlers publish nothing, or no event makes more than one other and  *)
(* no more come from outside than the queue has slots (events.py:161).      *)
(* One more is enough to wedge it: MCEventBus_wedge.                        *)
THEOREM RoomyBusNeverWedged ==
  ASSUME \A w \in Workloads : LeavesRoom(w)
  PROVE  Spec => []NeverWedged
<1>1. TypeOK /\ RoomInv => NeverWedged
  <2>1. TypeOK => LeavesRoom(workload)
    BY DEF TypeOK
  <2>. QED
    BY <2>1, RoomNeverWedged
<1>2. Spec => []RoomInv
  BY TypeCorrect, InitRoomInv, NextRoomInv, PTL DEF Spec
<1>. QED
  BY <1>1, <1>2, TypeCorrect, PTL
=============================================================================
