----------------------- MODULE TradingControl_proofs ------------------------
(***************************************************************************)
(* TradingControl, for every set of symbols and every bound: its variables *)
(* keep their types, the two pause flags agree when the bus is quiet, the  *)
(* engine's price handler places nothing while the engine is paused, and   *)
(* no agent loop outlives its session.                                     *)
(***************************************************************************)
EXTENDS TradingControl, SequenceTheorems, TLAPS

LEMMA Bounds == MaxQueue \in Nat /\ MaxStarts \in Nat /\ MaxOrders \in Nat
BY ControlAssumption

(* A trader's act leaves a number of orders for every trader.               *)
LEMMA TradesType ==
    ASSUME TypeOK, NEW t \in Traders, Trades(t)
    PROVE  placed' \in [Traders -> Nat] /\ positions' \subseteq Symbols
<1>1. placed' \in [Traders -> Nat]
  <2>1. placed \in [Traders -> Nat]
    BY DEF TypeOK
  <2>2. placed' = placed \/ placed' = [placed EXCEPT ![t] = @ + 1]
    BY DEF Trades, Places
  <2> QED BY <2>1, <2>2
<1>2. positions' \subseteq Symbols
  BY DEF TypeOK, Trades
<1> QED BY <1>1, <1>2

(* Taking the first event leaves a queue of the others.                     *)
LEMMA TailType ==
    ASSUME queue \in Seq(Events), queue # <<>>
    PROVE  /\ Head(queue) \in Events
           /\ Tail(queue) \in Seq(Events)
           /\ Len(queue) \in Nat \ {0}
           /\ Head(queue) = queue[1]
           /\ Len(Tail(queue)) = Len(queue) - 1
           /\ \A i \in 1 .. Len(Tail(queue)) : Tail(queue)[i] = queue[i + 1]
BY EmptySeq, HeadTailProperties, SMT

(* Publishing puts an event behind the others.                              *)
LEMMA PublishType ==
    ASSUME queue \in Seq(Events), NEW e \in Events, Publish(e)
    PROVE  /\ queue' \in Seq(Events)
           /\ Len(queue') = Len(queue) + 1
           /\ queue'[Len(queue')] = e
           /\ \A i \in 1 .. Len(queue) : queue'[i] = queue[i]
BY AppendProperties, SMT DEF Publish

-----------------------------------------------------------------------------
(* What keeps the two flags equal over a step.                              *)
LEMMA QuietAfterPublish ==
    ASSUME queue \in Seq(Events), NEW e \in Events, Publish(e), OnlyPrices'
    PROVE  e = "price" /\ OnlyPrices
<1>1. queue' \in Seq(Events) /\ Len(queue') = Len(queue) + 1 /\ queue'[Len(queue')] = e
      /\ \A i \in 1 .. Len(queue) : queue'[i] = queue[i]
  BY PublishType
<1>2. Len(queue) \in Nat
  BY SMT
<1>3. \A i \in 1 .. Len(queue') : queue'[i] = "price"
  BY DEF OnlyPrices
<1> QED BY <1>1, <1>2, <1>3, SMT DEF OnlyPrices

LEMMA QuietBeforeTake ==
    ASSUME queue \in Seq(Events), queue # <<>>, Head(queue) = "price",
           queue' = Tail(queue), OnlyPrices'
    PROVE  OnlyPrices
<1>1. /\ Head(queue) = queue[1]
      /\ Len(queue) \in Nat \ {0}
      /\ Len(Tail(queue)) = Len(queue) - 1
      /\ \A i \in 1 .. Len(Tail(queue)) : Tail(queue)[i] = queue[i + 1]
  BY TailType
<1>2. \A i \in 1 .. Len(Tail(queue)) : Tail(queue)[i] = "price"
  BY DEF OnlyPrices
<1>3. \A i \in 1 .. Len(queue) : queue[i] = "price"
  <2> SUFFICES ASSUME NEW i \in 1 .. Len(queue) PROVE queue[i] = "price"
    OBVIOUS
  <2>1. CASE i = 1
    BY <1>1, <2>1
  <2>2. CASE i # 1
    <3>1. i - 1 \in 1 .. Len(Tail(queue)) /\ (i - 1) + 1 = i
      BY <1>1, <2>2, SMT
    <3> QED BY <1>1, <1>2, <3>1
  <2> QED BY <2>1, <2>2
<1> QED BY <1>3 DEF OnlyPrices

-----------------------------------------------------------------------------
(* Type correctness: every variable keeps its type, whatever the number of  *)
(* symbols, sessions, events and orders (engine.py, session.py, server.py). *)
LEMMA TypeOKInit == Init => TypeOK
<1> SUFFICES ASSUME Init PROVE TypeOK
  OBVIOUS
<1>1. queue \in Seq(Events)
  BY EmptySeq DEF Init
<1>2. engine \in [running : BOOLEAN, listens : BOOLEAN, paused : BOOLEAN, preload : BOOLEAN]
  BY Zenon DEF Init
<1>3. api \in [listens : BOOLEAN, paused : BOOLEAN]
  BY Zenon DEF Init
<1>4. session \in States /\ agentTask \in 0 .. MaxStarts /\ placed \in [Traders -> Nat]
  BY Bounds DEF Init, States
<1>5. loop \in [Loops -> {"none", "waiting", "cycle", "ended"}]
  BY DEF Init
<1> QED BY <1>1, <1>2, <1>3, <1>4, <1>5 DEF Init, TypeOK

LEMMA TypeOKBus == TypeOK /\ BusStep => TypeOK'
<1> SUFFICES ASSUME TypeOK, BusStep PROVE TypeOK'
  OBVIOUS
<1> USE DEF TypeOK
<1>0. queue # <<>> => Head(queue) \in Events /\ Tail(queue) \in Seq(Events)
  BY TailType
<1>1. CASE TakePrice
  BY <1>0, <1>1 DEF TakePrice, Ready, control, market, history
<1>2. CASE TakePauseOrResume
  BY <1>0, <1>2 DEF TakePauseOrResume, Ready, EngineHears, ApiHears, market
<1>3. CASE TakePanic
  BY <1>0, <1>3 DEF TakePanic, Ready, EngineHears, ApiHears, market
<1>4. CASE SignalOrders
  <2>1. placed' \in [Traders -> Nat] /\ positions' \subseteq Symbols
    BY <1>4, TradesType DEF SignalOrders, Traders
  <2> QED BY <1>4, <2>1 DEF SignalOrders, control, history
<1>5. CASE PriceDone
  BY <1>5 DEF PriceDone, control, market, history
<1>6. CASE PanicLists
  BY <1>6 DEF PanicLists, control, market, history
<1>7. CASE PanicDone
  BY <1>7 DEF PanicDone, control, market, history
<1>8. ASSUME NEW s \in Symbols, TrailingStops(s) PROVE TypeOK'
  BY <1>8 DEF TrailingStops, control, history
<1>9. ASSUME NEW s \in Symbols, PanicCloses(s) PROVE TypeOK'
  BY <1>9 DEF PanicCloses, control, history
<1> QED BY <1>1, <1>2, <1>3, <1>4, <1>5, <1>6, <1>7, <1>8, <1>9 DEF BusStep

LEMMA TypeOKSession == TypeOK /\ SessionStep => TypeOK'
<1> SUFFICES ASSUME TypeOK, SessionStep PROVE TypeOK'
  OBVIOUS
<1> USE DEF TypeOK
<1>1. CASE SessionStarts
  BY <1>1 DEF SessionStarts, States, market, history
<1>2. CASE StartFails
  BY <1>2 DEF StartFails, States, market, history
<1>3. CASE SessionStartsEngine
  BY <1>3 DEF SessionStartsEngine, Started, market, history
<1>4. CASE SessionRuns
  BY <1>4, Bounds DEF SessionRuns, States, Loops, market, history
<1>5. CASE SessionPauses
  <2>1. queue' \in Seq(Events)
    BY <1>5, PublishType DEF SessionPauses, Events
  <2> QED BY <1>5, <2>1 DEF SessionPauses, States, market, history
<1>6. CASE SessionResumes
  <2>1. queue' \in Seq(Events)
    BY <1>6, PublishType DEF SessionResumes, Events
  <2> QED BY <1>6, <2>1 DEF SessionResumes, States, market, history
<1>7. CASE SessionStops
  BY <1>7 DEF SessionStops, States, market, history
<1>8. CASE EngineStops
  BY <1>8 DEF EngineStops, market, history
<1>9. CASE StopEnds
  BY <1>9 DEF StopEnds, States, market, history
<1> QED BY <1>1, <1>2, <1>3, <1>4, <1>5, <1>6, <1>7, <1>8, <1>9 DEF SessionStep

LEMMA TypeOKStep == TypeOK /\ [Next]_vars => TypeOK'
<1> SUFFICES ASSUME TypeOK, [Next]_vars PROVE TypeOK'
  OBVIOUS
<1> USE DEF TypeOK
<1>1. CASE FeedPrice
  <2>1. queue' \in Seq(Events)
    BY <1>1, PublishType DEF FeedPrice, Events
  <2> QED BY <1>1, <2>1 DEF FeedPrice, control, market, history
<1>2. CASE PressPanic
  <2>1. queue' \in Seq(Events)
    BY <1>2, PublishType DEF PressPanic, Events
  <2> QED BY <1>2, <2>1 DEF PressPanic, control, market, history
<1>3. CASE PressPause
  <2>1. queue' \in Seq(Events)
    BY <1>3, PublishType DEF PressPause, Events
  <2> QED BY <1>3, <2>1 DEF PressPause, market, history
<1>4. CASE ApiPause
  <2>1. queue' \in Seq(Events)
    BY <1>4, PublishType DEF ApiPause, Events
  <2> QED BY <1>4, <2>1 DEF ApiPause, market, history
<1>5. CASE ApiPanic
  <2>1. queue' \in Seq(Events)
    BY <1>5, PublishType DEF ApiPanic, Events
  <2> QED BY <1>5, <2>1 DEF ApiPanic, market, history
<1>6. CASE ApiListens
  BY <1>6 DEF ApiListens, market, history
<1>7. CASE BusStep
  BY <1>7, TypeOKBus
<1>8. CASE TerminalStartsEngine
  BY <1>8 DEF TerminalStartsEngine, Started, market, history
<1>9. CASE PreloadOrders
  <2>1. placed' \in [Traders -> Nat] /\ positions' \subseteq Symbols
    BY <1>9, TradesType DEF PreloadOrders, Traders
  <2> QED BY <1>9, <2>1 DEF PreloadOrders, control, history
<1>10. CASE PreloadEnds
  BY <1>10 DEF PreloadEnds, market, history
<1>11. CASE SessionStep
  BY <1>11, TypeOKSession
<1>12. ASSUME NEW k \in Loops, CycleBegins(k) PROVE TypeOK'
  BY <1>12 DEF CycleBegins, market, history
<1>13. ASSUME NEW k \in Loops, CycleTrades(k) PROVE TypeOK'
  <2>1. placed' \in [Traders -> Nat] /\ positions' \subseteq Symbols
    BY <1>13, TradesType DEF CycleTrades, Traders
  <2> QED BY <1>13, <2>1 DEF CycleTrades, control, history
<1>14. ASSUME NEW k \in Loops, CycleEnds(k) PROVE TypeOK'
  BY <1>14 DEF CycleEnds, market, history
<1>15. CASE UNCHANGED vars
  BY <1>15 DEF vars
<1> QED
  BY <1>1, <1>2, <1>3, <1>4, <1>5, <1>6, <1>7, <1>8, <1>9, <1>10, <1>11, <1>12, <1>13,
     <1>14, <1>15 DEF Next

THEOREM TypeCorrect == Spec => []TypeOK
BY TypeOKInit, TypeOKStep, PTL DEF Spec

-----------------------------------------------------------------------------
(* A price is in the middle of being handled only while the engine is not   *)
(* paused: the flag changes between two events, never during one.           *)
PriceUnpaused == handling = "price" => ~engine.paused

LEMMA PriceUnpausedStep == TypeOK /\ PriceUnpaused /\ [Next]_vars => PriceUnpaused'
<1> SUFFICES ASSUME TypeOK, PriceUnpaused, [Next]_vars PROVE PriceUnpaused'
  OBVIOUS
<1> USE DEF TypeOK, PriceUnpaused
<1>1. CASE BusStep
  BY <1>1 DEF BusStep, TakePrice, TakePauseOrResume, TakePanic, Ready, SignalOrders,
     PriceDone, PanicLists, PanicDone, TrailingStops, PanicCloses, control
<1>2. CASE SessionStep
  BY <1>2 DEF SessionStep, SessionStarts, StartFails, SessionStartsEngine, Started,
     SessionRuns, SessionPauses, SessionResumes, SessionStops, EngineStops, StopEnds
<1>3. CASE FeedPrice \/ PressPanic \/ PressPause \/ ApiPause \/ ApiPanic \/ ApiListens
  BY <1>3 DEF FeedPrice, PressPanic, PressPause, ApiPause, ApiPanic, ApiListens, control
<1>4. CASE TerminalStartsEngine \/ PreloadOrders \/ PreloadEnds
  BY <1>4 DEF TerminalStartsEngine, Started, PreloadOrders, PreloadEnds, control
<1>5. CASE \E k \in Loops : CycleBegins(k) \/ CycleTrades(k) \/ CycleEnds(k)
  BY <1>5 DEF CycleBegins, CycleTrades, CycleEnds, control
<1>6. CASE UNCHANGED vars
  BY <1>6 DEF vars
<1> QED BY <1>1, <1>2, <1>3, <1>4, <1>5, <1>6 DEF Next

LEMMA OnlySignalsCount ==
    ASSUME TypeOK, PriceUnpaused, [Next]_vars, engine.paused
    PROVE  placed'["engine"] = placed["engine"]
<1> USE DEF TypeOK, PriceUnpaused
<1>1. CASE BusStep
  BY <1>1 DEF BusStep, TakePrice, TakePauseOrResume, TakePanic, SignalOrders, PriceDone,
     PanicLists, PanicDone, TrailingStops, PanicCloses, market
<1>2. CASE SessionStep
  BY <1>2 DEF SessionStep, SessionStarts, StartFails, SessionStartsEngine, SessionRuns,
     SessionPauses, SessionResumes, SessionStops, EngineStops, StopEnds, market
<1>3. CASE FeedPrice \/ PressPanic \/ PressPause \/ ApiPause \/ ApiPanic \/ ApiListens
  BY <1>3 DEF FeedPrice, PressPanic, PressPause, ApiPause, ApiPanic, ApiListens, market
<1>4. CASE TerminalStartsEngine \/ PreloadEnds
  BY <1>4 DEF TerminalStartsEngine, PreloadEnds, market
<1>5. CASE PreloadOrders
  BY <1>5 DEF PreloadOrders, Trades, Places, Traders
<1>6. CASE \E k \in Loops : CycleBegins(k) \/ CycleTrades(k) \/ CycleEnds(k)
  BY <1>6 DEF CycleBegins, CycleTrades, CycleEnds, Trades, Places, Traders, market
<1>7. CASE UNCHANGED vars
  BY <1>7 DEF vars
<1> QED BY <1>1, <1>2, <1>3, <1>4, <1>5, <1>6, <1>7 DEF Next

(* The engine's price handler places no order while the engine is paused    *)
(* (engine.py:499-529, 1076-1088).                                          *)
THEOREM PauseIsObeyed == Spec => EngineObeysPause
<1>1. Init => PriceUnpaused
  BY DEF Init, PriceUnpaused
<1>2. TypeOK /\ PriceUnpaused /\ [Next]_vars
        => [engine.paused => placed'["engine"] = placed["engine"]]_vars
  BY OnlySignalsCount
<1> QED
  BY <1>1, <1>2, TypeCorrect, PriceUnpausedStep, PTL DEF Spec, EngineObeysPause

-----------------------------------------------------------------------------
(* The flags are equal whenever only prices are left in the bus: an event   *)
(* that changes one of them is in the queue until it changes both.          *)
LEMMA FlagsAgreeStep == TypeOK /\ FlagsAgree /\ [Next]_vars => FlagsAgree'
<1> SUFFICES ASSUME TypeOK, FlagsAgree, [Next]_vars, OnlyPrices', ~unheard'
             PROVE  api'.paused = engine'.paused
  BY DEF FlagsAgree
<1> USE DEF TypeOK
<1>1. CASE FeedPrice \/ PressPanic \/ PressPause \/ ApiPause \/ ApiPanic
  <2>1. \/ Publish("price") /\ UNCHANGED <<engine, api>>
        \/ \E e \in Events \ {"price"} : Publish(e)
    BY <1>1 DEF FeedPrice, PressPanic, PressPause, ApiPause, ApiPanic, Events, control
  <2>2. OnlyPrices /\ UNCHANGED <<engine, api>>
    BY <2>1, QuietAfterPublish DEF Events
  <2>3. ~unheard
    BY <1>1 DEF FeedPrice, PressPanic, PressPause, ApiPause, ApiPanic, history
  <2> QED BY <2>2, <2>3 DEF FlagsAgree
<1>2. CASE TakePrice
  <2>1. OnlyPrices
    BY <1>2, QuietBeforeTake DEF TakePrice, Ready
  <2> QED BY <1>2, <2>1 DEF FlagsAgree, TakePrice, control, history
<1>3. CASE TakePauseOrResume \/ TakePanic
  <2>1. engine.listens /\ api.listens
    BY <1>3 DEF TakePauseOrResume, TakePanic
  <2>2. PICK e \in Events : EngineHears(e) /\ ApiHears(e)
    BY <1>3 DEF TakePauseOrResume, TakePanic, Events
  <2>3. engine' = [engine EXCEPT !.paused = e # "resumed"]
    BY <2>1, <2>2 DEF EngineHears
  <2>4. api' = [api EXCEPT !.paused = e # "resumed"]
    BY <2>1, <2>2 DEF ApiHears
  <2> QED BY <2>3, <2>4
<1>4. CASE SessionPauses \/ SessionResumes
  <2>1. \E e \in Events \ {"price"} : Publish(e)
    BY <1>4 DEF SessionPauses, SessionResumes, Events
  <2> QED BY <2>1, QuietAfterPublish
<1>5. ASSUME UNCHANGED <<queue, unheard>>, api'.paused = api.paused,
             engine'.paused = engine.paused
      PROVE  api'.paused = engine'.paused
  BY <1>5 DEF FlagsAgree, OnlyPrices
<1>6. CASE SignalOrders \/ PriceDone \/ PanicLists \/ PanicDone
           \/ \E s \in Symbols : TrailingStops(s) \/ PanicCloses(s)
  BY <1>5, <1>6 DEF SignalOrders, PriceDone, PanicLists, PanicDone, TrailingStops,
     PanicCloses, control, history
<1>7. CASE SessionStarts \/ StartFails \/ SessionStartsEngine \/ SessionRuns \/ SessionStops
           \/ EngineStops \/ StopEnds
  BY <1>5, <1>7 DEF SessionStarts, StartFails, SessionStartsEngine, Started, SessionRuns,
     SessionStops, EngineStops, StopEnds, history
<1>8. CASE TerminalStartsEngine \/ PreloadOrders \/ PreloadEnds \/ ApiListens
  BY <1>5, <1>8 DEF TerminalStartsEngine, Started, PreloadOrders, PreloadEnds, ApiListens,
     control, history
<1>9. CASE \E k \in Loops : CycleBegins(k) \/ CycleTrades(k) \/ CycleEnds(k)
  BY <1>5, <1>9 DEF CycleBegins, CycleTrades, CycleEnds, control, history
<1>10. CASE UNCHANGED vars
  BY <1>5, <1>10 DEF vars
<1> QED
  BY <1>1, <1>2, <1>3, <1>4, <1>6, <1>7, <1>8, <1>9, <1>10 DEF Next, BusStep, SessionStep

(* The API's flag says what the engine does once only prices are left in    *)
(* the bus (server.py:153-173, 210-247; engine.py:1076-1088).               *)
THEOREM FlagsAlwaysAgree == Spec => []FlagsAgree
<1>1. Init => FlagsAgree
  BY DEF Init, FlagsAgree
<1> QED BY <1>1, TypeCorrect, FlagsAgreeStep, PTL DEF Spec

-----------------------------------------------------------------------------
(* A session has its loop from the moment it runs until it stops.           *)
LEMMA OneLoopStep == TypeOK /\ OneLoop /\ [Next]_vars => OneLoop'
<1> SUFFICES ASSUME TypeOK, OneLoop, [Next]_vars PROVE OneLoop'
  OBVIOUS
<1> USE DEF TypeOK
<1>1. CASE SessionRuns
  <2>1. PICK k \in Loops : /\ loop' = [loop EXCEPT ![k] = "waiting"]
                           /\ agentTask' = k
                           /\ session' = "running"
    BY <1>1 DEF SessionRuns
  <2>2. LiveLoops = {}
    BY <1>1 DEF OneLoop, SessionRuns
  <2>3. LiveLoops' = {k}
    BY <2>1, <2>2 DEF LiveLoops
  <2> QED BY <2>1, <2>3 DEF OneLoop
<1>2. CASE SessionStops
  <2>1. LiveLoops \subseteq {agentTask}
    BY DEF OneLoop
  <2>2. LiveLoops' = {}
    BY <1>2, <2>1 DEF SessionStops, LiveLoops
  <2> QED BY <1>2, <2>2 DEF SessionStops, OneLoop
<1>3. CASE \E k \in Loops : CycleBegins(k) \/ CycleEnds(k)
  <2>1. LiveLoops' = LiveLoops /\ UNCHANGED <<session, agentTask>>
    BY <1>3 DEF CycleBegins, CycleEnds, LiveLoops
  <2> QED BY <2>1 DEF OneLoop
<1>4. CASE SessionStarts \/ StartFails \/ SessionPauses \/ SessionResumes \/ StopEnds
  BY <1>4 DEF OneLoop, LiveLoops, SessionStarts, StartFails, SessionPauses, SessionResumes,
     StopEnds
<1>5. CASE SessionStartsEngine \/ EngineStops \/ TerminalStartsEngine \/ PreloadEnds
  BY <1>5 DEF OneLoop, LiveLoops, SessionStartsEngine, EngineStops, TerminalStartsEngine,
     PreloadEnds
<1>6. CASE BusStep
  BY <1>6 DEF OneLoop, LiveLoops, BusStep, TakePrice, TakePauseOrResume, TakePanic,
     SignalOrders, PriceDone, PanicLists, PanicDone, TrailingStops, PanicCloses, control
<1>7. CASE FeedPrice \/ PressPanic \/ PressPause \/ ApiPause \/ ApiPanic \/ ApiListens
  BY <1>7 DEF OneLoop, LiveLoops, FeedPrice, PressPanic, PressPause, ApiPause, ApiPanic,
     ApiListens, control
<1>8. CASE PreloadOrders \/ \E k \in Loops : CycleTrades(k)
  BY <1>8 DEF OneLoop, LiveLoops, PreloadOrders, CycleTrades, control
<1>9. CASE UNCHANGED vars
  BY <1>9 DEF OneLoop, LiveLoops, vars
<1> QED BY <1>1, <1>2, <1>3, <1>4, <1>5, <1>6, <1>7, <1>8, <1>9 DEF Next, SessionStep

(* A running or paused session has one loop, the one its stop will cancel,  *)
(* and no loop lives in any other state (session.py:194-313).               *)
THEOREM OneLoopAlways == Spec => []OneLoop
<1>1. Init => OneLoop
  BY DEF Init, OneLoop, LiveLoops
<1> QED BY <1>1, TypeCorrect, OneLoopStep, PTL DEF Spec
=============================================================================
