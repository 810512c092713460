--------------------------- MODULE Boundary_proofs ---------------------------
(***************************************************************************)
(* The edges of the program, for every value of the constants: what is     *)
(* sent to the exchange (LiveMode) and to a WebSocket client (Outbound),   *)
(* what is taken in as news (News), what the clock sets off (Scheduler),   *)
(* and what is told of the market: signals (Signals) and candles (Candles).*)
(*                                                                         *)
(* A next run is found by adding days to the present one; that it is the   *)
(* first occurrence is shown on days, weeks and months (SameTime, DayAfter,*)
(* WeekApart, MonthStartOrder) and never by counting slots.                *)
(***************************************************************************)
EXTENDS LiveMode, Outbound, News, Scheduler, Signals, Candles, NaturalsInduction,
        WellFoundedInduction, FiniteSetTheorems, SequenceTheorems, TLAPS

(* What the orders on their way mean for the exchange: no two traders send  *)
(* for one approval, an order that was only sent is not there yet, and one  *)
(* that the exchange made is there once.                                    *)
UnderWay(w) == sending[w].stage # "none"
OrdersOnTheirWay ==
    /\ \A w \in Traders : UnderWay(w) =>
           /\ sending[w].nr \in 1 .. approvals
           /\ placed[sending[w].nr] = IF sending[w].stage = "sent" THEN 0 ELSE 1
    /\ \A v, w \in Traders :
           UnderWay(v) /\ UnderWay(w) /\ sending[v].nr = sending[w].nr => v = w

LiveInv == LiveTypeOK /\ OneOrderPerApproval /\ OrdersOnTheirWay

Sending == [stage : {"none", "sent", "filled", "resync"}, nr : 0 .. MaxOrders,
            tries : 0 .. Attempts - 1]

LEMMA LiveBounds ==
    /\ Accounts \subseteq Nat /\ MinBalance \in Nat /\ OrderCost \in Nat
    /\ MaxOrders \in Nat /\ Attempts \in Nat \ {0}
    /\ NoOrder \in Sending
BY LiveAssumption DEF NoOrder, Sending

(* The actions of the start and of the account's owner.                     *)
StartSteps ==
    ConnectsClient \/ StartsEngine \/ BalanceChecked \/ CheckGivesUp \/ BalanceTold
    \/ TellGivesUp \/ BalanceRetried \/ Deposits

LEMMA LiveSteps ==
    ASSUME LiveNext
    PROVE  \/ StartSteps
           \/ \E w \in Traders : \/ ApprovesOrder(w) \/ ExchangeFills(w) \/ OrderRaises(w)
                                 \/ ReportsFill(w) \/ ResyncRetried(w) \/ Resynced(w)
BY Zenon DEF LiveNext, StartSteps

LEMMA StartStepsKeep ==
    ASSUME LiveInv, StartSteps
    PROVE  LiveInv'
<1> USE LiveBounds
<1>1. UNCHANGED <<sending, approvals, placed, announced>>
  BY Zenon DEF StartSteps, ConnectsClient, StartsEngine, BalanceChecked, CheckGivesUp,
     BalanceTold, TellGivesUp, BalanceRetried, Deposits
<1>2. client' \in BOOLEAN /\ safe' \in BOOLEAN
  <2>1. client' = client \/ client' = TRUE
    BY Zenon DEF StartSteps, ConnectsClient, StartsEngine, BalanceChecked, CheckGivesUp,
       BalanceTold, TellGivesUp, BalanceRetried, Deposits
  <2>2. Passes(usdt) \in BOOLEAN
    BY LiveAssumption DEF Passes
  <2>3. safe' \in {safe, FALSE, Passes(usdt)}
    BY Zenon DEF StartSteps, ConnectsClient, StartsEngine, BalanceChecked, CheckGivesUp,
       Checked, BalanceTold, TellGivesUp, BalanceRetried, Deposits
  <2> QED BY <2>1, <2>2, <2>3 DEF LiveInv, LiveTypeOK
<1>3. startup' \in {"off", "checking", "syncing", "on"} /\ tries' \in 0 .. Attempts - 1
  <2>1. /\ startup' \in {startup, "checking", "syncing", "on"}
        /\ tries' \in {tries, 0} \/ (tries' = tries + 1 /\ tries + 1 < Attempts)
    BY Zenon DEF StartSteps, ConnectsClient, StartsEngine, BalanceChecked, CheckGivesUp,
       Checked, BalanceTold, TellGivesUp, Told, BalanceRetried, Deposits
  <2> QED BY <2>1 DEF LiveInv, LiveTypeOK
<1>4. toldBalance' \in Nat /\ usdt' \in Nat
  <2>1. /\ toldBalance' \in {toldBalance, usdt, 0}
        /\ usdt' \in {usdt, usdt + OrderCost}
    BY Zenon DEF StartSteps, ConnectsClient, StartsEngine, BalanceChecked, CheckGivesUp,
       BalanceTold, TellGivesUp, Told, BalanceRetried, Deposits
  <2> QED BY <2>1 DEF LiveInv, LiveTypeOK
<1>5. LiveTypeOK'
  BY <1>1, <1>2, <1>3, <1>4 DEF LiveInv, LiveTypeOK
<1> QED BY <1>1, <1>5 DEF LiveInv, OneOrderPerApproval, OrdersOnTheirWay, UnderWay

(* A step of one trader, whose order becomes x.                             *)
TraderMoves(w, x) ==
    /\ sending' = [sending EXCEPT ![w] = x]
    /\ UNCHANGED <<client, startup, tries, safe, toldBalance>> /\ usdt' \in Nat
    /\ approvals' \in approvals .. MaxOrders
    /\ placed' \in [1 .. MaxOrders -> Nat] /\ announced' \subseteq 1 .. MaxOrders
    /\ \A n \in 1 .. MaxOrders :
           n # x.nr => placed'[n] = placed[n] /\ (n \in announced' => n \in announced)
    /\ x.stage # "none" =>
           /\ x.nr \in 1 .. approvals'
           /\ (x.nr = sending[w].nr /\ UnderWay(w)) \/ x.nr \notin 1 .. approvals
           /\ placed'[x.nr] = IF x.stage = "sent" THEN 0 ELSE 1
           /\ x.nr \in announced' => x.stage # "sent"
    /\ x.stage = "none" => placed' = placed /\ announced' = announced

LEMMA TraderKeeps ==
    ASSUME LiveInv, NEW w \in Traders, NEW x \in Sending, TraderMoves(w, x)
    PROVE  LiveInv'
<1> USE LiveBounds DEF LiveInv, TraderMoves
<1>1. LiveTypeOK'
  <2>1. sending' \in [Traders -> Sending]
    BY DEF LiveTypeOK, Sending
  <2>2. approvals' \in 0 .. MaxOrders
    BY DEF LiveTypeOK
  <2> QED BY <2>1, <2>2 DEF LiveTypeOK, Sending
<1>2. /\ sending \in [Traders -> Sending] /\ approvals \in Nat /\ approvals' \in Nat
      /\ sending'[w] = x /\ \A v \in Traders \ {w} : sending'[v] = sending[v]
  BY DEF LiveTypeOK, Sending
<1>3. OneOrderPerApproval'
  <2> SUFFICES ASSUME NEW n \in 1 .. MaxOrders
               PROVE  placed'[n] <= 1 /\ (n > approvals' => placed'[n] = 0)
                      /\ (n \in announced' => placed'[n] = 1)
    BY DEF OneOrderPerApproval
  <2>1. /\ placed[n] <= 1 /\ (n > approvals => placed[n] = 0)
        /\ (n \in announced => placed[n] = 1)
    BY DEF OneOrderPerApproval
  <2>2. CASE n # x.nr \/ x.stage = "none"
    BY <1>2, <2>1, <2>2
  <2>3. CASE n = x.nr /\ x.stage # "none"
    BY <1>2, <2>3
  <2> QED BY <2>2, <2>3
<1>4. ASSUME NEW v \in Traders, UnderWay(v)'
      PROVE  /\ sending'[v].nr \in 1 .. approvals'
             /\ placed'[sending'[v].nr] = IF sending'[v].stage = "sent" THEN 0 ELSE 1
             /\ v # w /\ x.stage # "none" => sending'[v].nr # x.nr
  <2>1. CASE v = w
    BY <1>2, <1>4, <2>1 DEF UnderWay
  <2>2. CASE v # w
    <3>1. sending'[v] = sending[v] /\ UnderWay(v)
      BY <1>2, <1>4, <2>2 DEF UnderWay
    <3>2. /\ sending[v].nr \in 1 .. approvals /\ sending[v].nr \in 1 .. MaxOrders
          /\ placed[sending[v].nr] = IF sending[v].stage = "sent" THEN 0 ELSE 1
          /\ UnderWay(w) => sending[v].nr # sending[w].nr
      BY <2>2, <3>1 DEF OrdersOnTheirWay, LiveTypeOK
    <3>3. x.stage # "none" => sending[v].nr # x.nr
      BY <3>2
    <3>4. placed'[sending[v].nr] = placed[sending[v].nr]
      BY <3>2, <3>3
    <3> QED BY <1>2, <3>1, <3>2, <3>3, <3>4
  <2> QED BY <2>1, <2>2
<1>5. ASSUME NEW u \in Traders, NEW v \in Traders, UnderWay(u)', UnderWay(v)',
             sending'[u].nr = sending'[v].nr
      PROVE  u = v
  <2>1. CASE u # w /\ v # w
    BY <1>2, <1>5, <2>1 DEF OrdersOnTheirWay, UnderWay
  <2>2. CASE u = w \/ v = w
    BY <1>2, <1>4, <1>5, <2>2 DEF UnderWay
  <2> QED BY <2>1, <2>2
<1>6. OrdersOnTheirWay'
  BY <1>4, <1>5 DEF OrdersOnTheirWay
<1> QED BY <1>1, <1>3, <1>6

LEMMA TraderSteps ==
    ASSUME LiveInv, NEW w \in Traders,
           \/ ApprovesOrder(w) \/ ExchangeFills(w) \/ OrderRaises(w)
           \/ ReportsFill(w) \/ ResyncRetried(w) \/ Resynced(w)
    PROVE  LiveInv'
<1> USE LiveBounds
<1> DEFINE old == sending[w]
<1>1. /\ old \in Sending /\ approvals \in 0 .. MaxOrders /\ usdt \in Nat
      /\ placed \in [1 .. MaxOrders -> Nat] /\ announced \subseteq 1 .. MaxOrders
      /\ sending \in [Traders -> Sending]
      /\ UnderWay(w) => /\ old.nr \in 1 .. approvals
                        /\ placed[old.nr] = IF old.stage = "sent" THEN 0 ELSE 1
      /\ \A n \in 1 .. MaxOrders : /\ n > approvals => placed[n] = 0
                                   /\ n \in announced => placed[n] = 1
  BY DEF LiveInv, LiveTypeOK, Sending, OrdersOnTheirWay, OneOrderPerApproval
<1>2. CASE ApprovesOrder(w)
  <2> DEFINE x == [stage |-> "sent", nr |-> approvals + 1, tries |-> 0]
  <2>1. x \in Sending /\ approvals + 1 \in 1 .. MaxOrders
    BY <1>1, <1>2 DEF ApprovesOrder, Sending
  <2>2. /\ sending' = [sending EXCEPT ![w] = x] /\ approvals' = approvals + 1
        /\ UNCHANGED <<client, startup, tries, safe, toldBalance, usdt, placed, announced>>
    BY <1>2 DEF ApprovesOrder
  <2>3. x.nr = approvals + 1 /\ x.stage = "sent"
    OBVIOUS
  <2>4. placed[x.nr] = 0 /\ x.nr \notin announced
    BY <1>1, <2>1, <2>3
  <2> HIDE DEF x
  <2>5. TraderMoves(w, x)
    BY <1>1, <2>1, <2>2, <2>3, <2>4 DEF TraderMoves
  <2> QED BY <2>1, <2>5, TraderKeeps
<1>3. CASE ExchangeFills(w)
  <2> DEFINE x == [old EXCEPT !.stage = "filled"]
  <2>1. x \in Sending /\ x.nr = old.nr /\ x.stage = "filled"
    BY <1>1 DEF Sending
  <2>2. /\ sending' = [sending EXCEPT ![w] = x] /\ usdt' = usdt - OrderCost /\ usdt >= OrderCost
        /\ placed' = [placed EXCEPT ![old.nr] = @ + 1] /\ old.stage = "sent"
        /\ UNCHANGED <<client, startup, tries, safe, toldBalance, approvals, announced>>
    BY <1>3 DEF ExchangeFills
  <2>3. UnderWay(w) /\ old.nr \in 1 .. approvals /\ old.nr \in 1 .. MaxOrders /\ placed[old.nr] = 0
    BY <1>1, <2>2 DEF UnderWay
  <2>4. /\ placed' \in [1 .. MaxOrders -> Nat] /\ placed'[old.nr] = 1
        /\ \A n \in 1 .. MaxOrders : n # old.nr => placed'[n] = placed[n]
    BY <1>1, <2>2, <2>3
  <2>5. usdt' \in Nat
    BY <1>1, <2>2
  <2> HIDE DEF x, old
  <2>6. TraderMoves(w, x)
    BY <1>1, <2>1, <2>2, <2>3, <2>4, <2>5 DEF TraderMoves, old
  <2> QED BY <2>1, <2>6, TraderKeeps
<1>4. CASE OrderRaises(w) \/ Resynced(w)
  <2>1. /\ sending' = [sending EXCEPT ![w] = NoOrder]
        /\ UNCHANGED <<client, startup, tries, safe, toldBalance, usdt, approvals, placed,
                       announced>>
    BY <1>4 DEF OrderRaises, Resynced
  <2>2. NoOrder.stage = "none"
    BY DEF NoOrder
  <2>3. TraderMoves(w, NoOrder)
    BY <1>1, <2>1, <2>2 DEF TraderMoves
  <2> QED BY <2>3, TraderKeeps, LiveBounds
<1>5. CASE ReportsFill(w)
  <2> DEFINE x == [old EXCEPT !.stage = "resync"]
  <2>1. x \in Sending /\ x.nr = old.nr /\ x.stage = "resync"
    BY <1>1 DEF Sending
  <2>2. /\ sending' = [sending EXCEPT ![w] = x] /\ announced' = announced \cup {old.nr}
        /\ old.stage = "filled"
        /\ UNCHANGED <<client, startup, tries, safe, toldBalance, usdt, approvals, placed>>
    BY <1>5 DEF ReportsFill
  <2>3. UnderWay(w) /\ old.nr \in 1 .. approvals /\ old.nr \in 1 .. MaxOrders /\ placed[old.nr] = 1
    BY <1>1, <2>2 DEF UnderWay
  <2> HIDE DEF x
  <2>4. announced' \subseteq 1 .. MaxOrders
        /\ \A n : n # old.nr /\ n \in announced' => n \in announced
    BY <1>1, <2>2, <2>3
  <2>5. approvals' \in approvals .. MaxOrders /\ old.nr \in 1 .. approvals'
    BY <1>1, <2>2, <2>3
  <2> QED
    <3>1. TraderMoves(w, x)
      BY <1>1, <2>1, <2>2, <2>3, <2>4, <2>5 DEF TraderMoves
    <3> QED BY <2>1, <3>1, TraderKeeps
<1>6. CASE ResyncRetried(w)
  <2> DEFINE x == [old EXCEPT !.tries = old.tries + 1]
  <2>1. x \in Sending /\ x.nr = old.nr /\ x.stage = "resync" /\ old.stage = "resync"
    <3>1. old.stage = "resync" /\ old.tries \in 0 .. Attempts - 1 /\ old.tries + 1 < Attempts
      BY <1>1, <1>6 DEF Sending, ResyncRetried
    <3>2. old.tries + 1 \in 0 .. Attempts - 1
      BY <3>1
    <3> QED BY <1>1, <3>1, <3>2 DEF Sending
  <2>2. /\ sending' = [sending EXCEPT ![w] = x]
        /\ UNCHANGED <<client, startup, tries, safe, toldBalance, usdt, approvals, placed,
                       announced>>
    BY <1>1, <1>6 DEF ResyncRetried
  <2>3. UnderWay(w) /\ old.nr \in 1 .. approvals /\ placed[old.nr] = 1
    BY <1>1, <2>1 DEF UnderWay
  <2> HIDE DEF x, old
  <2>4. TraderMoves(w, x)
    BY <1>1, <2>1, <2>2, <2>3 DEF TraderMoves, old
  <2> QED BY <2>1, <2>4, TraderKeeps
<1> QED BY <1>2, <1>3, <1>4, <1>5, <1>6

(* The engine in live mode keeps its types, and an order on its way is on   *)
(* the exchange exactly when the exchange has acted on it, however many     *)
(* orders the price handler and the preload task send beside each other.    *)
THEOREM LiveInvariant == LiveSpec => []LiveInv
<1>1. ASSUME LiveInit PROVE LiveInv
  <2>1. client \in BOOLEAN /\ safe \in BOOLEAN /\ sending = [w \in Traders |-> NoOrder]
    BY <1>1, Zenon DEF LiveInit
  <2>2. sending \in [Traders -> Sending] /\ \A w \in Traders : ~UnderWay(w)
    BY <2>1, LiveBounds DEF UnderWay, NoOrder
  <2>3. LiveTypeOK
    BY <1>1, <2>1, <2>2, LiveBounds DEF LiveInit, LiveTypeOK, Sending
  <2> QED BY <1>1, <2>2, <2>3, LiveBounds
          DEF LiveInit, LiveInv, OneOrderPerApproval, OrdersOnTheirWay
<1>2. LiveInv /\ [LiveNext]_liveVars => LiveInv'
  <2>1. ASSUME LiveInv, LiveNext PROVE LiveInv'
    BY <2>1, LiveSteps, StartStepsKeep, TraderSteps
  <2>2. ASSUME LiveInv, UNCHANGED liveVars PROVE LiveInv'
    BY <2>2 DEF LiveInv, LiveTypeOK, OneOrderPerApproval, OrdersOnTheirWay, UnderWay, liveVars
  <2> QED BY <2>1, <2>2
<1> QED BY <1>1, <1>2, PTL DEF LiveSpec

(* An approved signal never becomes two orders on the exchange, and a fill  *)
(* is published only for an order the exchange made, for every number of    *)
(* attempts, every balance and every loss of an answer.                     *)
THEOREM OrderSentOnce == LiveSpec => []OneOrderPerApproval
<1>1. LiveInv => OneOrderPerApproval
  BY DEF LiveInv
<1> QED BY <1>1, LiveInvariant, PTL

-----------------------------------------------------------------------------
(* One stream, and what StreamIsNewest says of it when n events were        *)
(* dispatched.                                                              *)
StreamState == [open : BOOLEAN, queue : Seq(1 .. MaxEvents), sending : BOOLEAN,
                taken : 0 .. MaxEvents]

HoldsNewest(q, taken, n) ==
    /\ Len(q) <= QueueSize
    /\ \A i \in 1 .. Len(q) : q[i] = (n - Len(q)) + i
    /\ taken <= n - Len(q)
    /\ taken < n - Len(q) => Len(q) = QueueSize

StreamsInv ==
    /\ dispatched \in 0 .. MaxEvents
    /\ streams \in [Clients -> StreamState]
    /\ \A c \in Clients : streams[c].open =>
           HoldsNewest(streams[c].queue, streams[c].taken, dispatched)

LEMMA OutboundBounds == QueueSize \in Nat \ {0} /\ MaxEvents \in Nat
BY OutboundAssumption

(* An event that is enqueued leaves the newest events, one of them new.     *)
LEMMA EnqueuedNewest ==
    ASSUME NEW q \in Seq(1 .. MaxEvents), NEW n \in 0 .. MaxEvents, n < MaxEvents,
           NEW taken \in 0 .. MaxEvents, HoldsNewest(q, taken, n)
    PROVE  /\ Enqueued(q, n + 1) \in Seq(1 .. MaxEvents)
           /\ HoldsNewest(Enqueued(q, n + 1), taken, n + 1)
<1> USE OutboundBounds
<1> DEFINE k == Len(q)  S == 1 .. MaxEvents
<1>1. /\ k \in Nat /\ k <= QueueSize
      /\ \A i \in 1 .. k : q[i] = (n - k) + i
  BY LenProperties DEF HoldsNewest
<1>2. n + 1 \in S
  OBVIOUS
<1>3. CASE k < QueueSize
  <2> DEFINE r == Append(q, n + 1)
  <2>1. /\ r \in Seq(S) /\ Len(r) = k + 1 /\ r[k + 1] = n + 1
        /\ \A i \in 1 .. k : r[i] = q[i]
    BY <1>1, <1>2, AppendProperties
  <2>2. \A i \in 1 .. Len(r) : r[i] = (n - k) + i
    BY <1>1, <2>1
  <2>3. (n + 1) - Len(r) = n - k
    BY <1>1, <2>1
  <2>5. Enqueued(q, n + 1) = r
    BY <1>3 DEF Enqueued
  <2>6. ~(taken < n - k)
    BY <1>1, <1>3 DEF HoldsNewest
  <2>7. taken <= n - k
    BY DEF HoldsNewest
  <2>8. HoldsNewest(r, taken, n + 1)
    <3>1. Len(r) \in Nat /\ Len(r) <= QueueSize
      BY <1>1, <1>3, <2>1
    <3> HIDE DEF k, r
    <3>2. /\ taken <= (n + 1) - Len(r)
          /\ taken < (n + 1) - Len(r) => Len(r) = QueueSize
      BY <2>3, <2>6, <2>7, Zenon
    <3>3. \A i \in 1 .. Len(r) : r[i] = ((n + 1) - Len(r)) + i
      BY <2>2, <2>3, Zenon
    <3> QED BY <3>1, <3>2, <3>3, Zenon DEF HoldsNewest
  <2> QED BY <2>1, <2>5, <2>8
<1>4. CASE ~(k < QueueSize)
  <2>1. k = QueueSize /\ q # <<>>
    BY <1>1, <1>4, EmptySeq
  <2>2. /\ Tail(q) \in Seq(S) /\ Len(Tail(q)) = k - 1
        /\ \A i \in 1 .. k - 1 : Tail(q)[i] = q[i + 1]
    BY <1>1, <2>1, HeadTailProperties
  <2> DEFINE r == Append(Tail(q), n + 1)
  <2>3. /\ r \in Seq(S) /\ Len(r) = k /\ r[k] = n + 1
        /\ \A i \in 1 .. k - 1 : r[i] = Tail(q)[i]
    BY <1>1, <1>2, <2>1, <2>2, AppendProperties
  <2>4. \A i \in 1 .. k - 1 : r[i] = (n - k) + (i + 1)
    BY <1>1, <2>2, <2>3
  <2>5. \A i \in 1 .. Len(r) : r[i] = ((n + 1) - k) + i
    <3> SUFFICES ASSUME NEW i \in 1 .. k PROVE r[i] = ((n + 1) - k) + i
      BY <2>3
    <3>1. CASE i = k
      BY <1>1, <2>3, <3>1
    <3>2. CASE i # k
      <4>1. i \in 1 .. k - 1
        BY <1>1, <3>2
      <4> QED BY <1>1, <2>4, <4>1
    <3> QED BY <3>1, <3>2
  <2>7. Enqueued(q, n + 1) = r
    BY <1>4 DEF Enqueued
  <2>8. taken <= n - k
    BY DEF HoldsNewest
  <2>9. HoldsNewest(r, taken, n + 1)
    <3>1. k \in Nat /\ Len(r) = k /\ k = QueueSize
      BY <1>1, <2>1, <2>3
    <3>2. taken <= (n + 1) - k
      BY <2>8, <3>1
    <3> HIDE DEF k, r
    <3>3. /\ Len(r) <= QueueSize /\ taken <= (n + 1) - Len(r)
          /\ taken < (n + 1) - Len(r) => Len(r) = QueueSize
      BY <3>1, <3>2
    <3>4. \A i \in 1 .. Len(r) : r[i] = ((n + 1) - Len(r)) + i
      BY <2>5, <3>1, Zenon
    <3> QED BY <3>3, <3>4, Zenon DEF HoldsNewest
  <2> QED BY <2>3, <2>7, <2>9
<1> QED BY <1>3, <1>4

(* Taking the first event leaves those dispatched after it.                 *)
LEMMA TakenNewest ==
    ASSUME NEW q \in Seq(1 .. MaxEvents), NEW n \in 0 .. MaxEvents, q # <<>>,
           NEW taken \in 0 .. MaxEvents, HoldsNewest(q, taken, n)
    PROVE  /\ Tail(q) \in Seq(1 .. MaxEvents) /\ Head(q) \in 1 .. MaxEvents
           /\ HoldsNewest(Tail(q), Head(q), n)
<1> USE OutboundBounds
<1> DEFINE k == Len(q)  r == Tail(q)
<1>1. /\ k \in Nat \ {0} /\ k <= QueueSize
      /\ \A i \in 1 .. k : q[i] = (n - k) + i
  BY LenProperties, EmptySeq DEF HoldsNewest
<1>2. /\ r \in Seq(1 .. MaxEvents) /\ Head(q) \in 1 .. MaxEvents /\ Len(r) = k - 1
      /\ \A i \in 1 .. k - 1 : r[i] = q[i + 1]
      /\ Head(q) = q[1]
  BY <1>1, HeadTailProperties, SMT
<1>3. Head(q) = n - Len(r)
  BY <1>1, <1>2
<1>4. \A i \in 1 .. Len(r) : r[i] = (n - Len(r)) + i
  BY <1>1, <1>2
<1>5. Len(r) <= QueueSize /\ ~(Head(q) < n - Len(r)) /\ Head(q) <= n - Len(r)
  BY <1>1, <1>2, <1>3
<1> QED BY <1>2, <1>4, <1>5 DEF HoldsNewest

-----------------------------------------------------------------------------
LEMMA StreamsInit == OutboundInit => StreamsInv
<1> SUFFICES ASSUME OutboundInit PROVE StreamsInv
  OBVIOUS
<1>1. Disconnected \in StreamState /\ ~Disconnected.open
  BY OutboundBounds DEF Disconnected, StreamState
<1> QED BY <1>1, OutboundBounds DEF OutboundInit, StreamsInv

LEMMA ConnectedStream ==
    ASSUME NEW n \in 0 .. MaxEvents
    PROVE  LET m == [Disconnected EXCEPT !.open = TRUE, !.taken = n] IN
           m \in StreamState /\ m.queue = <<>> /\ m.taken = n
<1>1. Disconnected \in StreamState /\ Disconnected.queue = <<>>
  BY OutboundBounds DEF Disconnected, StreamState
<1> QED BY <1>1 DEF StreamState

(* A client's own steps: it connects, takes an event, sends it, is gone.    *)
LEMMA ClientStep ==
    ASSUME StreamsInv, NEW c \in Clients,
           Connects(c) \/ TakesEvent(c) \/ SendsEvent(c) \/ SendFails(c)
    PROVE  StreamsInv'
<1> USE OutboundBounds
<1> DEFINE s == streams[c]
<1>1. /\ s \in StreamState /\ dispatched \in 0 .. MaxEvents
      /\ streams \in [Clients -> StreamState]
  BY DEF StreamsInv
<1>2. SUFFICES ASSUME NEW m \in StreamState, streams' = [streams EXCEPT ![c] = m],
                      m.open => HoldsNewest(m.queue, m.taken, dispatched),
                      dispatched' = dispatched
               PROVE  StreamsInv'
  <2>1. dispatched' = dispatched
    BY DEF Connects, TakesEvent, SendsEvent, SendFails
  <2>2. CASE Connects(c)
    <3> DEFINE m == [Disconnected EXCEPT !.open = TRUE, !.taken = dispatched]
    <3>1. /\ m \in StreamState /\ m.queue = <<>> /\ m.taken = dispatched
      BY <1>1, ConnectedStream
    <3>2. HoldsNewest(m.queue, m.taken, dispatched)
      BY <1>1, <3>1 DEF HoldsNewest
    <3> QED BY <1>2, <2>1, <2>2, <3>1, <3>2 DEF Connects
  <2>3. CASE TakesEvent(c)
    <3> DEFINE m == [s EXCEPT !.taken = Head(s.queue), !.queue = Tail(s.queue),
                              !.sending = TRUE]
    <3>1. /\ s.open /\ s.queue # <<>> /\ s.queue \in Seq(1 .. MaxEvents)
          /\ s.taken \in 0 .. MaxEvents /\ HoldsNewest(s.queue, s.taken, dispatched)
      BY <1>1, <2>3 DEF TakesEvent, StreamState, StreamsInv
    <3>2. /\ Tail(s.queue) \in Seq(1 .. MaxEvents) /\ Head(s.queue) \in 1 .. MaxEvents
          /\ HoldsNewest(Tail(s.queue), Head(s.queue), dispatched)
      BY <1>1, <3>1, TakenNewest
    <3>3. /\ m \in StreamState /\ m.queue = Tail(s.queue) /\ m.taken = Head(s.queue)
      <4>1. Head(s.queue) \in 0 .. MaxEvents
        BY <3>2
      <4>2. m \in StreamState
        BY <1>1, <3>2, <4>1 DEF StreamState
      <4>3. m.queue = Tail(s.queue)
        BY <1>1 DEF StreamState
      <4>4. m.taken = Head(s.queue)
        BY <1>1 DEF StreamState
      <4> QED BY <4>2, <4>3, <4>4
    <3>4. streams' = [streams EXCEPT ![c] = m]
      BY <1>1, <2>3 DEF TakesEvent, StreamState
    <3> QED BY <1>2, <2>1, <3>2, <3>3, <3>4
  <2>4. CASE SendsEvent(c)
    <3> DEFINE m == [s EXCEPT !.sending = FALSE]
    <3>1. m \in StreamState /\ m.open = s.open /\ m.queue = s.queue /\ m.taken = s.taken
      BY <1>1 DEF StreamState
    <3>2. streams' = [streams EXCEPT ![c] = m]
      BY <1>1, <2>4 DEF SendsEvent, StreamState
    <3> QED BY <1>2, <2>1, <3>1, <3>2 DEF StreamsInv
  <2>5. CASE SendFails(c)
    <3>1. Disconnected \in StreamState /\ ~Disconnected.open
      BY DEF Disconnected, StreamState
    <3> QED BY <1>2, <2>1, <2>5, <3>1 DEF SendFails
  <2> QED BY <2>2, <2>3, <2>4, <2>5
<1>3. streams' \in [Clients -> StreamState]
  BY <1>1, <1>2
<1>4. ASSUME NEW d \in Clients, streams'[d].open
      PROVE  HoldsNewest(streams'[d].queue, streams'[d].taken, dispatched')
  <2>1. CASE d = c
    BY <1>1, <1>2, <1>4, <2>1
  <2>2. CASE d # c
    BY <1>1, <1>2, <1>4, <2>2 DEF StreamsInv
  <2> QED BY <2>1, <2>2
<1> QED BY <1>1, <1>2, <1>3, <1>4 DEF StreamsInv

(* A dispatch hands the next event to every stream that is open.            *)
LEMMA DispatchStep ==
    ASSUME StreamsInv, NEW d \in {"bus", "direct"}, NEW b, Dispatches(d, b)
    PROVE  StreamsInv'
<1> USE OutboundBounds
<1>1. /\ dispatched \in 0 .. MaxEvents /\ dispatched < MaxEvents
      /\ dispatched' = dispatched + 1 /\ dispatched' \in 0 .. MaxEvents
  BY DEF StreamsInv, Dispatches
<1>2. streams' = [c \in Clients |->
         IF streams[c].open
         THEN [streams[c] EXCEPT !.queue = Enqueued(@, dispatched')] ELSE streams[c]]
  BY DEF Dispatches
<1>3. ASSUME NEW c \in Clients
      PROVE  /\ streams'[c] \in StreamState
             /\ streams'[c].open => HoldsNewest(streams'[c].queue, streams'[c].taken, dispatched')
  <2> DEFINE s == streams[c]  m == [s EXCEPT !.queue = Enqueued(s.queue, dispatched + 1)]
  <2>1. s \in StreamState
    BY DEF StreamsInv
  <2>2. CASE s.open
    <3>1. /\ s.queue \in Seq(1 .. MaxEvents) /\ s.taken \in 0 .. MaxEvents
          /\ HoldsNewest(s.queue, s.taken, dispatched)
      BY <2>1, <2>2 DEF StreamState, StreamsInv
    <3>2. /\ Enqueued(s.queue, dispatched + 1) \in Seq(1 .. MaxEvents)
          /\ HoldsNewest(Enqueued(s.queue, dispatched + 1), s.taken, dispatched + 1)
      BY <1>1, <3>1, EnqueuedNewest
    <3>3. /\ m \in StreamState /\ m.queue = Enqueued(s.queue, dispatched + 1)
          /\ m.taken = s.taken
      BY <2>1, <3>2 DEF StreamState
    <3>4. streams'[c] = m
      BY <1>1, <1>2, <2>2
    <3> QED BY <1>1, <3>2, <3>3, <3>4
  <2>3. CASE ~s.open
    <3>1. streams'[c] = s
      BY <1>2, <2>3
    <3> QED BY <2>1, <2>3, <3>1
  <2> QED BY <2>2, <2>3
<1>4. streams' \in [Clients -> StreamState]
  BY <1>2, <1>3
<1> QED BY <1>1, <1>3, <1>4 DEF StreamsInv

LEMMA StreamsStep == StreamsInv /\ [OutboundNext]_outboundVars => StreamsInv'
<1> SUFFICES ASSUME StreamsInv, [OutboundNext]_outboundVars PROVE StreamsInv'
  OBVIOUS
<1>1. CASE \E c \in Clients : Connects(c) \/ TakesEvent(c) \/ SendsEvent(c) \/ SendFails(c)
  BY <1>1, ClientStep
<1>2. CASE BusDispatches \/ \E b \in BOOLEAN : DirectDispatches(b)
  <2>1. \E d \in {"bus", "direct"} : \E b : Dispatches(d, b)
    BY <1>2, Zenon DEF BusDispatches, DirectDispatches
  <2> QED BY <2>1, DispatchStep
<1>3. CASE UNCHANGED <<dispatched, streams>>
  BY <1>3 DEF StreamsInv
<1> QED
  BY <1>1, <1>2, <1>3, Zenon
  DEF OutboundNext, outboundVars, PublishesEvent, ServiceAnswers, DispatchEnds

THEOREM StreamsInvariant == OutboundSpec => []StreamsInv
BY StreamsInit, StreamsStep, PTL DEF OutboundSpec

(* What a slow WebSocket client has still to receive are the newest events  *)
(* in the order of their dispatch, and events are missing only while its    *)
(* queue is full: for every queue size and any number of clients.           *)
THEOREM SlowClientGetsNewest == OutboundSpec => []StreamIsNewest
<1>1. StreamsInv => StreamIsNewest
  <2> SUFFICES ASSUME StreamsInv, NEW c \in Clients, streams[c].open
               PROVE  LET waits == Len(streams[c].queue)  first == dispatched - waits IN
                      /\ streams[c].queue = [i \in 1 .. waits |-> first + i]
                      /\ streams[c].taken <= first
                      /\ streams[c].taken < first => waits = QueueSize
    BY DEF StreamIsNewest
  <2> DEFINE q == streams[c].queue
  <2>1. q \in Seq(1 .. MaxEvents) /\ HoldsNewest(q, streams[c].taken, dispatched)
    BY DEF StreamsInv, StreamState
  <2>2. q \in [1 .. Len(q) -> 1 .. MaxEvents]
    BY <2>1, LenProperties
  <2>3. q = [i \in 1 .. Len(q) |-> (dispatched - Len(q)) + i]
    BY <2>1, <2>2 DEF HoldsNewest
  <2> QED BY <2>1, <2>3 DEF HoldsNewest
<1> QED BY <1>1, StreamsInvariant, PTL

-----------------------------------------------------------------------------
(* News                                                                     *)

NewsItems == [story : Stories, date : Int]
ReaderState == [busy : BOOLEAN, coin : Coins \cup {"none"}, since : Nat,
                waits : SUBSET Sources, got : SUBSET NewsItems]

(* What a fetch that began at an hour may bring: of a story that has a date,*)
(* one published no more than the lookback before it.                       *)
Fresh(item, pr, since) ==
    item.story.dated => pr[item.story] # Unprinted /\ pr[item.story] >= since - Lookback

(* What a reader has got, or was served, is fresh for the fetch it is of.   *)
GoodReader(q, pr, h) ==
    /\ q \in ReaderState /\ q.since <= h
    /\ ~q.busy => q.waits = {}
    /\ \A i \in q.got : Fresh(i, pr, q.since)

NewsInv ==
    /\ hour \in Nat
    /\ printed \in [Stories -> Int]
    /\ digest.items \subseteq NewsItems /\ digest.at \in -1 .. hour
    /\ digest.since \in Nat /\ digest.since <= hour
    /\ \A i \in digest.items : Fresh(i, printed, digest.since)
    /\ DOMAIN reader = Readers /\ reader = [r \in Readers |-> reader[r]]
    /\ \A r \in Readers : GoodReader(reader[r], printed, hour)

LEMMA NewsConstants ==
    /\ Lookback \in Nat /\ Ttl \in Nat /\ LastHour \in Nat
BY NewsAssumption

(* A step of one reader, the clock and the stories staying as they are.     *)
LEMMA ReaderStep ==
    ASSUME NewsInv, NEW r \in Readers, NEW q, reader' = [reader EXCEPT ![r] = q],
           GoodReader(q, printed, hour), UNCHANGED <<hour, printed, digest>>
    PROVE  NewsInv'
<1>1. \A p \in Readers : reader'[p] = IF p = r THEN q ELSE reader[p]
  BY DEF NewsInv
<1>2. \A p \in Readers : GoodReader(reader'[p], printed', hour')
  BY <1>1 DEF NewsInv
<1>3. DOMAIN reader' = Readers /\ reader' = [p \in Readers |-> reader'[p]]
  BY DEF NewsInv
<1> QED BY <1>2, <1>3 DEF NewsInv

LEMMA ServeStep ==
    ASSUME NewsInv, NEW r \in Readers, NEW c \in Coins, ServeCached(r, c)
    PROVE  NewsInv'
<1> DEFINE q == [Idle EXCEPT !.coin = c, !.got = digest.items, !.since = digest.since]
<1>1. reader' = [reader EXCEPT ![r] = q] /\ UNCHANGED <<hour, printed, digest>>
  BY DEF ServeCached
<1>2. digest.items \in SUBSET NewsItems /\ digest.since \in Nat
  BY DEF NewsInv
<1>3. /\ q \in ReaderState /\ q.got = digest.items /\ q.since = digest.since
      /\ q.waits = {}
  BY <1>2 DEF Idle, ReaderState
<1> HIDE DEF q
<1>4. GoodReader(q, printed, hour)
  BY <1>3 DEF GoodReader, NewsInv
<1> QED BY <1>1, <1>4, ReaderStep

LEMMA BeginFetchStep ==
    ASSUME NewsInv, NEW r \in Readers, NEW c \in Coins, BeginFetch(r, c)
    PROVE  NewsInv'
<1> DEFINE q == [Idle EXCEPT !.busy = TRUE, !.coin = c, !.since = hour, !.waits = Sources]
<1>1. reader' = [reader EXCEPT ![r] = q] /\ UNCHANGED <<hour, printed, digest>> /\ hour \in Nat
  BY DEF BeginFetch, NewsInv
<1>2. q \in ReaderState /\ q.got = {} /\ q.since = hour /\ q.busy
  BY <1>1 DEF Idle, ReaderState
<1> HIDE DEF q
<1>3. GoodReader(q, printed, hour)
  BY <1>1, <1>2 DEF GoodReader
<1> QED BY <1>1, <1>3, ReaderStep

(* A source answers with stories that were fresh when the fetch began, or   *)
(* that have no date, or with none.                                         *)
LEMMA AnswerStep ==
    ASSUME NewsInv, NEW r \in Readers, NEW source, NEW items \in SUBSET NewsItems,
           Answered(r, source, items),
           \A i \in items : Fresh(i, printed, reader[r].since)
    PROVE  NewsInv'
<1>1. PICK got \in {items, {}} :
         reader' = [reader EXCEPT ![r].waits = @ \ {source}, ![r].got = @ \cup got]
  BY DEF Answered
<1> DEFINE o == reader[r]
           k == [o EXCEPT !.waits = o.waits \ {source}]
           q == [k EXCEPT !.got = o.got \cup got]
<1>2. GoodReader(o, printed, hour) /\ o \in ReaderState
  BY DEF NewsInv, GoodReader
<1>3. reader' = [reader EXCEPT ![r] = q] /\ UNCHANGED <<hour, printed, digest>>
  <2>1. DOMAIN reader = Readers
    BY DEF NewsInv
  <2>2. UNCHANGED <<hour, printed, digest>>
    BY DEF Answered
  <2> QED BY <1>1, <2>1, <2>2
<1>4. /\ k \in ReaderState /\ k.busy = o.busy /\ k.since = o.since
      /\ o.waits = {} => k.waits = {}
  BY <1>2 DEF ReaderState
<1> HIDE DEF k
<1>5. /\ q \in ReaderState /\ q.busy = o.busy /\ q.since = o.since /\ q.got = o.got \cup got
      /\ o.waits = {} => q.waits = {}
  <2>1. o.got \cup got \in SUBSET NewsItems
    BY <1>2 DEF ReaderState
  <2> QED BY <1>4, <2>1 DEF ReaderState
<1> HIDE DEF q, o
<1>6. \A i \in got : Fresh(i, printed, o.since)
  BY DEF o
<1>7. GoodReader(q, printed, hour)
  BY <1>2, <1>5, <1>6 DEF GoodReader
<1> QED BY <1>3, <1>7, ReaderStep

LEMMA EndFetchStep ==
    ASSUME NewsInv, NEW r \in Readers, EndFetch(r)
    PROVE  NewsInv'
<1> DEFINE o == reader[r]
           items == About(o.got, o.coin)
           k == [o EXCEPT !.busy = FALSE]
           q == [k EXCEPT !.got = items]
<1>1. /\ o.waits = {} /\ digest' = [items |-> items, since |-> o.since, at |-> hour]
      /\ reader' = [reader EXCEPT ![r] = q] /\ UNCHANGED <<hour, printed>>
  <2>1. DOMAIN reader = Readers
    BY DEF NewsInv
  <2> QED BY <2>1 DEF EndFetch
<1>2. GoodReader(o, printed, hour) /\ o \in ReaderState /\ hour \in Nat
  BY DEF NewsInv, GoodReader
<1> HIDE DEF o
<1>3. items \subseteq o.got /\ items \in SUBSET NewsItems
  BY <1>2 DEF About, ReaderState
<1>4. \A i \in items : Fresh(i, printed, o.since)
  BY <1>2, <1>3 DEF GoodReader
<1> HIDE DEF items
<1>5. k \in ReaderState /\ k.since = o.since /\ k.waits = {}
  BY <1>1, <1>2 DEF ReaderState
<1> HIDE DEF k
<1>6. q \in ReaderState /\ q.since = o.since /\ q.waits = {} /\ q.got = items
  BY <1>3, <1>5 DEF ReaderState
<1> HIDE DEF q
<1>7. GoodReader(q, printed, hour)
  BY <1>2, <1>4, <1>6 DEF GoodReader
<1>8. \A p \in Readers : reader'[p] = IF p = r THEN q ELSE reader[p]
  BY <1>1 DEF NewsInv
<1>9. \A p \in Readers : GoodReader(reader'[p], printed', hour')
  BY <1>1, <1>7, <1>8 DEF NewsInv
<1>10. DOMAIN reader' = Readers /\ reader' = [p \in Readers |-> reader'[p]]
  BY <1>1 DEF NewsInv
<1>11. digest'.items = items /\ digest'.at = hour /\ digest'.since = o.since
  BY <1>1
<1>12. o.since \in Nat /\ o.since <= hour
  BY <1>2 DEF GoodReader, ReaderState
<1> QED BY <1>1, <1>2, <1>3, <1>4, <1>9, <1>10, <1>11, <1>12 DEF NewsInv

LEMMA PublishStep ==
    ASSUME NewsInv, NEW s \in Stories, Publish(s)
    PROVE  NewsInv'
<1>1. /\ printed[s] = Unprinted /\ printed' = [printed EXCEPT ![s] = hour]
      /\ UNCHANGED <<hour, reader, digest>>
  BY DEF Publish
<1>2. printed' \in [Stories -> Int]
  BY <1>1 DEF NewsInv
<1>3. ASSUME NEW i \in NewsItems, NEW h, Fresh(i, printed, h) PROVE Fresh(i, printed', h)
  <2>1. i.story \in Stories
    BY DEF NewsItems
  <2> QED BY <1>1, <1>3, <2>1 DEF Fresh, NewsInv
<1>4. ASSUME NEW r \in Readers PROVE GoodReader(reader[r], printed', hour)
  <2>1. GoodReader(reader[r], printed, hour) /\ reader[r].got \subseteq NewsItems
    BY DEF NewsInv, GoodReader, ReaderState
  <2> QED BY <1>3, <2>1 DEF GoodReader
<1>5. \A i \in digest.items : Fresh(i, printed', digest.since)
  BY <1>3 DEF NewsInv
<1> QED BY <1>1, <1>2, <1>4, <1>5 DEF NewsInv

LEMMA HourStep ==
    ASSUME NewsInv, HourPasses
    PROVE  NewsInv'
<1>1. hour' = hour + 1 /\ hour \in Nat /\ UNCHANGED <<printed, reader, digest>>
  BY DEF HourPasses, NewsInv
<1>2. ASSUME NEW r \in Readers PROVE GoodReader(reader[r], printed, hour + 1)
  <2>1. GoodReader(reader[r], printed, hour) /\ reader[r].since \in Nat
    BY DEF NewsInv, GoodReader, ReaderState
  <2> QED BY <1>1, <2>1 DEF GoodReader
<1>3. digest.at \in -1 .. hour + 1 /\ digest.since <= hour + 1
  BY <1>1 DEF NewsInv
<1> QED BY <1>1, <1>2, <1>3 DEF NewsInv

LEMMA NewsInvariant == NewsSpec => []NewsInv
<1>1. ASSUME NewsInit PROVE NewsInv
  <2>1. /\ hour = 0 /\ digest = NoDigest /\ printed = [s \in Stories |-> Unprinted]
        /\ reader = [r \in Readers |-> Idle]
    BY <1>1 DEF NewsInit
  <2>2. Idle \in ReaderState /\ Idle.got = {} /\ Idle.waits = {} /\ Idle.since = 0
    BY DEF Idle, ReaderState
  <2>3. \A r \in Readers : GoodReader(reader[r], printed, hour)
    BY <2>1, <2>2 DEF GoodReader
  <2>4. digest.items = {} /\ digest.at \in -1 .. hour /\ digest.since = 0
    BY <2>1 DEF NoDigest
  <2>5. printed \in [Stories -> Int]
    BY <2>1 DEF Unprinted
  <2> QED BY <2>1, <2>3, <2>4, <2>5 DEF NewsInv
<1>2. NewsInv /\ [NewsNext]_newsVars => NewsInv'
  <2> SUFFICES ASSUME NewsInv, [NewsNext]_newsVars PROVE NewsInv'
    OBVIOUS
  <2>1. ASSUME NEW r \in Readers, NEW source, NEW from \in Int, NEW items,
               items \subseteq StoriesOf(source, from), from >= reader[r].since - Lookback
        PROVE  /\ items \in SUBSET NewsItems
               /\ \A i \in items : Fresh(i, printed, reader[r].since)
    <3>1. reader[r].since \in Nat
      BY DEF NewsInv, GoodReader, ReaderState
    <3>2. ASSUME NEW i \in items PROVE i \in NewsItems /\ Fresh(i, printed, reader[r].since)
      <4>1. PICK s \in Stories : i = Item(s) /\ printed[s] # Unprinted /\ i.date >= from
        BY <2>1 DEF StoriesOf
      <4>2. i.story = s /\ i.date = (IF s.dated THEN printed[s] ELSE hour)
        BY <4>1 DEF Item
      <4>3. printed[s] \in Int /\ hour \in Int
        BY DEF NewsInv
      <4>4. i \in NewsItems
        BY <4>1, <4>3 DEF Item, NewsItems
      <4> QED BY <2>1, <3>1, <4>1, <4>2, <4>3, <4>4, NewsConstants DEF Fresh
    <3> QED BY <3>2
  <2>2. ASSUME NEW r \in Readers PROVE reader[r].since \in Nat /\ hour \in Nat /\ reader[r].since <= hour
    BY DEF NewsInv, GoodReader, ReaderState
  <2>3. ASSUME NEW r \in Readers, RssAnswers(r) PROVE NewsInv'
    <3> DEFINE from == reader[r].since - Lookback
               items == StoriesOf("rss", from)
    <3>1. Answered(r, "rss", items)
      BY <2>3 DEF RssAnswers
    <3>2. from \in Int /\ from >= reader[r].since - Lookback
      BY <2>2, NewsConstants
    <3> HIDE DEF from
    <3>3. /\ items \in SUBSET NewsItems
          /\ \A i \in items : Fresh(i, printed, reader[r].since)
      BY <2>1, <3>2
    <3> HIDE DEF items
    <3> QED BY <3>1, <3>3, AnswerStep
  <2>4. ASSUME NEW r \in Readers, PanicAnswers(r) PROVE NewsInv'
    <3> DEFINE from == hour - Lookback
               items == {i \in StoriesOf("cryptopanic", from) : reader[r].coin \in i.story.coins}
    <3>1. Answered(r, "cryptopanic", items)
      BY <2>4 DEF PanicAnswers
    <3>2. from \in Int /\ from >= reader[r].since - Lookback
      BY <2>2, NewsConstants
    <3> HIDE DEF from
    <3>3. items \subseteq StoriesOf("cryptopanic", from)
      OBVIOUS
    <3> HIDE DEF items
    <3>4. /\ items \in SUBSET NewsItems
          /\ \A i \in items : Fresh(i, printed, reader[r].since)
      BY <2>1, <3>2, <3>3
    <3> QED BY <3>1, <3>4, AnswerStep
  <2>5. ASSUME UNCHANGED newsVars PROVE NewsInv'
    BY <2>5 DEF NewsInv, newsVars
  <2> QED
    BY <2>3, <2>4, <2>5, ServeStep, BeginFetchStep, EndFetchStep, PublishStep, HourStep DEF NewsNext
<1> QED BY <1>1, <1>2, PTL DEF NewsSpec

(* However fetches overlap and overwrite each other's digest, no story with *)
(* a date that is served was published more than the lookback before the    *)
(* fetch that brought it began (feeds.py:98, 126, 271, 416, 433): for any   *)
(* readers, stories and times.                                              *)
THEOREM NewsServedIsRecent == NewsSpec => []ServedIsRecent
<1>1. NewsInv => ServedIsRecent
  BY DEF NewsInv, ServedIsRecent, GoodReader, Fresh
<1> QED BY <1>1, NewsInvariant, PTL

-----------------------------------------------------------------------------
(* The scheduler.  Division with a remainder, for slots, days and weeks.    *)
LEMMA Division ==
    ASSUME NEW x \in Nat, NEW d \in Nat \ {0}
    PROVE  /\ x \div d \in Nat /\ x % d \in 0 .. d - 1
           /\ x = (x \div d) * d + (x % d)
<1>1. x \div d \in Nat
  OBVIOUS
<1>2. x % d \in 0 .. d - 1
  OBVIOUS
<1>3. x = d * (x \div d) + (x % d)
  OBVIOUS
<1>4. d * (x \div d) = (x \div d) * d
  BY <1>1
<1> QED BY <1>1, <1>2, <1>3, <1>4

LEMMA Multiples ==
    ASSUME NEW d \in Nat \ {0}, NEW a \in Int, NEW b \in Int, a < b
    PROVE  a * d + d <= b * d
<1>1. (a + 1) * d <= b * d
  OBVIOUS
<1>2. (a + 1) * d = a * d + d
  OBVIOUS
<1> QED BY <1>1, <1>2

LEMMA NoneBetween ==
    ASSUME NEW d \in Nat \ {0}, NEW p \in Int, NEW q \in Int,
           NEW r \in 0 .. d - 1, NEW s \in 0 .. d - 1, p * d + r = q * d + s
    PROVE  p = q /\ r = s
<1>1. p * d \in Int /\ q * d \in Int
  OBVIOUS
<1>2. ~(p < q)
  BY <1>1, Multiples
<1>3. ~(q < p)
  BY <1>1, Multiples
<1>4. p = q
  BY <1>2, <1>3
<1>5. p * d = q * d
  BY <1>4
<1> QED BY <1>1, <1>4, <1>5

LEMMA DivisionIs ==
    ASSUME NEW d \in Nat \ {0}, NEW q \in Nat, NEW r \in 0 .. d - 1
    PROVE  (q * d + r) \div d = q /\ (q * d + r) % d = r
<1> DEFINE x == q * d + r
<1>1. x \in Nat
  OBVIOUS
<1>2. x \div d \in Nat /\ x % d \in 0 .. d - 1 /\ x = (x \div d) * d + (x % d)
  BY <1>1, Division
<1> HIDE DEF x
<1>3. (x \div d) * d + (x % d) = q * d + r
  BY <1>2 DEF x
<1> DEFINE a == x \div d
           b == x % d
<1>4. a \in Int /\ b \in 0 .. d - 1 /\ a * d + b = q * d + r
  BY <1>2, <1>3
<1> HIDE DEF a, b
<1>5. a = q /\ b = r
  BY <1>4, NoneBetween
<1> QED BY <1>5 DEF a, b, x

LEMMA SmallestOf ==
    ASSUME NEW P \in SUBSET Nat, P # {}
    PROVE  \E m \in P : \A k \in P : m <= k
<1>1. PICK m \in P : \A k \in P : <<k, m>> \notin OpToRel(<, Nat)
  BY WFMin, NatLessThanWellFounded, Zenon
<1>2. m \in Nat /\ \A k \in P : k \in Nat /\ ~(k < m)
  BY <1>1, Zenon DEF OpToRel
<1> QED BY <1>2

LEMMA MonthLengthType ==
    ASSUME NEW m \in Nat
    PROVE  MonthLength(m) \in Nat \ {0}
<1>1. Months \in Seq(Nat \ {0}) /\ Len(Months) \in Nat \ {0}
  BY PlanAssumption
<1> DEFINE r == m % Len(Months)
<1>2. r \in 0 .. Len(Months) - 1
  BY <1>1, Division
<1> HIDE DEF r
<1>3. 1 + r \in 1 .. Len(Months)
  BY <1>1, <1>2
<1>4. Months[1 + r] \in Nat \ {0}
  BY <1>1, <1>3
<1> QED BY <1>4 DEF MonthLength, r

(* The months begun so far, up to the n-th.                                 *)
Calendars(n) ==
    {f \in [0 .. n -> Nat] : /\ f[0] = 0
                             /\ \A i \in 1 .. n : f[i] = f[i - 1] + MonthLength(i - 1)}

LEMMA CalendarExists == \A n \in Nat : Calendars(n) # {}
<1> DEFINE NoCalendar == {n \in Nat : Calendars(n) = {}}
<1> SUFFICES ASSUME NoCalendar # {} PROVE FALSE
  OBVIOUS
<1>1. PICK m \in NoCalendar : \A k \in NoCalendar : m <= k
  <2>1. NoCalendar \in SUBSET Nat
    OBVIOUS
  <2> HIDE DEF NoCalendar
  <2>2. QED BY <2>1, SmallestOf
<1>2. m \in Nat /\ Calendars(m) = {}
  BY <1>1
<1>3. CASE m = 0
  <2> DEFINE f == [i \in 0 .. 0 |-> 0]
  <2>1. f \in [0 .. 0 -> Nat] /\ f[0] = 0 /\ 1 .. 0 = {}
    OBVIOUS
  <2> HIDE DEF f
  <2> QED BY <1>2, <1>3, <2>1 DEF Calendars
<1>4. CASE m # 0
  <2>1. m - 1 \in Nat /\ m - 1 \notin NoCalendar
    BY <1>1, <1>2, <1>4
  <2>2. PICK f : f \in Calendars(m - 1)
    BY <2>1
  <2>3. /\ f \in [0 .. m - 1 -> Nat] /\ f[0] = 0
        /\ \A i \in 1 .. m - 1 : f[i] = f[i - 1] + MonthLength(i - 1)
    BY <2>2 DEF Calendars
  <2>4. MonthLength(m - 1) \in Nat /\ f[m - 1] \in Nat
    BY <1>2, <2>1, <2>3, MonthLengthType
  <2> DEFINE next == f[m - 1] + MonthLength(m - 1)
             g == [i \in 0 .. m |-> IF i = m THEN next ELSE f[i]]
  <2>5. next \in Nat
    BY <2>4
  <2>6. next = f[m - 1] + MonthLength(m - 1)
    OBVIOUS
  <2> HIDE DEF next
  <2>7. /\ g \in [0 .. m -> Nat] /\ g[m] = next
        /\ \A i \in 0 .. m - 1 : g[i] = f[i]
    BY <1>2, <1>4, <2>3, <2>5
  <2> HIDE DEF g
  <2>8. g[0] = 0
    BY <1>2, <1>4, <2>3, <2>7
  <2>9. ASSUME NEW i \in 1 .. m
        PROVE  g[i] = g[i - 1] + MonthLength(i - 1)
    <3>1. i - 1 \in 0 .. m - 1 /\ g[i - 1] = f[i - 1]
      BY <1>2, <2>7
    <3>2. CASE i = m
      BY <2>6, <2>7, <3>1, <3>2
    <3>3. CASE i # m
      <4>1. i \in 1 .. m - 1 /\ i \in 0 .. m - 1
        BY <1>2, <3>3
      <4> QED BY <2>3, <2>7, <3>1, <4>1
    <3> QED BY <3>2, <3>3
  <2>10. g \in Calendars(m)
    BY <2>7, <2>8, <2>9 DEF Calendars
  <2> QED BY <1>2, <2>10
<1> QED BY <1>3, <1>4

LEMMA CalendarsAgree ==
    ASSUME NEW n \in Nat, NEW m \in Nat, m <= n, NEW f \in Calendars(n), NEW g \in Calendars(m)
    PROVE  f[m] = g[m]
<1> DEFINE Off == {i \in 0 .. m : f[i] # g[i]}
<1>0. f[0] = 0 /\ g[0] = 0
  BY DEF Calendars
<1>1. Off = {}
  <2> SUFFICES ASSUME Off # {} PROVE FALSE
    OBVIOUS
  <2>1. PICK i \in Off : \A k \in Off : i <= k
    <3>1. Off \in SUBSET Nat
      OBVIOUS
    <3> HIDE DEF Off
    <3>2. QED BY <3>1, SmallestOf
  <2>2. i \in 1 .. m /\ i \in 1 .. n /\ i - 1 \in 0 .. m /\ f[i] # g[i]
    BY <1>0, <2>1
  <2>3. i - 1 \notin Off
    BY <2>1
  <2>4. f[i - 1] = g[i - 1]
    BY <2>2, <2>3
  <2>5. /\ f[i] = f[i - 1] + MonthLength(i - 1)
        /\ g[i] = g[i - 1] + MonthLength(i - 1)
    BY <2>2 DEF Calendars
  <2> QED BY <2>2, <2>4, <2>5
<1>2. m \in 0 .. m
  OBVIOUS
<1> QED BY <1>1, <1>2

(* The recursion that defines the first days has a solution.                *)
LEMMA FirstDayStep ==
    /\ FirstDay \in [Nat -> Nat] /\ FirstDay[0] = 0
    /\ \A m \in Nat : FirstDay[m + 1] = FirstDay[m] + MonthLength(m)
<1> DEFINE Step(f) == [m \in Nat |-> IF m = 0 THEN 0 ELSE f[m - 1] + MonthLength(m - 1)]
           C(n) == CHOOSE f \in Calendars(n) : TRUE
           F == [n \in Nat |-> C(n)[n]]
<1>1. \A n \in Nat : C(n) \in Calendars(n)
  BY CalendarExists
<1> HIDE DEF C
<1>2. ASSUME NEW n \in Nat
      PROVE  /\ F[n] \in Nat
             /\ n = 0 => F[n] = 0
             /\ n # 0 => F[n] = F[n - 1] + MonthLength(n - 1)
  <2>1. C(n) \in Calendars(n) /\ F[n] = C(n)[n] /\ n \in 0 .. n
    BY <1>1
  <2>2. F[n] \in Nat
    BY <2>1 DEF Calendars
  <2>3. n = 0 => F[n] = 0
    BY <2>1 DEF Calendars
  <2>4. ASSUME n # 0
        PROVE  F[n] = F[n - 1] + MonthLength(n - 1)
    <3>1. n - 1 \in Nat /\ n - 1 <= n /\ n \in 1 .. n
      BY <2>4
    <3>2. C(n - 1) \in Calendars(n - 1) /\ F[n - 1] = C(n - 1)[n - 1]
      BY <1>1, <3>1
    <3>3. C(n)[n - 1] = C(n - 1)[n - 1]
      BY <2>1, <3>1, <3>2, CalendarsAgree
    <3>4. C(n)[n] = C(n)[n - 1] + MonthLength(n - 1)
      BY <2>1, <3>1 DEF Calendars
    <3> QED BY <2>1, <3>2, <3>3, <3>4
  <2> QED BY <2>2, <2>3, <2>4
<1>3. F = Step(F)
  <2>1. F = [n \in Nat |-> F[n]]
    OBVIOUS
  <2> HIDE DEF F
  <2> QED BY <1>2, <2>1
<1>4. FirstDay = Step(FirstDay)
  <2>1. FirstDay = CHOOSE f : f = Step(f)
    BY DEF FirstDay
  <2> HIDE DEF Step
  <2> QED BY <1>3, <2>1
<1>5. \A n \in Nat : /\ n = 0 => FirstDay[n] = 0
                     /\ n # 0 => FirstDay[n] = FirstDay[n - 1] + MonthLength(n - 1)
  BY <1>4
<1>6. \A m \in Nat : FirstDay[m + 1] = FirstDay[m] + MonthLength(m)
  <2> TAKE m \in Nat
  <2>1. m + 1 \in Nat /\ m + 1 # 0 /\ (m + 1) - 1 = m
    OBVIOUS
  <2> QED BY <1>5, <2>1
<1>7. FirstDay[0] = 0
  BY <1>5
<1>8. \A n \in Nat : FirstDay[n] \in Nat
  <2> DEFINE Off == {n \in Nat : FirstDay[n] \notin Nat}
  <2> SUFFICES ASSUME Off # {} PROVE FALSE
    OBVIOUS
  <2>1. PICK n \in Off : \A k \in Off : n <= k
    <3>1. Off \in SUBSET Nat
      OBVIOUS
    <3> HIDE DEF Off
    <3>2. QED BY <3>1, SmallestOf
  <2>2. n \in Nat /\ FirstDay[n] \notin Nat /\ n # 0
    BY <1>7, <2>1
  <2>3. n - 1 \in Nat /\ FirstDay[n - 1] \in Nat /\ MonthLength(n - 1) \in Nat
    BY <2>1, <2>2, MonthLengthType
  <2>4. FirstDay[n] = FirstDay[n - 1] + MonthLength(n - 1)
    BY <1>5, <2>2
  <2> QED BY <2>2, <2>3, <2>4
<1>9. FirstDay \in [Nat -> Nat]
  <2>1. FirstDay = [n \in Nat |-> FirstDay[n]]
    BY <1>4
  <2> QED BY <1>8, <2>1
<1> QED BY <1>6, <1>7, <1>9

(* Months follow one another, and every day is in one of them.              *)
LEMMA MonthStartType ==
    ASSUME NEW m \in Nat
    PROVE  /\ MonthStart(m) \in Nat
           /\ MonthStart(m + 1) = MonthStart(m) + MonthLength(m)
BY FirstDayStep DEF MonthStart

LEMMA MonthStartOrder ==
    ASSUME NEW m \in Nat, NEW n \in Nat, m < n
    PROVE  MonthStart(m) + MonthLength(m) <= MonthStart(n)
<1> DEFINE Off == {k \in Nat : m < k /\ ~(MonthStart(m) + MonthLength(m) <= MonthStart(k))}
<1>1. Off = {}
  <2> SUFFICES ASSUME Off # {} PROVE FALSE
    OBVIOUS
  <2>1. PICK k \in Off : \A j \in Off : k <= j
    <3>1. Off \in SUBSET Nat
      OBVIOUS
    <3> HIDE DEF Off
    <3>2. QED BY <3>1, SmallestOf
  <2>2. k \in Nat /\ m < k /\ ~(MonthStart(m) + MonthLength(m) <= MonthStart(k))
    BY <2>1
  <2>3. k - 1 \in Nat /\ k - 1 \notin Off
    BY <2>1, <2>2
  <2>4. /\ MonthStart(k) = MonthStart(k - 1) + MonthLength(k - 1)
        /\ MonthStart(k - 1) \in Nat /\ MonthLength(k - 1) \in Nat
        /\ MonthStart(m) \in Nat /\ MonthLength(m) \in Nat
    <3>1. (k - 1) + 1 = k
      BY <2>2
    <3> QED BY <2>3, <3>1, MonthStartType, MonthLengthType
  <2>5. CASE m = k - 1
    BY <2>2, <2>4, <2>5
  <2>6. CASE m # k - 1
    <3>1. m < k - 1
      BY <2>2, <2>6
    <3>2. MonthStart(m) + MonthLength(m) <= MonthStart(k - 1)
      BY <2>3, <3>1
    <3> QED BY <2>2, <2>4, <3>2
  <2> QED BY <2>5, <2>6
<1> QED BY <1>1

LEMMA MonthStartGrows == \A n \in Nat : n <= MonthStart(n)
<1> DEFINE Off == {n \in Nat : ~(n <= MonthStart(n))}
<1> SUFFICES ASSUME Off # {} PROVE FALSE
  OBVIOUS
<1>1. PICK n \in Off : \A j \in Off : n <= j
  <2>1. Off \in SUBSET Nat
    OBVIOUS
  <2> HIDE DEF Off
  <2>2. QED BY <2>1, SmallestOf
<1>2. n \in Nat /\ ~(n <= MonthStart(n))
  BY <1>1
<1>3. n # 0
  BY <1>2, FirstDayStep DEF MonthStart
<1>4. n - 1 \in Nat /\ n - 1 <= MonthStart(n - 1)
  BY <1>1, <1>2, <1>3
<1>5. (n - 1) + 1 = n
  BY <1>2
<1>6. /\ MonthStart(n) = MonthStart(n - 1) + MonthLength(n - 1)
      /\ MonthStart(n - 1) \in Nat /\ MonthLength(n - 1) \in Nat \ {0}
  BY <1>4, <1>5, MonthStartType, MonthLengthType
<1> QED BY <1>2, <1>4, <1>6

LEMMA PlanBounds ==
    /\ HourSlots \in Nat \ {0} /\ DaySlots \in Nat \ {0} /\ WeekDays \in Nat \ {0}
    /\ LastSlot \in Nat /\ MaxCalls \in Nat
    /\ \A p \in Plans : /\ p.freq \in {"once", "hourly", "daily", "weekly", "monthly"}
                        /\ p.day \in Nat /\ p.at \in 0 .. DaySlots - 1
                        /\ p.freq = "monthly" => p.day # 0
BY PlanAssumption

LEMMA MonthOfDay ==
    ASSUME NEW u \in Nat
    PROVE  /\ MonthAt(u) \in Nat /\ u \div DaySlots \in Nat
           /\ MonthStart(MonthAt(u)) <= u \div DaySlots
           /\ u \div DaySlots < MonthStart(MonthAt(u)) + MonthLength(MonthAt(u))
<1> DEFINE day == u \div DaySlots
<1>1. day \in Nat
  BY PlanBounds, Division
<1> HIDE DEF day
<1> DEFINE Later == {n \in Nat : day < MonthStart(n)}
<1>2. PICK n \in Later : \A k \in Later : n <= k
  <2>1. day + 1 \in Nat /\ day + 1 <= MonthStart(day + 1)
    BY <1>1, MonthStartGrows
  <2>2. MonthStart(day + 1) \in Nat
    BY <2>1, MonthStartType
  <2>3. day + 1 \in Later
    BY <1>1, <2>1, <2>2
  <2>4. Later \in SUBSET Nat
    OBVIOUS
  <2> HIDE DEF Later
  <2>5. QED BY <2>3, <2>4, SmallestOf
<1>3. n \in Nat /\ day < MonthStart(n) /\ n # 0
  BY <1>1, <1>2, FirstDayStep DEF MonthStart
<1>4. n - 1 \in Nat /\ n - 1 \notin Later
  BY <1>2, <1>3
<1>5. MonthStart(n - 1) \in Nat /\ MonthStart(n - 1) <= day
  BY <1>1, <1>4, MonthStartType
<1>6. n - 1 <= MonthStart(n - 1)
  BY <1>4, MonthStartGrows
<1>7. n - 1 \in 0 .. day
  BY <1>1, <1>4, <1>5, <1>6
<1>8. (n - 1) + 1 = n
  BY <1>3
<1>9. day < MonthStart(n - 1) + MonthLength(n - 1)
  BY <1>3, <1>4, <1>8, MonthStartType
<1>10. \E m \in 0 .. day : MonthStart(m) <= day /\ day < MonthStart(m) + MonthLength(m)
  BY <1>5, <1>7, <1>9
<1>11. /\ MonthAt(u) \in 0 .. day /\ MonthStart(MonthAt(u)) <= day
       /\ day < MonthStart(MonthAt(u)) + MonthLength(MonthAt(u))
  BY <1>10 DEF MonthAt, day
<1> QED BY <1>1, <1>11 DEF day

LEMMA MonthIs ==
    ASSUME NEW u \in Nat, NEW m \in Nat, MonthStart(m) <= u \div DaySlots,
           u \div DaySlots < MonthStart(m) + MonthLength(m)
    PROVE  MonthAt(u) = m
<1> DEFINE day == u \div DaySlots
           M == MonthAt(u)
<1>1. /\ day \in Nat /\ M \in Nat
      /\ MonthStart(M) <= day /\ day < MonthStart(M) + MonthLength(M)
      /\ MonthStart(m) <= day /\ day < MonthStart(m) + MonthLength(m)
  BY MonthOfDay
<1> HIDE DEF day, M
<1>2. /\ MonthStart(M) \in Nat /\ MonthStart(m) \in Nat
      /\ MonthLength(M) \in Nat /\ MonthLength(m) \in Nat
  BY <1>1, MonthStartType, MonthLengthType
<1>3. ~(m < M) /\ ~(M < m)
  BY <1>1, <1>2, MonthStartOrder
<1>4. M = m
  BY <1>1, <1>3
<1> QED BY <1>4 DEF M(* Days and slots.  A slot is a day and a time of the day.                  *)
LEMMA SlotOfDay ==
    ASSUME NEW day \in Nat, NEW at \in 0 .. DaySlots - 1
    PROVE  /\ SlotOf(day, at) \in Nat
           /\ SlotOf(day, at) \div DaySlots = day /\ SlotOf(day, at) % DaySlots = at
<1>1. DaySlots \in Nat \ {0}
  BY PlanBounds
<1>2. day * DaySlots + at \in Nat
  BY <1>1
<1> QED BY <1>1, <1>2, DivisionIs DEF SlotOf

LEMMA DayOfSlot ==
    ASSUME NEW u \in Nat
    PROVE  /\ u \div DaySlots \in Nat /\ u % DaySlots \in 0 .. DaySlots - 1
           /\ u = SlotOf(u \div DaySlots, u % DaySlots)
BY PlanBounds, Division DEF SlotOf

LEMMA SlotOrder ==
    ASSUME NEW a \in Int, NEW b \in Int,
           NEW r \in 0 .. DaySlots - 1, NEW s \in 0 .. DaySlots - 1, a < b
    PROVE  SlotOf(a, r) < SlotOf(b, s)
<1>1. DaySlots \in Nat \ {0}
  BY PlanBounds
<1>2. a * DaySlots + DaySlots <= b * DaySlots
  BY <1>1, Multiples
<1>3. a * DaySlots \in Int /\ b * DaySlots \in Int
  BY <1>1
<1> QED BY <1>1, <1>2, <1>3 DEF SlotOf

LEMMA SlotType ==
    ASSUME NEW a \in Int, NEW r \in 0 .. DaySlots - 1
    PROVE  SlotOf(a, r) \in Int /\ (a \in Nat => SlotOf(a, r) \in Nat)
<1>1. DaySlots \in Nat \ {0}
  BY PlanBounds
<1>2. a * DaySlots \in Int /\ (a \in Nat => a * DaySlots \in Nat)
  BY <1>1
<1> QED BY <1>1, <1>2 DEF SlotOf

(* The same time of two days is in order as the days are.                   *)
LEMMA SameTime ==
    ASSUME NEW a \in Nat, NEW b \in Nat, NEW r \in 0 .. DaySlots - 1
    PROVE  SlotOf(a, r) < SlotOf(b, r) <=> a < b
<1>1. SlotOf(a, r) \in Int /\ SlotOf(b, r) \in Int
  BY SlotType
<1>2. CASE a < b
  BY <1>2, SlotOrder
<1>3. CASE a = b
  BY <1>1, <1>3
<1>4. CASE b < a
  BY <1>1, <1>4, SlotOrder
<1> QED BY <1>2, <1>3, <1>4

(* A time after u is on the day of u or later; one that is not after u, on  *)
(* that day or earlier.                                                     *)
LEMMA DayAfter ==
    ASSUME NEW u \in Nat, NEW a \in Nat, NEW r \in 0 .. DaySlots - 1
    PROVE  /\ u < SlotOf(a, r) => u \div DaySlots <= a
           /\ ~(u < SlotOf(a, r)) => a <= u \div DaySlots
<1> DEFINE q == u \div DaySlots
           s == u % DaySlots
<1>1. q \in Nat /\ s \in 0 .. DaySlots - 1 /\ u = SlotOf(q, s)
  BY DayOfSlot
<1> HIDE DEF q, s
<1>2. SlotOf(a, r) \in Int /\ SlotOf(q, s) \in Int
  BY <1>1, SlotType
<1>3. a < q => SlotOf(a, r) < SlotOf(q, s)
  BY <1>1, SlotOrder
<1>4. q < a => SlotOf(q, s) < SlotOf(a, r)
  BY <1>1, SlotOrder
<1>5. (u < SlotOf(a, r) => q <= a) /\ (~(u < SlotOf(a, r)) => a <= q)
  BY <1>1, <1>2, <1>3, <1>4
<1> QED BY <1>5 DEF q

-----------------------------------------------------------------------------
(* What is computed for each frequency is the first occurrence after u.     *)
FirstAfter(p, u, n) ==
    n \in Nat /\ n > u /\ OccursAt(p, n) /\ \A v \in u + 1 .. n - 1 : ~OccursAt(p, v)

LEMMA HourIsFirst ==
    ASSUME NEW p \in Plans, p.freq = "hourly", NEW u \in Nat
    PROVE  FirstAfter(p, u, NextHour(u))
<1> DEFINE q == u \div HourSlots
           h == HourSlots
<1>1. h \in Nat \ {0} /\ q \in Nat /\ q * h <= u /\ u < q * h + h
  <2>1. HourSlots \in Nat \ {0}
    BY PlanBounds
  <2>2. /\ u \div HourSlots \in Nat /\ u % HourSlots \in 0 .. HourSlots - 1
        /\ u = (u \div HourSlots) * HourSlots + (u % HourSlots)
    BY <2>1, Division
  <2>3. (u \div HourSlots) * HourSlots \in Int
    BY <2>1, <2>2
  <2> QED BY <2>1, <2>2, <2>3
<1>2. NextHour(u) = q * h + h
  BY DEF NextHour
<1>3. \A v : OccursAt(p, v) <=> v % h = 0
  BY DEF OccursAt
<1> HIDE DEF q, h
<1>4. q * h \in Nat /\ q * h + h = (q + 1) * h + 0 /\ q + 1 \in Nat /\ 0 \in 0 .. h - 1
  BY <1>1
<1>5. ((q + 1) * h + 0) % h = 0
  BY <1>1, <1>4, DivisionIs
<1>6. ASSUME NEW v \in u + 1 .. (q * h + h) - 1, v % h = 0
      PROVE  FALSE
  <2> DEFINE a == v \div h
  <2>1. v \in Nat /\ a \in Nat /\ v = a * h + (v % h)
    BY <1>1, <1>4, Division
  <2> HIDE DEF a
  <2>2. v = a * h /\ a * h \in Int
    BY <1>1, <1>6, <2>1
  <2>3. a * h > q * h /\ a * h < q * h + h
    BY <1>1, <1>4, <2>2
  <2>4. CASE a <= q
    <3>1. a * h <= q * h
      BY <1>1, <2>1, <2>4
    <3> QED BY <1>4, <2>2, <2>3, <3>1
  <2>5. CASE q < a
    <3>1. q * h + h <= a * h
      BY <1>1, <2>1, <2>5, Multiples
    <3> QED BY <1>1, <1>4, <2>2, <2>3, <3>1
  <2> QED BY <1>1, <2>1, <2>4, <2>5
<1> QED BY <1>1, <1>2, <1>3, <1>4, <1>5, <1>6 DEF FirstAfter

LEMMA DayIsFirst ==
    ASSUME NEW p \in Plans, p.freq = "daily", NEW u \in Nat
    PROVE  FirstAfter(p, u, NextDaily(p, u))
<1> DEFINE q == u \div DaySlots
           n == IF SlotOf(q, p.at) <= u THEN q + 1 ELSE q
<1>1. q \in Nat /\ p.at \in 0 .. DaySlots - 1 /\ DaySlots \in Nat \ {0}
  BY PlanBounds, DayOfSlot
<1>2. NextDaily(p, u) = SlotOf(n, p.at)
  <2>1. SlotOf(q, p.at) + DaySlots = SlotOf(q + 1, p.at)
    <3>1. (q + 1) * DaySlots = q * DaySlots + DaySlots /\ q * DaySlots \in Int
      BY <1>1
    <3> QED BY <1>1, <3>1 DEF SlotOf
  <2> QED BY <2>1 DEF NextDaily
<1>3. \A v : OccursAt(p, v) <=> v % DaySlots = p.at
  BY DEF OccursAt
<1>4. n \in Nat /\ SlotOf(n, p.at) \in Nat /\ SlotOf(q, p.at) \in Nat
  <2>1. n \in Nat
    BY <1>1
  <2> HIDE DEF n, q
  <2> QED BY <1>1, <2>1, SlotOfDay
<1>5. OccursAt(p, SlotOf(n, p.at))
  BY <1>1, <1>3, <1>4, SlotOfDay
<1>6. SlotOf(n, p.at) > u
  <2>1. CASE SlotOf(q, p.at) <= u
    <3>1. n = q + 1 /\ n \in Nat
      BY <2>1, <1>1
    <3>2. ~(n <= q)
      BY <1>1, <3>1
    <3> HIDE DEF n
    <3>3. QED BY <1>1, <1>4, <3>1, <3>2, DayAfter DEF q
  <2>2. CASE ~(SlotOf(q, p.at) <= u)
    BY <1>4, <2>2
  <2> QED BY <2>1, <2>2
<1>7. ASSUME NEW v \in u + 1 .. SlotOf(n, p.at) - 1, OccursAt(p, v)
      PROVE  FALSE
  <2> DEFINE a == v \div DaySlots
  <2>1. v \in Nat /\ u < v /\ v < SlotOf(n, p.at)
    BY <1>4
  <2>2. a \in Nat /\ v = SlotOf(a, p.at)
    BY <1>3, <1>7, <2>1, DayOfSlot
  <2>3. q <= a
    BY <1>1, <2>1, <2>2, DayAfter
  <2> HIDE DEF a
  <2>4. a < n
    <3> HIDE DEF n
    <3> QED BY <1>1, <1>4, <2>1, <2>2, SameTime
  <2>5. SlotOf(q, p.at) <= u /\ a = q
    BY <1>1, <2>2, <2>3, <2>4
  <2> QED BY <1>4, <2>1, <2>2, <2>5
<1> QED BY <1>2, <1>4, <1>5, <1>6, <1>7 DEF FirstAfter
(* The week: a day has one remainder, and days with the same remainder are  *)
(* a week apart at least.                                                   *)
LEMMA WeekApart ==
    ASSUME NEW a \in Nat, NEW b \in Nat, a % WeekDays = b % WeekDays, a < b
    PROVE  a + WeekDays <= b
<1> DEFINE w == WeekDays
           x == a \div w
           y == b \div w
           r == a % w
<1>1. /\ w \in Nat \ {0} /\ x \in Nat /\ y \in Nat /\ r \in 0 .. w - 1
      /\ a = x * w + r /\ b = y * w + r
  BY PlanBounds, Division
<1> HIDE DEF w, x, y, r
<1>2. x * w \in Int /\ y * w \in Int
  BY <1>1
<1>3. CASE x < y
  <2>1. x * w + w <= y * w
    BY <1>1, <1>3, Multiples
  <2>2. a + w <= b
    BY <1>1, <1>2, <2>1
  <2> QED BY <2>2 DEF w
<1>4. CASE x = y
  BY <1>1, <1>2, <1>4
<1>5. CASE y < x
  <2>1. y * w + w <= x * w
    BY <1>1, <1>5, Multiples
  <2> QED BY <1>1, <1>2, <2>1
<1> QED BY <1>1, <1>3, <1>4, <1>5

LEMMA WeekFound ==
    ASSUME NEW q \in Nat, NEW day \in 0 .. WeekDays - 1
    PROVE  LET away == day - (q % WeekDays)
               ahead == IF away < 0 THEN away + WeekDays ELSE away
           IN  /\ ahead \in 0 .. WeekDays - 1
               /\ (q + ahead) % WeekDays = day
               /\ (q + ahead + WeekDays) % WeekDays = day
<1> DEFINE w == WeekDays
           x == q \div w
           r == q % w
           away == day - r
           ahead == IF away < 0 THEN away + w ELSE away
<1>1. w \in Nat \ {0} /\ x \in Nat /\ r \in 0 .. w - 1 /\ q = x * w + r
  BY PlanBounds, Division
<1>2. day \in 0 .. w - 1
  OBVIOUS
<1> HIDE DEF w, x, r
<1>3. x * w \in Nat /\ (x + 1) * w = x * w + w /\ (x + 2) * w = x * w + w + w
  BY <1>1
<1>4. ahead \in 0 .. w - 1
  BY <1>1, <1>2
<1>5. \A k \in Nat : (k * w + day) % w = day
  BY <1>1, <1>2, DivisionIs
<1>6. q + ahead = x * w + day \/ q + ahead = (x + 1) * w + day
  BY <1>1, <1>2, <1>3
<1>7. /\ q + ahead = x * w + day => q + ahead + w = (x + 1) * w + day
      /\ q + ahead = (x + 1) * w + day => q + ahead + w = (x + 2) * w + day
  BY <1>1, <1>2, <1>3, <1>4
<1>8. x + 1 \in Nat /\ x + 2 \in Nat
  BY <1>1
<1> HIDE DEF ahead
<1>9. (q + ahead) % w = day
  BY <1>1, <1>5, <1>6, <1>8
<1>10. (q + ahead + w) % w = day
  BY <1>1, <1>5, <1>6, <1>7, <1>8
<1> QED BY <1>4, <1>9, <1>10 DEF ahead, w, r

LEMMA WeekIsFirst ==
    ASSUME NEW p \in Plans, p.freq = "weekly", p.day < WeekDays, NEW u \in Nat
    PROVE  FirstAfter(p, u, NextWeekly(p, u))
<1> DEFINE q == u \div DaySlots
           away == p.day - (q % WeekDays)
           ahead == IF away < 0 THEN away + WeekDays ELSE away
           D == q + ahead
           n == IF SlotOf(D, p.at) <= u THEN D + WeekDays ELSE D
<1>1. /\ q \in Nat /\ p.at \in 0 .. DaySlots - 1 /\ DaySlots \in Nat \ {0}
      /\ WeekDays \in Nat \ {0} /\ p.day \in 0 .. WeekDays - 1
  <2>1. p.day \in Nat /\ WeekDays \in Nat \ {0}
    BY PlanBounds
  <2>2. p.day \in 0 .. WeekDays - 1
    BY <2>1
  <2> QED BY <2>2, PlanBounds, DayOfSlot
<1>2. /\ ahead \in 0 .. WeekDays - 1 /\ (q + ahead) % WeekDays = p.day
      /\ (q + ahead + WeekDays) % WeekDays = p.day
  <2> HIDE DEF q
  <2> QED BY <1>1, WeekFound
<1>3. NextWeekly(p, u) = SlotOf(n, p.at)
  <2>1. NextWeekly(p, u) = IF SlotOf(D, p.at) <= u THEN SlotOf(D, p.at) + WeekDays * DaySlots
                           ELSE SlotOf(D, p.at)
    BY DEF NextWeekly
  <2>2. D \in Nat
    <3> HIDE DEF q, ahead
    <3> QED BY <1>1, <1>2
  <2> HIDE DEF D
  <2>3. SlotOf(D + WeekDays, p.at) = SlotOf(D, p.at) + WeekDays * DaySlots
    <3>1. /\ (D + WeekDays) * DaySlots = D * DaySlots + WeekDays * DaySlots
          /\ D * DaySlots \in Int /\ WeekDays * DaySlots \in Int
      BY <1>1, <2>2
    <3> QED BY <1>1, <3>1 DEF SlotOf
  <2> QED BY <2>1, <2>3
<1>4. \A v : OccursAt(p, v) <=> v % DaySlots = p.at /\ (v \div DaySlots) % WeekDays = p.day
  BY DEF OccursAt
<1> HIDE DEF q, ahead
<1>5. D \in Nat /\ D \in q .. q + WeekDays - 1
  BY <1>1, <1>2
<1>6. D % WeekDays = p.day /\ (D + WeekDays) % WeekDays = p.day
  BY <1>2
<1> HIDE DEF D
<1>7. n \in Nat /\ n % WeekDays = p.day
  BY <1>1, <1>5, <1>6
<1>8. SlotOf(D, p.at) \in Nat
  BY <1>1, <1>5, SlotOfDay
<1>9. \/ SlotOf(D, p.at) <= u /\ n = D + WeekDays
      \/ u < SlotOf(D, p.at) /\ n = D
  BY <1>8
<1> HIDE DEF n
<1>10. SlotOf(n, p.at) \in Nat
  BY <1>1, <1>7, SlotOfDay
<1>11. OccursAt(p, SlotOf(n, p.at))
  BY <1>1, <1>4, <1>7, SlotOfDay
<1>12. SlotOf(n, p.at) > u
  <2>1. CASE SlotOf(D, p.at) <= u /\ n = D + WeekDays
    <3>1. ~(n <= q)
      BY <1>1, <1>5, <2>1
    <3> QED BY <1>1, <1>7, <1>10, <3>1, DayAfter DEF q
  <2>2. CASE u < SlotOf(D, p.at) /\ n = D
    BY <1>8, <2>2
  <2> QED BY <1>9, <2>1, <2>2
<1>13. ASSUME NEW v \in u + 1 .. SlotOf(n, p.at) - 1, OccursAt(p, v)
       PROVE  FALSE
  <2> DEFINE a == v \div DaySlots
  <2>1. v \in Nat /\ u < v /\ v < SlotOf(n, p.at)
    BY <1>10
  <2>2. a \in Nat /\ v = SlotOf(a, p.at) /\ a % WeekDays = p.day
    BY <1>4, <1>13, <2>1, DayOfSlot
  <2> HIDE DEF a
  <2>3. q <= a
    BY <1>1, <2>1, <2>2, DayAfter DEF q
  <2>4. a < n
    BY <1>1, <1>7, <2>1, <2>2, SameTime
  <2>5. a + WeekDays <= n
    BY <1>7, <2>2, <2>4, WeekApart
  <2>6. CASE SlotOf(D, p.at) <= u /\ n = D + WeekDays
    <3>1. SlotOf(D, p.at) < SlotOf(a, p.at)
      BY <1>8, <2>1, <2>2, <2>6
    <3>2. D < a
      BY <1>1, <1>5, <2>2, <3>1, SameTime
    <3> QED BY <1>1, <1>5, <2>2, <2>5, <2>6, <3>2
  <2>7. CASE u < SlotOf(D, p.at) /\ n = D
    BY <1>1, <1>5, <2>2, <2>3, <2>5, <2>7
  <2> QED BY <1>9, <2>6, <2>7
<1> QED BY <1>3, <1>10, <1>11, <1>12, <1>13 DEF FirstAfter

LEMMA MonthIsFirst ==
    ASSUME NEW p \in Plans, p.freq = "monthly",
           \A i \in DOMAIN Months : p.day <= Months[i], NEW u \in Nat
    PROVE  FirstAfter(p, u, NextMonthly(p, u))
<1> DEFINE q == u \div DaySlots
           M == MonthAt(u)
           D(m) == MonthStart(m) + p.day - 1
           n == IF SlotOf(D(M), p.at) <= u THEN M + 1 ELSE M
<1>1. /\ q \in Nat /\ p.at \in 0 .. DaySlots - 1 /\ DaySlots \in Nat \ {0}
      /\ p.day \in Nat \ {0}
  BY PlanBounds, DayOfSlot
<1>2. \A m \in Nat : p.day <= MonthLength(m) /\ MonthLength(m) \in Nat
  <2> TAKE m \in Nat
  <2>1. Months \in Seq(Nat \ {0}) /\ Len(Months) \in Nat \ {0}
    BY PlanAssumption
  <2>2. m % Len(Months) \in 0 .. Len(Months) - 1
    BY <2>1, Division
  <2>3. 1 + (m % Len(Months)) \in DOMAIN Months
    BY <2>1, <2>2
  <2> QED BY <2>3, MonthLengthType DEF MonthLength
<1>3. /\ M \in Nat /\ MonthStart(M) <= q /\ q < MonthStart(M) + MonthLength(M)
  BY MonthOfDay
<1>4. DayTried(p, u) = p.day
  BY <1>1, <1>2, <1>3 DEF DayTried, Earlier
<1>5. NextMonthly(p, u) = SlotOf(D(n), p.at)
  BY <1>4 DEF NextMonthly, TriedMonthly
<1>6. \A v : OccursAt(p, v) <=> v % DaySlots = p.at /\ DayOfMonth(v) = p.day
  BY DEF OccursAt
<1> HIDE DEF q, M
<1>7. ASSUME NEW m \in Nat
      PROVE  /\ D(m) \in Nat /\ MonthStart(m) \in Nat
             /\ MonthStart(m) <= D(m) /\ D(m) < MonthStart(m) + MonthLength(m)
  BY <1>1, <1>2, MonthStartType
<1>8. ASSUME NEW m \in Nat
      PROVE  SlotOf(D(m), p.at) \in Nat /\ OccursAt(p, SlotOf(D(m), p.at))
  <2> DEFINE d == D(m)
             v == SlotOf(d, p.at)
  <2>1. d \in Nat /\ MonthStart(m) <= d /\ d < MonthStart(m) + MonthLength(m)
    BY <1>7
  <2>2. d = MonthStart(m) + p.day - 1 /\ MonthStart(m) \in Nat
    BY <1>7
  <2> HIDE DEF d
  <2>3. v \in Nat /\ v \div DaySlots = d /\ v % DaySlots = p.at
    BY <1>1, <2>1, SlotOfDay
  <2> HIDE DEF v
  <2>4. MonthAt(v) = m
    BY <2>1, <2>3, MonthIs
  <2>5. DayOfMonth(v) = p.day
    BY <1>1, <2>2, <2>3, <2>4 DEF DayOfMonth
  <2>6. v \in Nat /\ OccursAt(p, v)
    BY <1>6, <2>3, <2>5
  <2> QED BY <2>6 DEF v, d
<1>9. n \in Nat
  BY <1>3
<1>10. \/ SlotOf(D(M), p.at) <= u /\ n = M + 1
       \/ u < SlotOf(D(M), p.at) /\ n = M
  BY <1>3, <1>8
<1> HIDE DEF n, D
<1>11. SlotOf(D(n), p.at) > u
  <2>1. CASE n = M + 1
    <3>1. MonthStart(n) = MonthStart(M) + MonthLength(M) /\ MonthStart(n) <= D(n)
      BY <1>3, <1>7, <1>9, <2>1, MonthStartType
    <3>2. D(n) \in Nat /\ MonthStart(M) \in Nat /\ MonthLength(M) \in Nat
      BY <1>2, <1>3, <1>7, <1>9
    <3>3. ~(D(n) <= q)
      BY <1>1, <1>3, <3>1, <3>2
    <3> QED BY <1>1, <1>8, <1>9, <3>2, <3>3, DayAfter DEF q
  <2>2. CASE u < SlotOf(D(M), p.at) /\ n = M
    BY <1>3, <1>8, <2>2
  <2> QED BY <1>10, <2>1, <2>2
<1>12. ASSUME NEW v \in u + 1 .. SlotOf(D(n), p.at) - 1, OccursAt(p, v)
       PROVE  FALSE
  <2> DEFINE a == v \div DaySlots
             m == MonthAt(v)
  <2>1. v \in Nat /\ u < v /\ v < SlotOf(D(n), p.at)
    BY <1>8, <1>9
  <2>2. /\ a \in Nat /\ v = SlotOf(a, p.at) /\ m \in Nat
        /\ a = D(m)
    <3>1. v % DaySlots = p.at /\ DayOfMonth(v) = p.day
      BY <1>6, <1>12
    <3>2. a \in Nat /\ v = SlotOf(a, p.at) /\ m \in Nat
      BY <2>1, <3>1, DayOfSlot, MonthOfDay
    <3>3. 1 + a - MonthStart(m) = p.day
      BY <3>1 DEF DayOfMonth
    <3> HIDE DEF a, m
    <3>4. MonthStart(m) \in Nat
      BY <3>2, MonthStartType
    <3>5. a = D(m)
      BY <1>1, <3>2, <3>3, <3>4 DEF D
    <3> QED BY <3>2, <3>5
  <2> HIDE DEF a, m
  <2>3. q <= a
    BY <1>1, <2>1, <2>2, DayAfter DEF q
  <2>4. D(n) \in Nat /\ D(M) \in Nat /\ D(m) \in Nat
    BY <1>3, <1>7, <1>9, <2>2
  <2>5. D(m) < D(n)
    BY <1>1, <2>1, <2>2, <2>4, SameTime
  <2>6. ASSUME NEW x \in Nat, NEW y \in Nat, D(x) < D(y)
        PROVE  x < y
    <3>1. /\ D(x) \in Nat /\ D(y) \in Nat
          /\ MonthStart(x) \in Nat /\ MonthStart(x) <= D(x)
          /\ MonthStart(y) \in Nat /\ D(y) < MonthStart(y) + MonthLength(y)
          /\ MonthLength(y) \in Nat
      BY <1>2, <1>7
    <3>2. x # y
      BY <2>6, <3>1
    <3>3. ~(y < x)
      <4> SUFFICES ASSUME y < x PROVE FALSE
        OBVIOUS
      <4>1. MonthStart(y) + MonthLength(y) <= MonthStart(x)
        BY MonthStartOrder
      <4> QED BY <2>6, <3>1, <4>1
    <3> QED BY <3>2, <3>3
  <2>7. m < n
    BY <1>9, <2>2, <2>5, <2>6
  <2>8. CASE SlotOf(D(M), p.at) <= u /\ n = M + 1
    <3>1. SlotOf(D(M), p.at) < SlotOf(D(m), p.at)
      BY <1>3, <1>8, <2>1, <2>2, <2>8
    <3>2. D(M) < D(m)
      BY <1>1, <2>4, <3>1, SameTime
    <3>3. M < m
      BY <1>3, <2>2, <2>6, <3>2
    <3> QED BY <1>3, <2>2, <2>7, <2>8, <3>3
  <2>9. CASE u < SlotOf(D(M), p.at) /\ n = M
    <3>1. MonthStart(m) + MonthLength(m) <= MonthStart(M)
      BY <1>3, <2>2, <2>7, <2>9, MonthStartOrder
    <3>2. /\ D(m) < MonthStart(m) + MonthLength(m) /\ MonthStart(M) \in Nat
          /\ MonthStart(m) \in Nat /\ MonthLength(m) \in Nat
      BY <1>2, <1>3, <1>7, <2>2
    <3> QED BY <1>1, <1>3, <2>2, <2>3, <3>1, <3>2
  <2> QED BY <1>10, <2>8, <2>9
<1> QED BY <1>5, <1>8, <1>9, <1>11, <1>12 DEF FirstAfter
-----------------------------------------------------------------------------
(* The tasks.                                                               *)
TaskGood(k) ==
    k.plan # NoPlan =>
        IF k.plan.freq = "once" THEN k.ran => k.next = Never
        ELSE Regular(k.plan) => FirstAfter(k.plan, k.asked, k.next)

Planned(k) == k.plan \in Plans

LEMMA PlansAreNot == NoPlan \notin Plans
<1>1. NoPlan.freq = "none"
  BY DEF NoPlan
<1>2. \A p \in Plans : p.freq # "none"
  BY PlanBounds
<1> QED BY <1>1, <1>2

LEMMA NextRunType ==
    ASSUME slot \in Nat, NEW k \in TaskState, Planned(k)
    PROVE  NextRun(k) \in Nat \cup {Never}
<1> DEFINE p == k.plan
<1>1. p \in Plans /\ k.next \in Nat \cup {Never}
  BY DEF Planned, TaskState
<1>2. CASE p.freq = "once"
  BY <1>1, <1>2 DEF NextRun
<1>3. CASE p.freq = "hourly"
  <2>1. NextHour(slot) \in Nat
    BY <1>1, <1>3, HourIsFirst DEF FirstAfter
  <2> QED BY <1>3, <2>1 DEF NextRun
<1>4. CASE p.freq = "daily"
  <2>1. NextDaily(p, slot) \in Nat
    BY <1>1, <1>4, DayIsFirst DEF FirstAfter
  <2> QED BY <1>4, <2>1 DEF NextRun
<1>5. CASE p.freq = "weekly"
  <2> DEFINE q == slot \div DaySlots
             away == p.day - (q % WeekDays)
             ahead == IF away < 0 THEN away + WeekDays ELSE away
             found == SlotOf(q + ahead, p.at)
  <2>1. /\ q \in Nat /\ q % WeekDays \in 0 .. WeekDays - 1 /\ p.day \in Nat
        /\ p.at \in 0 .. DaySlots - 1
        /\ WeekDays \in Nat \ {0} /\ DaySlots \in Nat \ {0}
    BY <1>1, PlanBounds, Division
  <2>2. ahead \in Nat
    <3> DEFINE r == q % WeekDays
    <3> HIDE DEF r
    <3> QED BY <2>1 DEF r
  <2> HIDE DEF ahead
  <2>3. q + ahead \in Nat
    BY <2>1, <2>2
  <2>4. found \in Nat /\ WeekDays * DaySlots \in Nat
    BY <2>1, <2>3, SlotOfDay
  <2>5. NextWeekly(p, slot) = IF found <= slot THEN found + WeekDays * DaySlots ELSE found
    BY DEF NextWeekly, ahead
  <2> HIDE DEF found
  <2>6. NextWeekly(p, slot) \in Nat
    BY <2>4, <2>5
  <2> QED BY <1>5, <2>6 DEF NextRun
<1>6. CASE p.freq = "monthly"
  <2> DEFINE M == MonthAt(slot)
             D == DayTried(p, slot)
             here == MonthStart(M) + D - 1
             there == MonthStart(M + 1) + D - 1
  <2>1. /\ M \in Nat /\ p.day \in Nat \ {0} /\ p.at \in 0 .. DaySlots - 1
        /\ MonthStart(M) \in Nat /\ MonthStart(M + 1) \in Nat
        /\ MonthLength(M) \in Nat \ {0}
    <3>1. MonthAt(slot) \in Nat
      BY MonthOfDay
    <3>2. MonthAt(slot) + 1 \in Nat
      BY <3>1
    <3> QED BY <1>1, <1>6, <3>1, <3>2, PlanBounds, MonthStartType, MonthLengthType
  <2>2. D \in Nat \ {0}
    BY <2>1 DEF DayTried, Earlier
  <2>3. NextMonthly(p, slot) = SlotOf(here, p.at) \/ NextMonthly(p, slot) = SlotOf(there, p.at)
    BY DEF NextMonthly, TriedMonthly
  <2> HIDE DEF M, D
  <2>4. here \in Nat /\ there \in Nat
    BY <2>1, <2>2
  <2> HIDE DEF here, there
  <2>5. SlotOf(here, p.at) \in Nat /\ SlotOf(there, p.at) \in Nat
    BY <2>1, <2>4, SlotOfDay
  <2>6. NextMonthly(p, slot) \in Nat
    BY <2>3, <2>5
  <2> QED BY <1>6, <2>6 DEF NextRun
<1> QED BY <1>1, <1>2, <1>3, <1>4, <1>5, <1>6, PlanBounds

(* A task whose next run was just computed.                                 *)
LEMMA RescheduledGood ==
    ASSUME slot \in Nat, NEW k \in TaskState, Planned(k)
    PROVE  /\ Rescheduled(k) \in TaskState /\ Planned(Rescheduled(k))
           /\ TaskGood(Rescheduled(k))
<1> DEFINE r == Rescheduled(k)
           p == k.plan
           asked == IF p.freq = "once" THEN 0 ELSE slot
           next == NextRun(k)
<1>1. r = [k EXCEPT !.next = next, !.asked = asked]
  BY DEF Rescheduled
<1>2. next \in Nat \cup {Never} /\ asked \in Nat /\ p \in Plans
  BY NextRunType DEF Planned
<1>3. /\ r.plan = p /\ r.next = next /\ r.asked = asked /\ r.ran = k.ran
      /\ r \in TaskState
  <2> HIDE DEF next, asked
  <2> QED BY <1>1, <1>2 DEF TaskState
<1> HIDE DEF r
<1>4. CASE p.freq = "once"
  <2>1. k.ran => next = Never
    BY <1>4 DEF NextRun
  <2> QED BY <1>2, <1>3, <1>4, <2>1 DEF TaskGood, Planned, r
<1>5. CASE p.freq # "once"
  <2>1. ASSUME Regular(p)
        PROVE  FirstAfter(p, slot, next)
    <3>1. CASE p.freq = "hourly"
      BY <1>2, <3>1, HourIsFirst DEF NextRun
    <3>2. CASE p.freq = "daily"
      BY <1>2, <3>2, DayIsFirst DEF NextRun
    <3>3. CASE p.freq = "weekly"
      <4>1. p.day < WeekDays
        BY <2>1, <3>3 DEF Regular
      <4>2. FirstAfter(p, slot, NextWeekly(p, slot))
        BY <1>2, <3>3, <4>1, WeekIsFirst
      <4>3. next = NextWeekly(p, slot)
        BY <3>3 DEF NextRun
      <4> QED BY <4>2, <4>3
    <3>4. CASE p.freq = "monthly"
      <4>1. \A i \in DOMAIN Months : p.day <= Months[i]
        BY <2>1, <3>4 DEF Regular
      <4>2. FirstAfter(p, slot, NextMonthly(p, slot))
        BY <1>2, <3>4, <4>1, MonthIsFirst
      <4>3. next = NextMonthly(p, slot)
        BY <3>4 DEF NextRun
      <4> QED BY <4>2, <4>3
    <3> QED BY <1>2, <1>5, <3>1, <3>2, <3>3, <3>4, PlanBounds
  <2>2. r.asked = slot
    BY <1>3, <1>5
  <2> HIDE DEF next, asked
  <2>3. Regular(r.plan) => FirstAfter(r.plan, r.asked, r.next)
    BY <1>3, <2>1, <2>2
  <2>4. TaskGood(r)
    BY <1>3, <1>5, <2>3 DEF TaskGood
  <2> QED BY <1>2, <1>3, <2>4 DEF Planned, r
<1> QED BY <1>4, <1>5

-----------------------------------------------------------------------------
SchedInv ==
    /\ SchedTypeOK
    /\ \A t \in Tasks : TaskGood(tasks[t]) /\ (Listed(t) => Planned(tasks[t]))
    /\ \A r \in Runners : jobs[r] # NoJob => Planned(tasks[jobs[r]])

(* A step that changes one task, and lists it or not.                       *)
LEMMA TaskStep ==
    ASSUME SchedInv, NEW t \in Tasks, NEW k \in TaskState, TaskGood(k),
           Planned(tasks[t]) => Planned(k), tasks' = [tasks EXCEPT ![t] = k]
    PROVE  /\ tasks' \in [Tasks -> TaskState]
           /\ \A s \in Tasks : /\ TaskGood(tasks'[s])
                               /\ Planned(tasks[s]) => Planned(tasks'[s])
<1>1. tasks \in [Tasks -> TaskState]
  BY DEF SchedInv, SchedTypeOK
<1>2. tasks'[t] = k /\ \A s \in Tasks \ {t} : tasks'[s] = tasks[s]
  BY <1>1
<1>3. tasks' \in [Tasks -> TaskState]
  BY <1>1
<1> QED BY <1>2, <1>3, Zenon DEF SchedInv

(* What is planned stays so when the list and the runners at most lose some.*)
LEMMA JobsOf ==
    ASSUME SchedInv, NEW r \in Runners, jobs[r] # NoJob
    PROVE  /\ jobs[r] \in Tasks /\ tasks[jobs[r]] \in TaskState
           /\ Planned(tasks[jobs[r]]) /\ TaskGood(tasks[jobs[r]])
BY DEF SchedInv, SchedTypeOK

LEMMA AddKeeps ==
    ASSUME SchedInv, NEW t \in Tasks, NEW p \in Plans, AddTask(t, p)
    PROVE  SchedInv'
<1> DEFINE k == [tasks[t] EXCEPT !.plan = p, !.enabled = TRUE]
<1>1. /\ slot \in Nat /\ tasks \in [Tasks -> TaskState] /\ table \in Seq(Tasks \cup {Gone})
      /\ calls \in Nat
  BY DEF SchedInv, SchedTypeOK
<1>2. k \in TaskState /\ Planned(k)
  <2>1. tasks[t] \in TaskState
    BY <1>1
  <2> QED BY <2>1 DEF TaskState, Planned
<1>3. /\ tasks' = [tasks EXCEPT ![t] = Rescheduled(k)] /\ table' = Append(table, t)
      /\ UNCHANGED <<slot, walk, jobs>> /\ calls' = calls + 1
  BY DEF AddTask, IsCall
<1> HIDE DEF k
<1>4. /\ Rescheduled(k) \in TaskState /\ Planned(Rescheduled(k)) /\ TaskGood(Rescheduled(k))
  BY <1>1, <1>2, RescheduledGood
<1>5. /\ tasks' \in [Tasks -> TaskState]
      /\ \A s \in Tasks : TaskGood(tasks'[s]) /\ (Planned(tasks[s]) => Planned(tasks'[s]))
  BY <1>3, <1>4, TaskStep
<1>6. Planned(tasks'[t])
  BY <1>1, <1>3, <1>4
<1>7. ASSUME NEW s \in Tasks, Listed(s)'
      PROVE  Planned(tasks'[s])
  <2>1. PICK i \in DOMAIN table' : table'[i] = s
    BY <1>7 DEF Listed
  <2>2. (i \in DOMAIN table /\ table'[i] = table[i]) \/ table'[i] = t
    BY <1>1, <1>3, <2>1
  <2>3. Listed(s) \/ s = t
    BY <2>1, <2>2 DEF Listed
  <2> QED BY <1>5, <1>6, <2>3 DEF SchedInv
<1>8. \A r \in Runners : jobs'[r] # NoJob => Planned(tasks'[jobs'[r]])
  BY <1>3, <1>5, JobsOf
<1>9. SchedTypeOK'
  <2>1. table' \in Seq(Tasks \cup {Gone})
    BY <1>1, <1>3
  <2> QED BY <1>1, <1>3, <1>5, <2>1 DEF SchedInv, SchedTypeOK
<1> QED BY <1>5, <1>7, <1>8, <1>9 DEF SchedInv, TaskGood, Planned
(* A step of the tasks that leaves the list and the runners.                *)
LEMMA TasksKeep ==
    ASSUME SchedInv, NEW t \in Tasks, NEW k \in TaskState, TaskGood(k),
           Planned(tasks[t]) => Planned(k), tasks' = [tasks EXCEPT ![t] = k],
           UNCHANGED <<slot, table>>, calls' \in Nat,
           walk' \in [stage : {"off", "wake", "scan"}, now : Nat, pos : Nat,
                      left : Int, size : Nat],
           jobs' \in [Runners -> Tasks \cup {NoJob}],
           \A r \in Runners : jobs'[r] \in {jobs[r], NoJob}
    PROVE  SchedInv'
<1>1. /\ tasks' \in [Tasks -> TaskState]
      /\ \A s \in Tasks : TaskGood(tasks'[s]) /\ (Planned(tasks[s]) => Planned(tasks'[s]))
  BY TaskStep
<1>2. \A s \in Tasks : Listed(s)' => Listed(s)
  BY DEF Listed
<1>3. \A s \in Tasks : Listed(s)' => Planned(tasks'[s])
  BY <1>1, <1>2 DEF SchedInv
<1>4. \A r \in Runners : jobs'[r] # NoJob => Planned(tasks'[jobs'[r]])
  BY <1>1, JobsOf
<1>5. SchedTypeOK'
  BY <1>1 DEF SchedInv, SchedTypeOK
<1> QED BY <1>1, <1>3, <1>4, <1>5 DEF SchedInv, TaskGood, Planned

LEMMA WalkType ==
    SchedInv => /\ walk \in [stage : {"off", "wake", "scan"}, now : Nat, pos : Nat,
                             left : Int, size : Nat]
                /\ jobs \in [Runners -> Tasks \cup {NoJob}]
                /\ tasks \in [Tasks -> TaskState] /\ slot \in Nat /\ calls \in Nat
                /\ table \in Seq(Tasks \cup {Gone})
BY DEF SchedInv, SchedTypeOK

LEMMA EnableKeeps ==
    ASSUME SchedInv, NEW t \in Tasks, EnableTask(t) \/ DisableTask(t)
    PROVE  SchedInv'
<1>1. tasks[t] \in TaskState /\ TaskGood(tasks[t]) /\ Planned(tasks[t])
  BY WalkType DEF SchedInv, EnableTask, DisableTask
<1>2. UNCHANGED <<slot, table, walk, jobs>> /\ calls' = calls + 1
  BY DEF EnableTask, DisableTask, IsCall
<1>3. ASSUME NEW e \in BOOLEAN
      PROVE  /\ [tasks[t] EXCEPT !.enabled = e] \in TaskState
             /\ TaskGood([tasks[t] EXCEPT !.enabled = e])
             /\ Planned([tasks[t] EXCEPT !.enabled = e])
  <2> DEFINE k == [tasks[t] EXCEPT !.enabled = e]
  <2>1. /\ k \in TaskState /\ k.plan = tasks[t].plan /\ k.next = tasks[t].next
        /\ k.asked = tasks[t].asked /\ k.ran = tasks[t].ran
    BY <1>1 DEF TaskState
  <2> HIDE DEF k
  <2>2. k \in TaskState /\ TaskGood(k) /\ Planned(k)
    BY <1>1, <2>1 DEF TaskGood, Planned
  <2> QED BY <2>2 DEF k
<1>4. PICK k \in TaskState : /\ TaskGood(k) /\ Planned(k)
                             /\ tasks' = [tasks EXCEPT ![t] = k]
  <2>1. CASE DisableTask(t)
    <3>1. tasks' = [tasks EXCEPT ![t] = [tasks[t] EXCEPT !.enabled = FALSE]]
      BY <2>1 DEF DisableTask
    <3> QED BY <1>3, <3>1
  <2>2. CASE EnableTask(t) /\ Computes(tasks[t].plan)
    <3> DEFINE k == [tasks[t] EXCEPT !.enabled = TRUE]
    <3>1. tasks' = [tasks EXCEPT ![t] = Rescheduled(k)]
      BY <2>2 DEF EnableTask
    <3>2. k \in TaskState /\ Planned(k)
      BY <1>3
    <3> HIDE DEF k
    <3>3. Rescheduled(k) \in TaskState /\ Planned(Rescheduled(k)) /\ TaskGood(Rescheduled(k))
      BY <3>2, WalkType, RescheduledGood
    <3> QED BY <3>1, <3>3
  <2>3. CASE EnableTask(t) /\ ~Computes(tasks[t].plan)
    <3>1. tasks' = [tasks EXCEPT ![t] = [tasks[t] EXCEPT !.enabled = TRUE]]
      BY <2>3 DEF EnableTask
    <3> QED BY <1>3, <3>1
  <2> QED BY <2>1, <2>2, <2>3
<1>5. calls' \in Nat /\ \A r \in Runners : jobs'[r] \in {jobs[r], NoJob}
  BY <1>2, WalkType
<1> QED BY <1>2, <1>4, <1>5, WalkType, TasksKeep

LEMMA EndsKeep ==
    ASSUME SchedInv, NEW r \in Runners, TaskSucceeds(r) \/ TaskFails(r) \/ TaskRaises(r)
    PROVE  SchedInv'
<1> DEFINE t == jobs[r]
<1>1. /\ t # NoJob /\ jobs' = [jobs EXCEPT ![r] = NoJob]
      /\ UNCHANGED <<slot, table, calls>>
      /\ walk' = walk \/ walk' = [walk EXCEPT !.stage = "wake"]
  BY DEF TaskSucceeds, TaskFails, TaskRaises
<1>2. t \in Tasks /\ tasks[t] \in TaskState /\ Planned(tasks[t]) /\ TaskGood(tasks[t])
  BY <1>1, JobsOf
<1>3. ASSUME NEW ran \in BOOLEAN
      PROVE  /\ [tasks[t] EXCEPT !.ran = ran] \in TaskState
             /\ Planned([tasks[t] EXCEPT !.ran = ran])
             /\ tasks[t].plan.freq # "once" => TaskGood([tasks[t] EXCEPT !.ran = ran])
  <2> DEFINE k == [tasks[t] EXCEPT !.ran = ran]
  <2> HIDE DEF t
  <2>1. /\ k \in TaskState /\ k.plan = tasks[t].plan /\ k.next = tasks[t].next
        /\ k.asked = tasks[t].asked
    BY <1>2 DEF TaskState
  <2> HIDE DEF k
  <2>2. /\ k \in TaskState /\ Planned(k)
        /\ tasks[t].plan.freq # "once" => TaskGood(k)
    BY <1>2, <2>1 DEF TaskGood, Planned
  <2> QED BY <2>2 DEF k
<1>4. PICK k \in TaskState : /\ TaskGood(k) /\ Planned(k)
                             /\ tasks' = [tasks EXCEPT ![t] = k]
  <2>1. CASE TaskSucceeds(r)
    <3> DEFINE k == [tasks[t] EXCEPT !.ran = TRUE]
    <3>1. tasks' = [tasks EXCEPT ![t] = Rescheduled(k)]
      BY <2>1 DEF TaskSucceeds
    <3>2. k \in TaskState /\ Planned(k)
      BY <1>3
    <3> HIDE DEF k
    <3>3. Rescheduled(k) \in TaskState /\ Planned(Rescheduled(k)) /\ TaskGood(Rescheduled(k))
      BY <3>2, WalkType, RescheduledGood
    <3> QED BY <3>1, <3>3
  <2>2. CASE TaskFails(r)
    <3>1. tasks' = [tasks EXCEPT ![t] = Rescheduled(tasks[t])]
      BY <2>2 DEF TaskFails
    <3>2. /\ Rescheduled(tasks[t]) \in TaskState /\ Planned(Rescheduled(tasks[t]))
          /\ TaskGood(Rescheduled(tasks[t]))
      <4> HIDE DEF t
      <4> QED BY <1>2, WalkType, RescheduledGood
    <3> QED BY <3>1, <3>2
  <2>3. CASE TaskRaises(r)
    <3>1. ~Computes(tasks[t].plan)
          /\ \E ran \in {tasks[t].ran, TRUE} : tasks' = [tasks EXCEPT ![t].ran = ran]
      BY <2>3 DEF TaskRaises
    <3>2. tasks[t].plan.freq # "once" /\ tasks[t].ran \in BOOLEAN
      BY <1>2, <3>1 DEF Computes, TaskState
    <3>3. PICK ran \in BOOLEAN : tasks' = [tasks EXCEPT ![t] = [tasks[t] EXCEPT !.ran = ran]]
      BY <3>1, <3>2
    <3> QED BY <1>3, <3>2, <3>3
  <2> QED BY <2>1, <2>2, <2>3
<1>5. jobs' \in [Runners -> Tasks \cup {NoJob}] /\ \A q \in Runners : jobs'[q] \in {jobs[q], NoJob}
  BY <1>1, WalkType
<1>6. walk' \in [stage : {"off", "wake", "scan"}, now : Nat, pos : Nat, left : Int, size : Nat]
  BY <1>1, WalkType
<1>7. calls' \in Nat
  BY <1>1, WalkType
<1> HIDE DEF t
<1> QED BY <1>1, <1>2, <1>4, <1>5, <1>6, <1>7, TasksKeep

(* Steps that leave the tasks.                                              *)
LEMMA OthersKeep ==
    ASSUME SchedInv, UNCHANGED tasks, SchedTypeOK',
           \A t \in Tasks : Listed(t)' => Listed(t),
           \A r \in Runners : jobs'[r] \in {jobs[r], NoJob} \/ Planned(tasks[jobs'[r]])
    PROVE  SchedInv'
<1>1. \A t \in Tasks : TaskGood(tasks[t])' /\ (Listed(t)' => Planned(tasks[t])')
  BY DEF SchedInv, TaskGood, Planned
<1>2. \A r \in Runners : jobs'[r] # NoJob => Planned(tasks[jobs'[r]])
  BY DEF SchedInv
<1> QED BY <1>1, <1>2 DEF SchedInv, Planned

LEMMA TableSizeType == SchedInv => TableSize \in Nat
<1> SUFFICES ASSUME SchedInv PROVE TableSize \in Nat
  OBVIOUS
<1>1. IsFiniteSet(1 .. Len(table)) /\ DOMAIN table = 1 .. Len(table)
  BY WalkType, FS_Interval
<1>2. IsFiniteSet({i \in DOMAIN table : table[i] # Gone})
  BY <1>1, FS_Subset
<1> QED BY <1>2, FS_CardinalityType DEF TableSize

LEMMA RemoveKeeps ==
    ASSUME SchedInv, NEW t \in Tasks, RemoveTask(t)
    PROVE  SchedInv'
<1>1. /\ table' = [i \in DOMAIN table |-> IF table[i] = t THEN Gone ELSE table[i]]
      /\ UNCHANGED <<slot, tasks, walk, jobs>> /\ calls' = calls + 1
  BY DEF RemoveTask, IsCall
<1>2. table' \in Seq(Tasks \cup {Gone})
  <2>1. table \in Seq(Tasks \cup {Gone})
    BY WalkType
  <2> DEFINE f == [i \in 1 .. Len(table) |-> IF table[i] = t THEN Gone ELSE table[i]]
  <2>2. f \in [1 .. Len(table) -> Tasks \cup {Gone}] /\ Len(table) \in Nat /\ table' = f
    BY <1>1, <2>1
  <2> QED BY <2>2, SeqDef
<1>3. SchedTypeOK'
  BY <1>1, <1>2, WalkType DEF SchedTypeOK
<1>4. \A s \in Tasks : Listed(s)' => Listed(s)
  <2>1. Gone \notin Tasks
    BY PlanAssumption
  <2> QED BY <1>1, <2>1 DEF Listed
<1> QED BY <1>1, <1>3, <1>4, OthersKeep
(* The loop.                                                                *)
LEMMA LoopKeeps ==
    ASSUME SchedInv, StartLoop \/ StopLoop \/ TimePasses \/ LoopWakes \/ ScanEnds
    PROVE  SchedInv'
<1>1. UNCHANGED <<tasks, table>>
  BY DEF StartLoop, StopLoop, TimePasses, LoopWakes, ScanEnds
<1>2. slot' \in Nat /\ calls' \in Nat
  BY WalkType DEF StartLoop, StopLoop, TimePasses, LoopWakes, ScanEnds, IsCall
<1>3. walk' \in [stage : {"off", "wake", "scan"}, now : Nat, pos : Nat, left : Int, size : Nat]
  <2>1. CASE StartLoop
    BY <2>1, WalkType DEF StartLoop
  <2>2. CASE StopLoop
    BY <2>2 DEF StopLoop, LoopOff
  <2>3. CASE TimePasses
    BY <2>3, WalkType DEF TimePasses
  <2>4. CASE LoopWakes
    BY <2>4, WalkType, TableSizeType DEF LoopWakes
  <2>5. CASE ScanEnds
    BY <2>5, WalkType DEF ScanEnds
  <2> QED BY <2>1, <2>2, <2>3, <2>4, <2>5
<1>4. jobs' = jobs \/ jobs' = [jobs EXCEPT ![Loop] = NoJob]
  BY DEF StartLoop, StopLoop, TimePasses, LoopWakes, ScanEnds
<1>5. /\ jobs' \in [Runners -> Tasks \cup {NoJob}]
      /\ \A r \in Runners : jobs'[r] \in {jobs[r], NoJob}
  BY <1>4, WalkType
<1>6. SchedTypeOK'
  BY <1>1, <1>2, <1>3, <1>5, WalkType DEF SchedTypeOK
<1>7. \A t \in Tasks : Listed(t)' => Listed(t)
  BY <1>1 DEF Listed
<1> QED BY <1>1, <1>5, <1>6, <1>7, OthersKeep

(* The loop takes the first due entry, which names a task.                  *)
LEMMA TakesKeep ==
    ASSUME SchedInv, ScanTakes
    PROVE  SchedInv'
<1> DEFINE i == Min(DueAhead)
           passed == Cardinality({j \in walk.pos + 1 .. i : table[j] # Gone})
<1>1. /\ UNCHANGED <<slot, table, tasks, calls>> /\ DueAhead # {}
      /\ walk' = [walk EXCEPT !.pos = i, !.left = @ - passed]
      /\ jobs' = [jobs EXCEPT ![Loop] = table[i]]
  BY DEF ScanTakes, Begins
<1>2. i \in DueAhead
  <2>1. DueAhead \in SUBSET Nat
    BY WalkType DEF DueAhead, Ahead
  <2>2. \E x \in DueAhead : \A y \in DueAhead : x <= y
    BY <1>1, <2>1, SmallestOf
  <2> HIDE DEF i
  <2>3. Min(DueAhead) \in DueAhead
    BY <2>2 DEF Min
  <2> QED BY <2>3 DEF i
<1> HIDE DEF i
<1>3. i \in 1 .. Len(table) /\ table[i] \in Tasks
  BY <1>2, WalkType DEF DueAhead, Ahead
<1>4. passed \in Nat
  <2>1. walk.pos \in Nat /\ i \in Nat
    BY <1>3, WalkType
  <2>2. IsFiniteSet(walk.pos + 1 .. i)
    BY <2>1, FS_Interval
  <2>3. IsFiniteSet({j \in walk.pos + 1 .. i : table[j] # Gone})
    BY <2>2, FS_Subset
  <2> QED BY <2>3, FS_CardinalityType
<1> HIDE DEF passed
<1>5. walk' \in [stage : {"off", "wake", "scan"}, now : Nat, pos : Nat, left : Int, size : Nat]
  <2>1. walk.left - passed \in Int /\ i \in Nat
    BY <1>3, <1>4, WalkType
  <2> QED BY <1>1, <2>1, WalkType
<1>6. jobs' \in [Runners -> Tasks \cup {NoJob}] /\ \A r \in Runners : jobs'[r] \in {jobs[r], table[i]}
  BY <1>1, <1>3, WalkType
<1>7. Planned(tasks[table[i]])
  BY <1>3, WalkType DEF SchedInv, Listed
<1>8. SchedTypeOK'
  BY <1>1, <1>5, <1>6, WalkType DEF SchedTypeOK
<1>9. \A t \in Tasks : Listed(t)' => Listed(t)
  BY <1>1 DEF Listed
<1>10. \A r \in Runners : jobs'[r] \in {jobs[r], NoJob} \/ Planned(tasks[jobs'[r]])
  BY <1>6, <1>7
<1> QED BY <1>1, <1>8, <1>9, <1>10, OthersKeep

LEMMA RunNowKeeps ==
    ASSUME SchedInv, NEW c \in Callers, NEW t \in Tasks, RunTaskNow(c, t)
    PROVE  SchedInv'
<1>1. /\ UNCHANGED <<slot, table, tasks, walk>> /\ calls' = calls + 1 /\ Listed(t)
      /\ jobs' = [jobs EXCEPT ![c] = t]
  BY DEF RunTaskNow, Begins, IsCall
<1>2. jobs' \in [Runners -> Tasks \cup {NoJob}] /\ \A r \in Runners : jobs'[r] \in {jobs[r], t}
  BY <1>1, WalkType
<1>3. SchedTypeOK'
  BY <1>1, <1>2, WalkType DEF SchedTypeOK
<1>4. \A s \in Tasks : Listed(s)' => Listed(s)
  BY <1>1 DEF Listed
<1>5. \A r \in Runners : jobs'[r] \in {jobs[r], NoJob} \/ Planned(tasks[jobs'[r]])
  BY <1>1, <1>2 DEF SchedInv
<1> QED BY <1>1, <1>3, <1>4, <1>5, OthersKeep

(* Every step of the scheduler keeps what is known of its tasks.            *)
THEOREM SchedInvariant == SchedSpec => []SchedInv
<1>1. SchedInit => SchedInv
  <2> SUFFICES ASSUME SchedInit PROVE SchedInv
    OBVIOUS
  <2>1. NewTask \in TaskState /\ TaskGood(NewTask)
    BY DEF NewTask, TaskState, TaskGood, NoPlan, Never
  <2>2. \A t \in Tasks : ~Listed(t)
    BY DEF SchedInit, Listed
  <2>3. SchedTypeOK
    BY <2>1 DEF SchedInit, SchedTypeOK, LoopOff
  <2> QED BY <2>1, <2>2, <2>3 DEF SchedInit, SchedInv
<1>2. SchedInv /\ [SchedNext]_schedVars => SchedInv'
  <2> SUFFICES ASSUME SchedInv, [SchedNext]_schedVars PROVE SchedInv'
    OBVIOUS
  <2>1. CASE UNCHANGED schedVars
    <3>1. \A r \in Runners : jobs'[r] \in {jobs[r], NoJob}
      BY <2>1 DEF schedVars
    <3>2. SchedTypeOK' /\ \A t \in Tasks : Listed(t)' => Listed(t)
      BY <2>1 DEF schedVars, SchedInv, SchedTypeOK, Listed
    <3> QED BY <2>1, <3>1, <3>2, OthersKeep DEF schedVars
  <2>2. Loop \in Runners /\ Callers \subseteq Runners
    BY DEF Runners
  <2> QED BY <2>1, <2>2, AddKeeps, EnableKeeps, EndsKeep, RemoveKeeps, LoopKeeps,
             TakesKeep, RunNowKeeps, Zenon DEF SchedNext, SchedStep
<1> QED BY <1>1, <1>2, PTL DEF SchedSpec

(* Whatever runs a task, and however runs overlap: its next run is the      *)
(* first occurrence of its plan after the moment the run was computed, and  *)
(* a task to be run once that succeeded is not due again (scheduler.py:437).*)
THEOREM NextRunIsNextOccurrence == SchedSpec => []NextIsNextOccurrence
<1>1. SchedInv => NextIsNextOccurrence
  BY DEF SchedInv, TaskGood, FirstAfter, NextIsNextOccurrence
<1> QED BY <1>1, SchedInvariant, PTL

-----------------------------------------------------------------------------
(* Signals.                                                                *)
LEMMA SignalsBounds ==
    /\ MinFilter \in 0 .. 1000 /\ MaxSignals \in Nat
    /\ \A c \in Charts : c.atr[2] \in Int
    /\ \A a \in LlmAnswers : a.confidence \in Int
BY SignalsAssumption

IsReading(r) == r \in [trend : Trends, strength : 1 .. 3]

(* Whatever an indicator reads, it votes for a trend with a weight.         *)
LEMMA IndicatorsVote ==
    ASSUME NEW c
    PROVE  \A i \in 1 .. 6 : IsReading(Indicators(c)[i])
<1> USE DEF IsReading, Reading, StrongIf, Strong, Moderate, Weak, Trends
<1>1. IsReading(Rsi(c.rsi))
  BY DEF Rsi
<1>2. IsReading(Macd(c.macd[1], c.macd[2], c.macd[3]))
  BY DEF Macd
<1>3. IsReading(Bands(c.bands))
  BY DEF Bands
<1>4. IsReading(Obv(c.obv[1], c.obv[2]))
  BY DEF Obv
<1>5. IsReading(Atr(c.atr[1]))
  BY DEF Atr
<1>6. IsReading(Ema(c.price, c.ema))
  BY DEF Ema
<1> QED
  BY <1>1, <1>2, <1>3, <1>4, <1>5, <1>6 DEF Indicators

LEMMA ScoreIsNatural ==
    ASSUME NEW r, \A i \in 1 .. 6 : IsReading(r[i]), NEW trend
    PROVE  Score(r, trend) \in Nat
BY DEF Score, ScoreShare, IsReading

(* The confidence of an analysis is a share, in per mille.                  *)
LEMMA ShareInPerMille ==
    ASSUME NEW a \in Nat, NEW b \in Nat, b > 0
    PROVE  (1000 * a) \div b \in Int
OBVIOUS

LEMMA AnalysisType ==
    ASSUME NEW c
    PROVE  /\ Analysis(c).trend \in Trends
           /\ Analysis(c).confidence \in Int
<1> DEFINE r == Indicators(c)
           up == Score(r, "bullish")
           down == Score(r, "bearish")
           flat == Score(r, "neutral")
<1>1. up \in Nat /\ down \in Nat /\ flat \in Nat
  BY IndicatorsVote, ScoreIsNatural
<1> HIDE DEF r, up, down, flat
<1>2. CASE up + down + flat = 0
  BY <1>2 DEF Analysis, Overall, Trends, r, up, down, flat
<1>3. CASE up + down + flat # 0
  <2> DEFINE trend == CASE up > down /\ up > flat -> "bullish"
                        [] down > up /\ down > flat -> "bearish"
                        [] OTHER -> "neutral"
             most == CASE trend = "bullish" -> up [] trend = "bearish" -> down [] OTHER -> flat
  <2>1. trend \in Trends
    BY DEF Trends
  <2>2. most \in Nat
    BY <1>1
  <2> HIDE DEF trend, most
  <2>3. Analysis(c).trend = trend
    BY <1>3 DEF Analysis, Overall, r, up, down, flat, trend
  <2>4. Analysis(c).confidence = (1000 * most) \div (up + down + flat)
    BY <1>3 DEF Analysis, Overall, r, up, down, flat, trend, most
  <2>5. (1000 * most) \div (up + down + flat) \in Int
    BY <1>1, <1>3, <2>2, ShareInPerMille
  <2> QED BY <2>1, <2>3, <2>4, <2>5
<1> QED BY <1>2, <1>3

SignalTypes == {"none", "no_action", "long", "short"}

LEMMA FilteredConfidenceType ==
    ASSUME NEW c \in Int, NEW aligned
    PROVE  AdjustedByFilter(c, aligned) \in Int
<1>1. (8 * c) \div 10 \in Int /\ (12 * c) \div 10 \in Int
  OBVIOUS
<1>2. Min({1000, (12 * c) \div 10}) \in Int
  <2> DEFINE d == (12 * c) \div 10
  <2>1. d \in Int
    BY <1>1
  <2> HIDE DEF d
  <2>2. \E x \in {1000, d} : \A y \in {1000, d} : x <= y
    BY <2>1
  <2>3. Min({1000, d}) \in {1000, d}
    BY <2>2 DEF Min
  <2> QED BY <2>1, <2>3 DEF d
<1> QED BY <1>1, <1>2 DEF AdjustedByFilter

IsAnswer(a) == a.advice \in Advices /\ a.confidence \in Int

LEMMA AnswerType ==
    ASSUME NEW technical, NEW a \in Answers(technical)
    PROVE  IsAnswer(a)
<1>1. CASE a \in LlmAnswers
  BY <1>1, SignalsBounds DEF IsAnswer, Advices
<1>2. CASE a \in {NoContext, Unparsed}
  BY <1>2 DEF IsAnswer, NoContext, Unparsed, Context, Advices
<1>3. CASE a = FallbackContext(technical)
  <2>1. a \in {Context("bullish", "buy", 500), Context("bearish", "sell", 500),
               Context("neutral", "hold", 500)}
    BY <1>3 DEF FallbackContext
  <2> QED BY <2>1 DEF IsAnswer, Context, Advices
<1> QED BY <1>1, <1>2, <1>3 DEF Answers

LEMMA BlendType ==
    ASSUME NEW c \in Int, NEW a, IsAnswer(a), NEW share \in {5, 7, 8, 10}
    PROVE  Blend(c, a, share) \in Int
<1>1. 4 * share * a.confidence \in Int
  BY DEF IsAnswer
<1>2. 60 * c + 4 * share * a.confidence \in Int
  BY <1>1
<1> QED BY <1>2 DEF Blend

(* The model changes a signal to a direction it had not only by a strong    *)
(* recommendation.                                                          *)
LEMMA ModelAdjusts ==
    ASSUME NEW type \in SignalTypes, NEW c \in Int, NEW a, IsAnswer(a)
    PROVE  LET result == AdjustedByModel(type, c, a)
           IN  /\ result[1] \in SignalTypes /\ result[2] \in Int
               /\ result[1] = "long" => type = "long" \/ a.advice = "strong_buy"
               /\ result[1] = "short" => type = "short" \/ a.advice = "strong_sell"
<1> DEFINE r == AdjustedByModel(type, c, a)
<1>1. \/ r = <<type, c>>
      \/ \E s \in {5, 7} : r = <<"no_action", Blend(c, a, s)>>
      \/ r = <<"long", Blend(c, a, 8)>> /\ a.advice = "strong_buy"
      \/ r = <<"short", Blend(c, a, 8)>> /\ a.advice = "strong_sell"
      \/ r = <<type, Blend(c, a, 10)>>
  BY DEF AdjustedByModel
<1>2. \A s \in {5, 7, 8, 10} : Blend(c, a, s) \in Int
  BY BlendType
<1> HIDE DEF r
<1>3. /\ r[1] \in SignalTypes /\ r[2] \in Int
      /\ r[1] = "long" => type = "long" \/ a.advice = "strong_buy"
      /\ r[1] = "short" => type = "short" \/ a.advice = "strong_sell"
  BY <1>1, <1>2 DEF SignalTypes
<1> QED BY <1>3 DEF r

LEMMA SignalType ==
    ASSUME NEW type \in SignalTypes, NEW c \in Int, NEW atr \in Int
    PROVE  Signal(type, c, atr) \in SignalRecord
<1>1. ConfidenceToStrength(c) \in None .. Strong
  BY DEF ConfidenceToStrength, None, Weak, Moderate, Strong
<1>2. Base \in Int
  BY DEF Base
<1> QED BY <1>1, <1>2 DEF Signal, SignalRecord, SignalTypes

(* A filter that is confident leaves no signal against its trend.           *)
AgainstFilter(type, filter) ==
    /\ filter.confidence >= MinFilter
    /\ \/ filter.trend = "bearish" /\ type = "long"
       \/ filter.trend = "bullish" /\ type = "short"

LEMMA FilterFilters ==
    ASSUME NEW type \in SignalTypes, NEW filter
    PROVE  /\ Filtered(type, filter) \in SignalTypes
           /\ ~AgainstFilter(Filtered(type, filter), filter)
BY DEF Filtered, AgainstFilter, SignalTypes

OnItsWay(g) == making[g].phase \in {"publishing", "recording"}
FilterObeyed(made1) ==
    /\ (made1.filter.confidence >= MinFilter /\ made1.filter.trend = "bearish"
          /\ made1.signal.type = "long") => made1.advice = "strong_buy"
    /\ (made1.filter.confidence >= MinFilter /\ made1.filter.trend = "bullish"
          /\ made1.signal.type = "short") => made1.advice = "strong_sell"

(* What the filter left stands until the model answers, and what the model  *)
(* made of it until it is recorded.                                         *)
FilterKept ==
    /\ \A g \in Generators :
         /\ making[g].phase = "asking" => ~AgainstFilter(making[g].type, making[g].filter)
         /\ OnItsWay(g) => FilterObeyed(making[g].result)
    /\ FilterObeyed(newest)

(* Until there are candles enough nothing is recorded.  The last signal     *)
(* that was returned is close to the recorded one.  Unless comparisons      *)
(* overlapped, a signal that is still to be told is alone, or the others    *)
(* are only to be published too, and what was heard is close to the record, *)
(* except between publishing and recording.                                 *)
Late(g) == making[g].phase \notin {"idle", "asking"}
NearRecord(s) == recorded = NoSignal \/ CloseTo(s, recorded)
Undisturbed ==
    /\ \A g, h \in Generators : g # h /\ Late(g) /\ Late(h) =>
           making[g].phase = "returned" /\ making[h].phase = "returned"
    /\ NearRecord(heard) \/ \E g \in Generators : making[g].phase = "recording"
    /\ \A g \in Generators :
         /\ making[g].phase = "recording" => heard = making[g].result.signal
         /\ making[g].phase = "returned" => NearRecord(making[g].result.signal)
RecordFollows ==
    /\ ~enough => recorded = NoSignal /\ \A g \in Generators : making[g].phase \in {"idle", "returned"}
    /\ NearRecord(newest.signal)
    /\ ~overlapped => Undisturbed

SignalsInv == SignalsTypeOK /\ FilterKept /\ RecordFollows

Makings == [phase : Phases, type : SignalTypes, confidence : Int, atr : Int,
            technical : Trends, filter : FilterResult, result : Made]

LEMMA SignalTypeOKAgain ==
    SignalsTypeOK <=>
      /\ making \in [Generators -> Makings]
      /\ recorded \in SignalRecord /\ heard \in SignalRecord /\ newest \in Made
      /\ overlapped \in BOOLEAN /\ enough \in BOOLEAN /\ made \in 0 .. MaxSignals
BY DEF SignalsTypeOK, Makings, SignalTypes

LEMMA IdleMaking == NotMaking \in Makings
BY DEF NotMaking, NotMade, NoFilter, NoSignal, Makings, Phases, Trends, SignalTypes,
   FilterResult, SignalRecord, Made, Advices, None, Strong

LEMMA SignalsInitOK ==
    ASSUME SignalsInit
    PROVE  SignalsInv
<1>1. SignalsTypeOK
  <2>1. making \in [Generators -> Makings]
    BY IdleMaking DEF SignalsInit
  <2>2. NotMade \in Made
    BY IdleMaking DEF Makings, NotMaking
  <2>3. NoSignal \in SignalRecord
    BY DEF NoSignal, SignalRecord, None, Strong
  <2>4. made \in 0 .. MaxSignals
    BY SignalsBounds DEF SignalsInit
  <2>5. overlapped \in BOOLEAN /\ enough \in BOOLEAN
    BY DEF SignalsInit
  <2>6. recorded = NoSignal /\ heard = NoSignal /\ newest = NotMade
    BY DEF SignalsInit
  <2> QED BY <2>1, <2>2, <2>3, <2>4, <2>5, <2>6, SignalTypeOKAgain
<1>2. FilterKept
  BY DEF SignalsInit, NotMaking, NotMade, NoFilter, FilterKept, OnItsWay, FilterObeyed,
     AgainstFilter
<1>3. RecordFollows
  BY DEF SignalsInit, NotMaking, NotMade, NoFilter, RecordFollows, Undisturbed,
     NearRecord, Late
<1> QED BY <1>1, <1>2, <1>3 DEF SignalsInv

LEMMA ReachedMaking ==
    ASSUME NEW phase \in Phases, NEW result \in Made
    PROVE  /\ Reached(phase, result) \in Makings
           /\ Reached(phase, result).phase = phase /\ Reached(phase, result).result = result
BY IdleMaking DEF Reached, NotMaking, Makings

(* The entry of one generator changes: what the others' entries gave stays. *)
LEMMA OneEntry ==
    ASSUME SignalsTypeOK, NEW g \in Generators, NEW STATE entry, entry \in Makings,
           making' = [making EXCEPT ![g] = entry]
    PROVE  /\ making' \in [Generators -> Makings] /\ making'[g] = entry
           /\ \A h \in Generators : h # g => making'[h] = making[h]
BY SignalTypeOKAgain

(* A signal that is begun is asked about, and obeys its filter.             *)
LEMMA StartKeeps ==
    ASSUME SignalsInv, NEW g \in Generators, NEW entry \in Makings,
           entry.phase = "asking", ~AgainstFilter(entry.type, entry.filter),
           Starts(g, entry), enough, newest' = newest
    PROVE  SignalsInv'
<1>1. making[g].phase = "idle" /\ made < MaxSignals /\ made' = made + 1
      /\ making' = [making EXCEPT ![g] = entry]
      /\ UNCHANGED <<enough, recorded, heard, newest, overlapped>>
  BY DEF Starts
<1>2. making \in [Generators -> Makings]
  BY SignalTypeOKAgain DEF SignalsInv
<1>3. /\ making'[g] = entry
      /\ \A h \in Generators : h # g => making'[h] = making[h]
  BY <1>1, <1>2
<1>4. SignalsTypeOK'
  <2>1. making' \in [Generators -> Makings]
    BY <1>1, <1>2
  <2>2. made' \in 0 .. MaxSignals
    BY <1>1, SignalsBounds, SignalTypeOKAgain DEF SignalsInv
  <2> QED BY <2>1, <2>2, <1>1, SignalTypeOKAgain DEF SignalsInv, SignalsTypeOK, SignalTypes, Makings
<1>5. FilterKept'
  BY <1>1, <1>3 DEF SignalsInv, FilterKept, OnItsWay, FilterObeyed, AgainstFilter
<1>6. RecordFollows'
  <2>1. /\ ~Late(g) /\ ~Late(g)'
        /\ \A h \in Generators : h # g => (Late(h)' <=> Late(h))
    BY <1>1, <1>3 DEF Late
  <2>2. making'[g].phase = "asking"
    BY <1>3
  <2>3. Undisturbed => Undisturbed'
    BY <1>1, <1>3, <2>1, <2>2 DEF Undisturbed, Late, NearRecord, CloseTo
  <2> QED BY <1>1, <2>3 DEF SignalsInv, RecordFollows, NearRecord, CloseTo
<1> QED BY <1>4, <1>5, <1>6 DEF SignalsInv

(* A signal without action, before there are candles to analyse.            *)
LEMMA LacksKeeps ==
    ASSUME SignalsInv, NEW g \in Engines, LacksCandles(g)
    PROVE  SignalsInv'
<1> DEFINE none == [NotMade EXCEPT !.signal = Signal("no_action", 0, 0)]
           entry == Reached("returned", none)
<1>1. /\ ~enough /\ making[g].phase = "idle" /\ made < MaxSignals /\ made' = made + 1
      /\ making' = [making EXCEPT ![g] = entry] /\ newest' = none
      /\ UNCHANGED <<enough, recorded, heard, overlapped>>
  BY DEF LacksCandles, Starts
<1>2. g \in Generators /\ SignalsTypeOK
  BY DEF SignalsInv, Generators
<1>3. Signal("no_action", 0, 0) \in SignalRecord
  BY SignalType DEF SignalTypes
<1>4. none \in Made /\ none.filter = NoFilter
  BY <1>3, IdleMaking DEF NotMade, Made, Makings, NotMaking
<1> HIDE DEF none
<1>5. entry \in Makings /\ entry.phase = "returned" /\ entry.result = none
  BY <1>4, ReachedMaking DEF Phases
<1> HIDE DEF entry
<1>6. /\ making'[g] = entry /\ making' \in [Generators -> Makings]
      /\ \A h \in Generators : h # g => making'[h] = making[h]
  BY <1>1, <1>2, <1>5, OneEntry
<1>7. SignalsTypeOK'
  <2>1. made' \in 0 .. MaxSignals
    BY <1>1, SignalsBounds, SignalTypeOKAgain DEF SignalsInv
  <2> QED BY <2>1, <1>1, <1>4, <1>6, SignalTypeOKAgain
          DEF SignalsInv, SignalsTypeOK, SignalTypes, Makings
<1>8. FilterObeyed(none)
  BY <1>4 DEF FilterObeyed, NoFilter
<1>9. FilterKept'
  BY <1>1, <1>5, <1>6, <1>8 DEF SignalsInv, FilterKept, OnItsWay, FilterObeyed, AgainstFilter
<1>10. recorded' = NoSignal /\ \A h \in Generators : making[h].phase \in {"idle", "returned"}
  BY <1>1 DEF SignalsInv, RecordFollows
<1>11. \A h \in Generators : making'[h].phase \in {"idle", "returned"}
  BY <1>5, <1>6, <1>10
<1>12. Undisturbed'
  BY <1>10, <1>11 DEF Undisturbed, Late, NearRecord
<1>13. RecordFollows'
  BY <1>10, <1>11, <1>12 DEF RecordFollows, NearRecord
<1> QED BY <1>7, <1>9, <1>13 DEF SignalsInv

LEMMA SingleStartKeeps ==
    ASSUME SignalsInv, NEW g \in Generators, NEW c \in Charts, StartsSingle(g, c)
    PROVE  SignalsInv'
<1> DEFINE t == Analysis(c)
           entry == [NotMaking EXCEPT !.phase = "asking", !.type = TechnicalToSignal(t),
                       !.confidence = t.confidence, !.atr = c.atr[2], !.technical = t.trend]
<1>1. t.trend \in Trends /\ t.confidence \in Int /\ c.atr[2] \in Int
  BY AnalysisType, SignalsBounds
<1>2. Starts(g, entry) /\ enough /\ newest' = newest
  BY DEF StartsSingle
<1> HIDE DEF t
<1>3. TechnicalToSignal(t) \in SignalTypes
  BY DEF TechnicalToSignal, SignalTypes
<1>4. entry \in Makings /\ entry.phase = "asking" /\ entry.filter = NoFilter
  BY <1>1, <1>3, IdleMaking DEF Makings, Phases, NotMaking
<1>5. ~AgainstFilter(entry.type, entry.filter)
  BY <1>4 DEF AgainstFilter, NoFilter
<1> HIDE DEF entry
<1> QED BY <1>2, <1>4, <1>5, StartKeeps

LEMMA FramedStartKeeps ==
    ASSUME SignalsInv, NEW g \in Engines, NEW c \in Charts,
           NEW frames \in {{}} \cup {{f} : f \in FilterCharts}, StartsFramed(g, c, frames)
    PROVE  SignalsInv'
<1> DEFINE t == Analysis(c)
           others == {Analysis(f) : f \in frames}
           filter == IF others = {} THEN t ELSE CHOOSE f \in others : TRUE
           aligned == AlignedTrends({t.trend} \cup {f.trend : f \in others})
           entry == [NotMaking EXCEPT !.phase = "asking",
                       !.type = Filtered(TechnicalToSignal(t), filter),
                       !.confidence = AdjustedByFilter(t.confidence, aligned),
                       !.atr = c.atr[2], !.technical = t.trend,
                       !.filter = [trend |-> filter.trend, confidence |-> filter.confidence]]
<1>1. t.trend \in Trends /\ t.confidence \in Int /\ c.atr[2] \in Int
  BY AnalysisType, SignalsBounds
<1>2. \A f \in others : f.trend \in Trends /\ f.confidence \in Int
  BY AnalysisType
<1>3. Starts(g, entry) /\ enough /\ newest' = newest
  BY DEF StartsFramed
<1> HIDE DEF t, others, aligned
<1>4. filter.trend \in Trends /\ filter.confidence \in Int
  BY <1>1, <1>2
<1> HIDE DEF filter
<1>5. TechnicalToSignal(t) \in SignalTypes
  BY DEF TechnicalToSignal, SignalTypes
<1>6. /\ Filtered(TechnicalToSignal(t), filter) \in SignalTypes
      /\ ~AgainstFilter(Filtered(TechnicalToSignal(t), filter), filter)
  BY <1>5, FilterFilters
<1>7. AdjustedByFilter(t.confidence, aligned) \in Int
  BY <1>1, FilteredConfidenceType
<1>8. /\ entry \in Makings /\ entry.phase = "asking"
      /\ entry.type = Filtered(TechnicalToSignal(t), filter)
      /\ entry.filter = [trend |-> filter.trend, confidence |-> filter.confidence]
  BY <1>1, <1>4, <1>6, <1>7, IdleMaking DEF Makings, Phases, NotMaking, FilterResult
<1>9. ~AgainstFilter(entry.type, entry.filter)
  BY <1>6, <1>8 DEF AgainstFilter
<1> HIDE DEF entry
<1> QED BY <1>3, <1>8, <1>9, StartKeeps DEF Generators

(* The comparison: what is published is on its way alone, unless another    *)
(* was; what is not published is close to the record.                       *)
LEMMA NotSignificant ==
    ASSUME NEW s \in SignalRecord, recorded \in SignalRecord, ~SignificantChange(s)
    PROVE  CloseTo(s, recorded) /\ recorded # NoSignal
<1>1. s.confidence - recorded.confidence \in Int
  BY DEF SignalRecord
<1>2. \A x \in Int : AbsOf(x) \in Int
  BY DEF AbsOf
<1>3. AbsOf(s.confidence - recorded.confidence) \in Int
  BY <1>1, <1>2
<1> QED BY <1>3 DEF SignificantChange, CloseTo

LEMMA CompareKeeps ==
    ASSUME SignalsInv, NEW g \in Generators, NEW llm \in Answers(making[g].technical),
           Compares(g, llm)
    PROVE  SignalsInv'
<1> DEFINE entry == making[g]
           adjusted == AdjustedByModel(entry.type, entry.confidence, llm)
           result == [signal |-> Signal(adjusted[1], adjusted[2], entry.atr),
                      filter |-> entry.filter, advice |-> llm.advice]
           busy == \E h \in Generators \ {g} : Late(h)
<1>1. /\ entry.phase = "asking"
      /\ overlapped' = (overlapped \/ busy)
      /\ \/ /\ SignificantChange(result.signal)
            /\ making' = [making EXCEPT ![g] = Reached("publishing", result)]
            /\ newest' = newest
         \/ ~SignificantChange(result.signal) /\ Returned(g, result)
      /\ enough' = enough /\ recorded' = recorded /\ heard' = heard /\ made' = made
  BY Zenon DEF Compares, Late
<1>2. making \in [Generators -> Makings]
  BY SignalTypeOKAgain DEF SignalsInv
<1>3. entry \in Makings
  BY <1>2
<1>4. IsAnswer(llm)
  BY AnswerType
<1>5. /\ adjusted[1] \in SignalTypes /\ adjusted[2] \in Int
      /\ adjusted[1] = "long" => entry.type = "long" \/ llm.advice = "strong_buy"
      /\ adjusted[1] = "short" => entry.type = "short" \/ llm.advice = "strong_sell"
  <2>1. entry.type \in SignalTypes /\ entry.confidence \in Int
    BY <1>3 DEF Makings
  <2> HIDE DEF entry
  <2> QED BY <1>4, <2>1, ModelAdjusts
<1>6. ~AgainstFilter(entry.type, entry.filter)
  BY <1>1 DEF SignalsInv, FilterKept
<1> HIDE DEF adjusted
<1>7. result \in Made
  BY <1>3, <1>4, <1>5, SignalType DEF Made, Makings, IsAnswer
<1>8. FilterObeyed(result)
  <2>1. result.signal.type = adjusted[1]
    BY DEF Signal
  <2> HIDE DEF entry
  <2> QED BY <1>5, <1>6, <2>1 DEF FilterObeyed, AgainstFilter
<1>9. overlapped \in BOOLEAN /\ enough \in BOOLEAN /\ made \in 0 .. MaxSignals
      /\ recorded \in SignalRecord /\ heard \in SignalRecord /\ newest \in Made
  BY SignalTypeOKAgain DEF SignalsInv
<1>10. enough /\ SignalsTypeOK
  BY <1>1 DEF SignalsInv, RecordFollows
<1>11. ~overlapped' => /\ ~overlapped
                      /\ \A h \in Generators : h # g => ~Late(h)
  BY <1>1
<1> HIDE DEF result, busy
<1>12. CASE SignificantChange(result.signal)
  <2> DEFINE left == Reached("publishing", result)
  <2>1. making' = [making EXCEPT ![g] = left] /\ newest' = newest
    BY <1>1, <1>12
  <2>2. left \in Makings /\ left.phase = "publishing" /\ left.result = result
    BY <1>7, ReachedMaking DEF Phases
  <2> HIDE DEF left
  <2>3. /\ making' \in [Generators -> Makings] /\ making'[g] = left
        /\ \A h \in Generators : h # g => making'[h] = making[h]
    BY <1>10, <2>1, <2>2, OneEntry
  <2>4. SignalsTypeOK'
    BY <1>1, <1>9, <2>1, <2>3 DEF SignalsTypeOK, Makings, SignalTypes
  <2>5. FilterKept'
    BY <1>8, <2>1, <2>2, <2>3 DEF SignalsInv, FilterKept, OnItsWay, FilterObeyed, AgainstFilter
  <2>6. ASSUME ~overlapped' PROVE Undisturbed'
    <3>1. \A h \in Generators : /\ h # g => ~Late(h)'
                               /\ making'[h].phase \notin {"recording", "returned"}
      BY <1>11, <2>2, <2>3, <2>6 DEF Late
    <3>2. \A h \in Generators : making[h].phase # "recording"
      BY <1>1, <1>11, <2>6 DEF Late
    <3>3. NearRecord(heard)
      BY <1>11, <2>6, <3>2 DEF SignalsInv, RecordFollows, Undisturbed
    <3> QED BY <1>1, <3>1, <3>3 DEF Undisturbed, NearRecord, CloseTo
  <2>7. RecordFollows'
    BY <1>1, <1>10, <2>1, <2>6 DEF SignalsInv, RecordFollows, NearRecord, CloseTo
  <2> QED BY <2>4, <2>5, <2>7 DEF SignalsInv
<1>13. CASE ~SignificantChange(result.signal)
  <2> DEFINE left == IF g \in Engines THEN Reached("returned", result) ELSE NotMaking
  <2>1. making' = [making EXCEPT ![g] = left] /\ newest' = result
    BY <1>1, <1>13 DEF Returned
  <2>2. /\ left \in Makings /\ left.phase \in {"idle", "returned"}
        /\ left.phase = "returned" => left.result = result
    BY <1>7, ReachedMaking, IdleMaking DEF Phases, NotMaking
  <2> HIDE DEF left
  <2>3. /\ making' \in [Generators -> Makings] /\ making'[g] = left
        /\ \A h \in Generators : h # g => making'[h] = making[h]
    BY <1>10, <2>1, <2>2, OneEntry
  <2>4. SignalsTypeOK'
    BY <1>1, <1>7, <1>9, <2>1, <2>3 DEF SignalsTypeOK, Makings, SignalTypes
  <2>5. FilterKept'
    BY <1>8, <2>1, <2>2, <2>3 DEF SignalsInv, FilterKept, OnItsWay, FilterObeyed, AgainstFilter
  <2>6. CloseTo(result.signal, recorded)
    BY <1>7, <1>9, <1>13, NotSignificant DEF Made
  <2>7. ASSUME ~overlapped' PROVE Undisturbed'
    <3>1. \A h \in Generators : /\ h # g => ~Late(h)' /\ making'[h].phase # "returned"
                               /\ making'[h].phase # "recording"
      BY <1>11, <2>2, <2>3, <2>7 DEF Late
    <3>2. \A h \in Generators : making[h].phase # "recording"
      BY <1>1, <1>11, <2>7 DEF Late
    <3>3. NearRecord(heard)
      BY <1>11, <2>7, <3>2 DEF SignalsInv, RecordFollows, Undisturbed
    <3>4. making'[g].phase = "returned" => CloseTo(making'[g].result.signal, recorded)
      BY <2>2, <2>3, <2>6
    <3> QED BY <1>1, <3>1, <3>3, <3>4 DEF Undisturbed, NearRecord, CloseTo
  <2>8. RecordFollows'
    BY <1>1, <1>10, <2>1, <2>6, <2>7 DEF SignalsInv, RecordFollows, NearRecord, CloseTo
  <2> QED BY <2>4, <2>5, <2>8 DEF SignalsInv
<1> QED BY <1>12, <1>13

LEMMA PublishKeeps ==
    ASSUME SignalsInv, NEW g \in Generators, PublishesSignal(g)
    PROVE  SignalsInv'
<1>1. /\ making[g].phase = "publishing" /\ heard' = making[g].result.signal
      /\ making' = [making EXCEPT ![g].phase = "recording"]
      /\ UNCHANGED <<enough, recorded, newest, overlapped, made>>
  BY DEF PublishesSignal
<1>2. making \in [Generators -> Makings] /\ making[g] \in Makings
  BY SignalTypeOKAgain DEF SignalsInv
<1>3. making'[g] = [making[g] EXCEPT !.phase = "recording"]
      /\ \A h \in Generators : h # g => making'[h] = making[h]
  BY <1>1, <1>2
<1>4. making'[g].phase = "recording" /\ making'[g].result = making[g].result
  BY <1>2, <1>3 DEF Makings
<1>5. making' \in [Generators -> Makings]
  BY <1>1, <1>2 DEF Makings, Phases
<1>6. making[g].result.signal \in SignalRecord
  BY <1>2 DEF Makings, Made
<1>7. SignalsTypeOK'
  BY <1>1, <1>5, <1>6 DEF SignalsInv, SignalsTypeOK, Makings, SignalTypes
<1>8. FilterKept'
  BY <1>1, <1>3, <1>4 DEF SignalsInv, FilterKept, OnItsWay, FilterObeyed, AgainstFilter
<1>9. RecordFollows'
  <2>1. Undisturbed => \A h \in Generators : h # g => ~Late(h) /\ ~Late(h)'
    BY <1>1, <1>3 DEF Undisturbed, Late
  <2>2. Undisturbed => \A h \in Generators : h # g =>
                          making'[h].phase \notin {"recording", "returned"}
    BY <2>1 DEF Late
  <2>3. Undisturbed => Undisturbed'
    BY <1>1, <1>4, <2>1, <2>2 DEF Undisturbed
  <2>4. enough
    BY <1>1 DEF SignalsInv, RecordFollows
  <2> QED BY <1>1, <2>3, <2>4 DEF SignalsInv, RecordFollows, NearRecord, CloseTo
<1> QED BY <1>7, <1>8, <1>9 DEF SignalsInv

LEMMA RecordKeeps ==
    ASSUME SignalsInv, NEW g \in Generators, RecordsSignal(g)
    PROVE  SignalsInv'
<1> DEFINE result == making[g].result
           left == IF g \in Engines THEN Reached("returned", result) ELSE NotMaking
<1>1. /\ making[g].phase = "recording" /\ recorded' = result.signal /\ newest' = result
      /\ making' = [making EXCEPT ![g] = left]
      /\ UNCHANGED <<enough, heard, overlapped, made>>
  BY DEF RecordsSignal, Returned
<1>2. result \in Made /\ SignalsTypeOK /\ OnItsWay(g)
  BY <1>1, SignalTypeOKAgain DEF SignalsInv, Makings, OnItsWay
<1>3. FilterObeyed(result)
  BY <1>2 DEF SignalsInv, FilterKept
<1>4. Undisturbed => heard = result.signal
  BY <1>1 DEF Undisturbed
<1> HIDE DEF result
<1>5. /\ left \in Makings /\ left.phase \in {"idle", "returned"}
      /\ left.phase = "returned" => left.result = result
  BY <1>2, ReachedMaking, IdleMaking DEF Phases, NotMaking
<1> HIDE DEF left
<1>6. /\ making' \in [Generators -> Makings] /\ making'[g] = left
      /\ \A h \in Generators : h # g => making'[h] = making[h]
  BY <1>1, <1>2, <1>5, OneEntry
<1>7. result.signal \in SignalRecord
  BY <1>2 DEF Made
<1>8. SignalsTypeOK'
  BY <1>1, <1>2, <1>6, <1>7 DEF SignalsInv, SignalsTypeOK, Makings, SignalTypes
<1>9. FilterKept'
  BY <1>1, <1>3, <1>5, <1>6 DEF SignalsInv, FilterKept, OnItsWay, FilterObeyed, AgainstFilter
<1>10. CloseTo(result.signal, result.signal)
  BY <1>7 DEF CloseTo, AbsOf, SignalRecord
<1>11. NearRecord(newest.signal)'
  BY <1>1, <1>10 DEF NearRecord, CloseTo
<1>12. Undisturbed => Undisturbed'
  <2>1. Undisturbed => \A h \in Generators : h # g => ~Late(h) /\ ~Late(h)'
    BY <1>1, <1>6 DEF Undisturbed, Late
  <2>2. Undisturbed => \A h \in Generators : h # g =>
                          making'[h].phase \notin {"recording", "returned"}
    BY <2>1 DEF Late
  <2>3. Undisturbed => NearRecord(heard)'
    BY <1>1, <1>4, <1>10 DEF NearRecord, CloseTo
  <2>4. /\ making'[g].phase # "recording"
        /\ making'[g].phase = "returned" => NearRecord(making[g].result.signal)'
    BY <1>1, <1>5, <1>6, <1>10 DEF NearRecord, CloseTo
  <2> QED BY <2>1, <2>2, <2>3, <2>4 DEF Undisturbed
<1>13. RecordFollows'
  <2>1. enough
    BY <1>1 DEF SignalsInv, RecordFollows
  <2> QED BY <1>1, <1>11, <1>12, <2>1 DEF SignalsInv, RecordFollows
<1> QED BY <1>8, <1>9, <1>13 DEF SignalsInv

(* A generator becomes idle: what it returned is published, or it is        *)
(* cancelled and nothing is.                                                *)
LEMMA EndKeeps ==
    ASSUME SignalsInv, NEW g \in Engines, EnginePublishes(g) \/ EngineCancelled(g)
    PROVE  SignalsInv'
<1>1. /\ making[g].phase \in {"asking", "publishing", "returned"}
      /\ heard' = heard
         \/ (making[g].phase = "returned" /\ heard' = making[g].result.signal)
      /\ making' = [making EXCEPT ![g] = NotMaking]
      /\ UNCHANGED <<enough, recorded, newest, overlapped, made>>
  BY DEF EnginePublishes, EngineCancelled
<1>2. g \in Generators /\ SignalsTypeOK
  BY DEF SignalsInv, Generators
<1>3. making[g].result.signal \in SignalRecord
  BY <1>2, SignalTypeOKAgain DEF Makings, Made
<1>4. /\ making' \in [Generators -> Makings] /\ making'[g] = NotMaking
      /\ \A h \in Generators : h # g => making'[h] = making[h]
  BY <1>1, <1>2, OneEntry, IdleMaking
<1>5. making'[g].phase = "idle"
  BY <1>4 DEF NotMaking
<1>6. SignalsTypeOK'
  BY <1>1, <1>2, <1>3, <1>4 DEF SignalsTypeOK, Makings, SignalTypes
<1>7. FilterKept'
  BY <1>1, <1>4, <1>5 DEF SignalsInv, FilterKept, OnItsWay, FilterObeyed, AgainstFilter
<1>8. Undisturbed => Undisturbed'
  <2>1. ~Late(g)' /\ \A h \in Generators : h # g => (Late(h)' <=> Late(h))
    BY <1>4, <1>5 DEF Late
  <2>2. CASE heard' = heard
    BY <1>1, <1>4, <1>5, <2>1, <2>2 DEF Undisturbed, NearRecord, CloseTo
  <2>3. CASE making[g].phase = "returned" /\ heard' = making[g].result.signal
    <3>1. Undisturbed => \A h \in Generators : making[h].phase # "recording"
      BY <1>2, <2>3 DEF Undisturbed, Late
    <3>2. Undisturbed => NearRecord(heard)'
      BY <1>1, <1>2, <2>3 DEF Undisturbed, NearRecord, CloseTo
    <3> QED BY <1>1, <1>4, <1>5, <2>1, <3>1, <3>2 DEF Undisturbed, NearRecord, CloseTo
  <2> QED BY <1>1, <2>2, <2>3
<1>9. RecordFollows'
  BY <1>1, <1>4, <1>5, <1>8 DEF SignalsInv, RecordFollows, NearRecord, CloseTo
<1> QED BY <1>6, <1>7, <1>9 DEF SignalsInv

(* The generators keep the types of their variables; a filtered signal      *)
(* stays filtered until the model answers; and what was heard last is close *)
(* to what was recorded last, unless two comparisons overlapped.            *)
THEOREM SignalsInvariant == SignalsSpec => []SignalsInv
<1>1. SignalsInit => SignalsInv
  BY SignalsInitOK
<1>2. SignalsInv /\ [SignalsNext]_signalVars => SignalsInv'
  <2> SUFFICES ASSUME SignalsInv, [SignalsNext]_signalVars
               PROVE  SignalsInv'
    OBVIOUS
  <2>1. ASSUME NEW g \in Generators, NEW c \in Charts, StartsSingle(g, c)
        PROVE  SignalsInv'
    BY <2>1, SingleStartKeeps
  <2>2. ASSUME NEW g \in Engines, NEW c \in Charts,
               NEW frames \in {{}} \cup {{f} : f \in FilterCharts}, StartsFramed(g, c, frames)
        PROVE  SignalsInv'
    BY <2>2, FramedStartKeeps
  <2>3. ASSUME NEW g \in Generators, NEW llm \in Answers(making[g].technical), Compares(g, llm)
        PROVE  SignalsInv'
    BY <2>3, CompareKeeps
  <2>4. ASSUME NEW g \in Generators, PublishesSignal(g)
        PROVE  SignalsInv'
    BY <2>4, PublishKeeps
  <2>5. ASSUME NEW g \in Generators, RecordsSignal(g)
        PROVE  SignalsInv'
    BY <2>5, RecordKeeps
  <2>6. ASSUME NEW g \in Engines, LacksCandles(g)
        PROVE  SignalsInv'
    BY <2>6, LacksKeeps
  <2>7. ASSUME NEW g \in Engines, EnginePublishes(g) \/ EngineCancelled(g)
        PROVE  SignalsInv'
    BY <2>7, EndKeeps
  <2>8. CASE CandlesSuffice
    BY <2>8 DEF CandlesSuffice, SignalsInv, SignalsTypeOK, FilterKept, RecordFollows,
       Undisturbed, NearRecord, Late, OnItsWay, FilterObeyed, AgainstFilter, CloseTo
  <2>9. CASE UNCHANGED signalVars
    BY <2>9 DEF signalVars, SignalsInv, SignalsTypeOK, FilterKept, RecordFollows,
       Undisturbed, NearRecord, Late, OnItsWay, FilterObeyed, AgainstFilter, CloseTo
  <2> QED BY <2>1, <2>2, <2>3, <2>4, <2>5, <2>6, <2>7, <2>8, <2>9, Zenon DEF SignalsNext
<1> QED BY <1>1, <1>2, PTL DEF SignalsSpec

(* Subscribers stay within two thresholds of the newest signal, unless      *)
(* comparisons overlapped, however many charts and answers there are and    *)
(* whichever of the generators asks: HeardIsCurrent.                        *)
THEOREM SubscribersHearCurrent == SignalsSpec => []HeardIsCurrent
<1>1. SignalsInv => HeardIsCurrent
  <2> SUFFICES ASSUME SignalsInv, ~overlapped, recorded # NoSignal,
                      \A g \in Generators : making[g].phase \in {"idle", "asking"}
               PROVE  /\ heard.type = newest.signal.type
                      /\ heard.strength = newest.signal.strength
                      /\ AbsOf(heard.confidence - newest.signal.confidence) <= 400
    BY DEF HeardIsCurrent
  <2>1. CloseTo(heard, recorded) /\ CloseTo(newest.signal, recorded)
    BY DEF SignalsInv, RecordFollows, Undisturbed, NearRecord
  <2>2. heard.confidence \in Int /\ newest.signal.confidence \in Int /\ recorded.confidence \in Int
    BY SignalTypeOKAgain DEF SignalsInv, SignalRecord, Made
  <2> QED BY <2>1, <2>2 DEF CloseTo, AbsOf
<1> QED BY <1>1, SignalsInvariant, PTL

(* A signal against a confident filter comes from the model's strong        *)
(* recommendation only, in every signal that is returned.                   *)
THEOREM FilterYieldsToModelOnly == SignalsSpec => []AgainstFilterOnlyByModel
<1>1. SignalsInv => AgainstFilterOnlyByModel
  BY DEF SignalsInv, FilterKept, FilterObeyed, AgainstFilterOnlyByModel
<1> QED BY <1>1, SignalsInvariant, PTL

-----------------------------------------------------------------------------
(* Candles.                                                                *)
LEMMA CandlesBounds ==
    /\ Frames \subseteq Nat \ {0} /\ Primary \in Frames /\ CandlePrices \subseteq Nat \ {0}
    /\ MaxCandles \in Nat \ {0} /\ MinCandles \in Nat \ {0} /\ Loaded \in Nat \ {0}
BY CandlesAssumption

(* Times in order have the starts of their intervals in order.              *)
LEMMA StartOrder ==
    ASSUME NEW f \in Nat \ {0}, NEW u \in Nat, NEW v \in Nat, u <= v
    PROVE  Start(f, u) \in Nat /\ Start(f, v) \in Nat /\ Start(f, u) <= Start(f, v)
<1> DEFINE q == u \div f
           r == v \div f
<1>1. q \in Nat /\ q * f <= u /\ u < (q + 1) * f
  OBVIOUS
<1>2. r \in Nat /\ r * f <= v /\ v < (r + 1) * f
  OBVIOUS
<1> HIDE DEF q, r
<1>3. q <= r
  <2> SUFFICES ASSUME r + 1 <= q
               PROVE  FALSE
    BY <1>1, <1>2
  <2>1. (r + 1) * f <= q * f
    BY <1>1, <1>2
  <2>2. (r + 1) * f \in Nat /\ q * f \in Nat
    BY <1>1, <1>2
  <2> QED BY <1>1, <1>2, <2>1, <2>2
<1>4. q * f <= r * f /\ q * f \in Nat /\ r * f \in Nat
  BY <1>1, <1>2, <1>3
<1> QED BY <1>4 DEF Start, q, r

LEMMA StartIsNatural ==
    ASSUME NEW f \in Nat \ {0}, NEW u \in Nat
    PROVE  Start(f, u) \in Nat
BY StartOrder

LEMMA NewestKeeps ==
    ASSUME NEW s \in Seq(Candle)
    PROVE  /\ Newest(s) \in Seq(Candle) /\ Len(Newest(s)) <= MaxCandles
           /\ \A i \in DOMAIN Newest(s) : \E j \in DOMAIN s : Newest(s)[i] = s[j]
<1>1. MaxCandles \in Nat \ {0} /\ Len(s) \in Nat
  BY CandlesBounds
<1>2. CASE Len(s) > MaxCandles
  <2> DEFINE m == Len(s) - MaxCandles + 1
  <2>1. m \in 1 .. Len(s) + 1 /\ Len(s) \in m - 1 .. Len(s) /\ m \in Int
    BY <1>1, <1>2
  <2>2. /\ SubSeq(s, m, Len(s)) \in Seq(Candle)
        /\ Len(SubSeq(s, m, Len(s))) = Len(s) - m + 1
        /\ \A i \in 1 .. Len(s) - m + 1 : SubSeq(s, m, Len(s))[i] = s[m + i - 1]
    BY <1>1, <2>1, SubSeqProperties
  <2>3. Len(s) - m + 1 = MaxCandles
    BY <1>1
  <2>4. \A i \in 1 .. MaxCandles : m + i - 1 \in DOMAIN s
    BY <1>1, <2>1
  <2>5. Newest(s) = SubSeq(s, m, Len(s))
    BY <1>2 DEF Newest
  <2> HIDE DEF m
  <2>6. DOMAIN Newest(s) = 1 .. MaxCandles
    BY <2>2, <2>3, <2>5
  <2> QED BY <1>1, <2>2, <2>3, <2>4, <2>5, <2>6
<1>3. CASE ~(Len(s) > MaxCandles)
  BY <1>1, <1>3 DEF Newest
<1> QED BY <1>2, <1>3

(* Prices were accepted in the order of the clock; the candle that is open  *)
(* is the one of the last price; a completed candle made from prices is of  *)
(* an earlier interval, and its interval is over.                           *)
TicksInOrder ==
    /\ \A i \in DOMAIN told : told[i][1] <= time
    /\ \A i, j \in DOMAIN told : i <= j => told[i][1] <= told[j][1]

OpenIsLatest ==
    \A f \in Frames :
        /\ told = <<>> => current[f] = NoCandle
        /\ told # <<>> =>
             /\ current[f] # NoCandle /\ current[f].live
             /\ current[f].at = Start(f, told[Len(told)][1])
             /\ Agrees(current[f], f)

DoneAreOver ==
    \A f \in Frames : \A i \in DOMAIN done[f] : done[f][i].live =>
        told # <<>> /\ done[f][i].at < current[f].at /\ Agrees(done[f][i], f)

CandlesInv == CandlesTypeOK /\ TicksInOrder /\ OpenIsLatest /\ DoneAreOver

LEMMA CandlesInitOK ==
    ASSUME CandlesInit
    PROVE  CandlesInv
<1> USE DEF CandlesInit
<1>1. NoCandle \in Candle
  BY DEF NoCandle, Candle
<1>2. <<>> \in Seq(Candle) /\ <<>> \in Seq(Nat \X Nat)
  OBVIOUS
<1>3. CandlesTypeOK
  <2>1. done \in [Frames -> Seq(Candle)] /\ current \in [Frames -> Candle]
    BY <1>1, <1>2
  <2>2. \A f \in Frames : Len(done[f]) <= MaxCandles
    BY CandlesBounds
  <2>3. told \in Seq(Nat \X Nat) /\ time \in Nat /\ paused \in BOOLEAN
    BY <1>2
  <2>4. analysis \in [last : Int, initial : BOOLEAN]
    BY DEF Unknown
  <2>5. preload \in [Frames -> {"asked", "loaded", "failed"}]
    OBVIOUS
  <2> QED BY <2>1, <2>2, <2>3, <2>4, <2>5 DEF CandlesTypeOK
<1> QED BY <1>3 DEF CandlesInv, TicksInOrder, OpenIsLatest, DoneAreOver

(* One more price: which candles it belongs to.                             *)
LEMMA TicksGrow ==
    ASSUME told \in Seq(Nat \X Nat), NEW p, told' = Append(told, <<time, p>>), NEW f
    PROVE  /\ Len(told') = Len(told) + 1 /\ Len(told) \in Nat
           /\ DOMAIN told = 1 .. Len(told) /\ DOMAIN told' = 1 .. Len(told) + 1
           /\ \A i \in DOMAIN told : told'[i] = told[i]
           /\ told'[Len(told) + 1] = <<time, p>>
           /\ \A at : TicksOf(f, at)' = TicksOf(f, at) \cup
                        IF Start(f, time) = at THEN {Len(told) + 1} ELSE {}
<1>1. /\ Len(told') = Len(told) + 1 /\ Len(told) \in Nat
      /\ DOMAIN told = 1 .. Len(told) /\ DOMAIN told' = 1 .. Len(told) + 1
      /\ \A i \in DOMAIN told : told'[i] = told[i]
      /\ told'[Len(told) + 1] = <<time, p>>
  OBVIOUS
<1>2. DOMAIN told' = DOMAIN told \cup {Len(told) + 1}
  BY <1>1
<1>3. ASSUME NEW at
      PROVE  TicksOf(f, at)' = TicksOf(f, at) \cup
                 IF Start(f, time) = at THEN {Len(told) + 1} ELSE {}
  BY <1>1, <1>2 DEF TicksOf, Start
<1> QED BY <1>1, <1>3

(* A candle that the new price does not belong to still agrees.             *)
LEMMA AgreementStays ==
    ASSUME told \in Seq(Nat \X Nat), NEW p, told' = Append(told, <<time, p>>),
           NEW f, NEW k, Agrees(k, f), Start(f, time) # k.at
    PROVE  Agrees(k, f)'
<1> DEFINE ticks == TicksOf(f, k.at)
<1>1. TicksOf(f, k.at)' = ticks
  <2>1. TicksOf(f, k.at)' = ticks \cup IF Start(f, time) = k.at THEN {Len(told) + 1} ELSE {}
    BY TicksGrow
  <2> QED BY <2>1
<1>2. \A i \in ticks : told'[i] = told[i]
  BY TicksGrow DEF TicksOf
<1>3. /\ \E i \in ticks : k.open = told[i][2] /\ \A j \in ticks : i <= j
      /\ \E i \in ticks : k.close = told[i][2] /\ \A j \in ticks : j <= i
      /\ \E i \in ticks : k.high = told[i][2] /\ \A j \in ticks : told[j][2] <= k.high
      /\ \E i \in ticks : k.low = told[i][2] /\ \A j \in ticks : k.low <= told[j][2]
  BY DEF Agrees
<1> HIDE DEF ticks
<1>4. /\ \E i \in ticks : k.open = told'[i][2] /\ \A j \in ticks : i <= j
      /\ \E i \in ticks : k.close = told'[i][2] /\ \A j \in ticks : j <= i
      /\ \E i \in ticks : k.high = told'[i][2] /\ \A j \in ticks : told'[j][2] <= k.high
      /\ \E i \in ticks : k.low = told'[i][2] /\ \A j \in ticks : k.low <= told'[j][2]
  BY <1>2, <1>3
<1> QED BY <1>1, <1>4, Zenon DEF Agrees

(* The first price of an interval makes its candle.                         *)
LEMMA OpenedAgrees ==
    ASSUME told \in Seq(Nat \X Nat), NEW p \in Nat, told' = Append(told, <<time, p>>),
           NEW f, \A i \in DOMAIN told : Start(f, told[i][1]) # Start(f, time),
           NEW k, k = Opened(f, p)
    PROVE  Agrees(k, f)'
<1>1. k.at = Start(f, time) /\ k.open = p /\ k.high = p /\ k.low = p /\ k.close = p
  BY DEF Opened
<1>2. TicksOf(f, k.at) = {}
  BY <1>1 DEF TicksOf
<1>3. TicksOf(f, k.at)' = {Len(told) + 1} /\ told'[Len(told) + 1][2] = p /\ Len(told) \in Nat
  BY <1>1, <1>2, TicksGrow
<1> QED BY <1>1, <1>3 DEF Agrees

(* The extremes of a set of prices when one more comes.                     *)
LEMMA HighestExtends ==
    ASSUME NEW T, NEW v, NEW last, \A j \in T \cup {last} : v[j] \in Nat,
           NEW h \in Nat, \E i \in T : h = v[i] /\ \A j \in T : v[j] <= h,
           NEW n, n = IF v[last] > h THEN v[last] ELSE h
    PROVE  \E i \in T \cup {last} : n = v[i] /\ \A j \in T \cup {last} : v[j] <= n
<1>1. CASE v[last] > h
  BY <1>1
<1>2. CASE ~(v[last] > h)
  BY <1>2
<1> QED BY <1>1, <1>2

LEMMA LowestExtends ==
    ASSUME NEW T, NEW v, NEW last, \A j \in T \cup {last} : v[j] \in Nat,
           NEW h \in Nat, \E i \in T : h = v[i] /\ \A j \in T : h <= v[j],
           NEW n, n = IF v[last] < h THEN v[last] ELSE h
    PROVE  \E i \in T \cup {last} : n = v[i] /\ \A j \in T \cup {last} : n <= v[j]
<1>1. CASE v[last] < h
  BY <1>1
<1>2. CASE ~(v[last] < h)
  BY <1>2
<1> QED BY <1>1, <1>2

(* A later price of the interval extends its candle.                        *)
LEMMA ExtendedAgrees ==
    ASSUME told \in Seq(Nat \X Nat), NEW p \in Nat, told' = Append(told, <<time, p>>),
           NEW f, NEW k \in Candle, Agrees(k, f), k.at = Start(f, time),
           NEW n, n = Extended(k, p)
    PROVE  Agrees(n, f)'
<1> DEFINE last == Len(told) + 1
           ticks == TicksOf(f, k.at)
           all == ticks \cup {last}
           v == [i \in all |-> told'[i][2]]
<1>1. /\ n.at = k.at /\ n.open = k.open /\ n.close = p
      /\ n.high = IF p > k.high THEN p ELSE k.high
      /\ n.low = IF p < k.low THEN p ELSE k.low
      /\ k.high \in Nat /\ k.low \in Nat
  BY DEF Extended, Candle
<1>2. TicksOf(f, n.at)' = all
  BY <1>1, TicksGrow
<1>3. /\ \A i \in ticks : i \in Nat /\ i < last /\ told'[i] = told[i] /\ told[i][2] \in Nat
      /\ last \in Nat /\ told'[last][2] = p
  <2>1. told'[last][2] = p /\ last \in Nat
    BY TicksGrow
  <2>2. \A i \in ticks : i \in 1 .. Len(told) /\ told'[i] = told[i]
    BY TicksGrow DEF TicksOf
  <2>3. \A i \in 1 .. Len(told) : told[i] \in Nat \X Nat
    OBVIOUS
  <2>4. Len(told) \in Nat
    OBVIOUS
  <2> QED BY <2>1, <2>2, <2>3, <2>4
<1>4. /\ \E i \in ticks : k.open = told[i][2] /\ \A j \in ticks : i <= j
      /\ \E i \in ticks : k.high = told[i][2] /\ \A j \in ticks : told[j][2] <= k.high
      /\ \E i \in ticks : k.low = told[i][2] /\ \A j \in ticks : k.low <= told[j][2]
  BY DEF Agrees
<1>5. /\ \A i \in all : v[i] = told'[i][2] /\ v[i] \in Nat
      /\ \A i \in ticks : v[i] = told[i][2]
      /\ v[last] = p
  BY <1>3
<1> HIDE DEF ticks, last, v
<1>6. \E i \in all : n.open = v[i] /\ \A j \in all : i <= j
  <2>1. PICK i \in ticks : k.open = told[i][2] /\ \A j \in ticks : i <= j
    BY <1>4
  <2>2. n.open = v[i] /\ i \in all
    BY <1>1, <1>5, <2>1
  <2>3. \A j \in all : i <= j
    BY <1>3, <2>1
  <2> QED BY <2>2, <2>3
<1>7. \E i \in all : n.close = v[i] /\ \A j \in all : j <= i
  <2>1. n.close = v[last] /\ last \in all
    BY <1>1, <1>5
  <2>2. \A j \in all : j <= last
    BY <1>3
  <2> QED BY <2>1, <2>2
<1>8. \E i \in all : n.high = v[i] /\ \A j \in all : v[j] <= n.high
  <2>1. \E i \in ticks : k.high = v[i] /\ \A j \in ticks : v[j] <= k.high
    BY <1>4, <1>5
  <2> QED BY <1>1, <1>5, <2>1, HighestExtends
<1>9. \E i \in all : n.low = v[i] /\ \A j \in all : n.low <= v[j]
  <2>1. \E i \in ticks : k.low = v[i] /\ \A j \in ticks : k.low <= v[j]
    BY <1>4, <1>5
  <2> QED BY <1>1, <1>5, <2>1, LowestExtends
<1> HIDE DEF all
<1>10. /\ \E i \in all : n.open = told'[i][2] /\ \A j \in all : i <= j
       /\ \E i \in all : n.close = told'[i][2] /\ \A j \in all : j <= i
       /\ \E i \in all : n.high = told'[i][2] /\ \A j \in all : told'[j][2] <= n.high
       /\ \E i \in all : n.low = told'[i][2] /\ \A j \in all : n.low <= told'[j][2]
  <2>1. \A i \in all : v[i] = told'[i][2]
    BY <1>5
  <2> QED BY <1>6, <1>7, <1>8, <1>9, <2>1
<1> QED BY <1>2, <1>10, Zenon DEF Agrees

(* In every timeframe the interval of the new price is that of the open     *)
(* candle, or a later one.                                                  *)
LEMMA IntervalOfPrice ==
    ASSUME CandlesInv, NEW f \in Frames, told # <<>>
    PROVE  /\ current[f].at <= Start(f, time) /\ Start(f, time) \in Nat /\ current[f].at \in Nat
           /\ \A i \in DOMAIN told : Start(f, told[i][1]) <= current[f].at
                                       /\ Start(f, told[i][1]) \in Nat
<1>1. told \in Seq(Nat \X Nat) /\ time \in Nat /\ f \in Nat \ {0}
  BY CandlesBounds DEF CandlesInv, CandlesTypeOK
<1>2. Len(told) \in DOMAIN told /\ \A i \in DOMAIN told : i <= Len(told)
  BY <1>1
<1>3. \A i \in DOMAIN told : told[i][1] \in Nat
  <2>1. \A i \in DOMAIN told : told[i] \in Nat \X Nat
    BY <1>1
  <2> QED BY <2>1
<1>4. \A i \in DOMAIN told : told[i][1] <= time /\ told[i][1] <= told[Len(told)][1]
  BY <1>2 DEF CandlesInv, TicksInOrder
<1>5. current[f].at = Start(f, told[Len(told)][1])
  BY DEF CandlesInv, OpenIsLatest
<1> QED BY <1>1, <1>2, <1>3, <1>4, <1>5, StartOrder

LEMMA NoPriceNoCandle ==
    ASSUME CandlesInv, NEW f \in Frames, told = <<>>
    PROVE  ~Continues(f) /\ ~Completes(f) /\ current[f] = NoCandle
<1>1. current[f] = NoCandle /\ current[f].at = -1
  BY DEF CandlesInv, OpenIsLatest, NoCandle
<1>2. Start(f, time) \in Nat
  <2>1. f \in Nat \ {0} /\ time \in Nat
    BY CandlesBounds DEF CandlesInv, CandlesTypeOK
  <2> QED BY <2>1, StartIsNatural
<1> QED BY <1>1, <1>2 DEF Continues, Completes

LEMMA PriceTypes ==
    ASSUME CandlesInv, NEW p \in CandlePrices, AcceptPrice(p)
    PROVE  CandlesTypeOK'
<1>1. p \in Nat
  BY CandlesBounds
<1>2. CandlesTypeOK
  BY DEF CandlesInv
<1>3. told' \in Seq(Nat \X Nat)
  BY <1>1, <1>2, AppendProperties DEF AcceptPrice, CandlesTypeOK
<1>4. current' \in [Frames -> Candle]
  <2>1. ASSUME NEW f \in Frames
        PROVE  (IF Continues(f) THEN Extended(current[f], p) ELSE Opened(f, p)) \in Candle
    <3>1. Start(f, time) \in Nat
      <4>1. f \in Nat \ {0} /\ time \in Nat
        BY <1>2, CandlesBounds DEF CandlesTypeOK
      <4> QED BY <4>1, StartIsNatural
    <3>2. Opened(f, p) \in Candle
      BY <1>1, <3>1 DEF Opened, Candle
    <3>3. Extended(current[f], p) \in Candle
      <4>1. current[f] \in Candle
        BY <1>2 DEF CandlesTypeOK
      <4>2. Extended(current[f], p) =
              [current[f] EXCEPT !.close = p,
                                 !.high = IF p > current[f].high THEN p ELSE current[f].high,
                                 !.low = IF p < current[f].low THEN p ELSE current[f].low]
        BY <4>1 DEF Extended, Candle
      <4> QED BY <1>1, <4>1, <4>2 DEF Candle
    <3> QED BY <3>2, <3>3
  <2> QED BY <2>1 DEF AcceptPrice, AddPrice
<1>5. done' \in [Frames -> Seq(Candle)] /\ \A f \in Frames : Len(done'[f]) <= MaxCandles
  <2>1. ASSUME NEW f \in Frames
        PROVE  LET d == IF Completes(f) THEN Newest(Append(done[f], current[f])) ELSE done[f]
               IN  d \in Seq(Candle) /\ Len(d) <= MaxCandles
    <3>1. Append(done[f], current[f]) \in Seq(Candle)
      BY <1>2, AppendProperties DEF CandlesTypeOK
    <3> QED BY <1>2, <3>1, NewestKeeps DEF CandlesTypeOK
  <2>2. done' = [f \in Frames |->
                   IF Completes(f) THEN Newest(Append(done[f], current[f])) ELSE done[f]]
    BY DEF AcceptPrice, AddPrice
  <2> QED BY <2>1, <2>2
<1>6. analysis' \in [last : Int, initial : BOOLEAN]
  <2>1. analysis' = analysis \/ analysis' = [analysis EXCEPT !.last = time]
    BY DEF AcceptPrice
  <2>2. analysis \in [last : Int, initial : BOOLEAN] /\ time \in Int
    BY <1>2 DEF CandlesTypeOK
  <2>3. [analysis EXCEPT !.last = time] \in [last : Int, initial : BOOLEAN]
    BY <2>2
  <2> QED BY <2>1, <2>2, <2>3
<1>7. UNCHANGED <<time, preload, paused>>
  BY DEF AcceptPrice
<1> QED BY <1>2, <1>3, <1>4, <1>5, <1>6, <1>7 DEF CandlesTypeOK

(* The open candle after a price.                                           *)
LEMMA PriceOpens ==
    ASSUME CandlesInv, NEW p \in CandlePrices, AcceptPrice(p), NEW f \in Frames
    PROVE  /\ current'[f].at = Start(f, time) /\ current'[f].live
           /\ current'[f] # NoCandle /\ Agrees(current[f], f)'
<1>1. p \in Nat /\ time \in Nat
  BY CandlesBounds DEF CandlesInv, CandlesTypeOK
<1>2. told \in Seq(Nat \X Nat) /\ told' = Append(told, <<time, p>>) /\ current[f] \in Candle
  BY DEF AcceptPrice, CandlesInv, CandlesTypeOK
<1>3. current'[f] = IF Continues(f) THEN Extended(current[f], p) ELSE Opened(f, p)
  BY DEF AcceptPrice, AddPrice
<1>4. CASE Continues(f)
  <2>1. told # <<>>
    BY <1>4, NoPriceNoCandle
  <2>2. current[f].live /\ Agrees(current[f], f) /\ current[f].at = Start(f, time)
    BY <1>4, <2>1 DEF CandlesInv, OpenIsLatest, Continues
  <2>3. current'[f] = Extended(current[f], p)
    BY <1>3, <1>4
  <2>4. current'[f].at = Start(f, time) /\ current'[f].live
    BY <1>2, <2>2, <2>3 DEF Extended, Candle
  <2>5. Agrees(current[f], f)'
    BY <1>1, <1>2, <2>2, <2>3, ExtendedAgrees
  <2>6. current'[f] # NoCandle
    BY <2>4 DEF NoCandle
  <2> QED BY <2>4, <2>5, <2>6
<1>5. CASE ~Continues(f)
  <2>1. current'[f] = Opened(f, p)
    BY <1>3, <1>5
  <2>2. \A i \in DOMAIN told : Start(f, told[i][1]) # Start(f, time)
    <3>1. CASE told = <<>>
      BY <3>1
    <3>2. CASE told # <<>>
      BY <1>5, <3>2, IntervalOfPrice DEF Continues
    <3> QED BY <3>1, <3>2
  <2>3. Agrees(current[f], f)'
    BY <1>1, <1>2, <2>1, <2>2, OpenedAgrees
  <2>4. current'[f].at = Start(f, time) /\ current'[f].live
    BY <2>1 DEF Opened
  <2>5. current'[f] # NoCandle
    BY <2>4 DEF NoCandle
  <2> QED BY <2>3, <2>4, <2>5
<1> QED BY <1>4, <1>5

(* The completed candles after a price.                                     *)
LEMMA PriceCompletes ==
    ASSUME CandlesInv, NEW p \in CandlePrices, AcceptPrice(p), NEW f \in Frames,
           NEW i \in DOMAIN done'[f], done'[f][i].live
    PROVE  done'[f][i].at < current'[f].at /\ Agrees(done[f][i], f)'
<1>1. /\ told \in Seq(Nat \X Nat) /\ told' = Append(told, <<time, p>>) /\ current[f] \in Candle
      /\ done[f] \in Seq(Candle)
  BY DEF AcceptPrice, CandlesInv, CandlesTypeOK
<1>2. done'[f] = IF Completes(f) THEN Newest(Append(done[f], current[f])) ELSE done[f]
  BY DEF AcceptPrice, AddPrice
<1>3. current'[f].at = Start(f, time)
  BY PriceOpens
<1>4. ASSUME NEW j \in DOMAIN done[f], done'[f][i] = done[f][j]
      PROVE  done'[f][i].at < current'[f].at /\ Agrees(done[f][i], f)'
  <2>1. told # <<>> /\ done[f][j].at < current[f].at /\ Agrees(done[f][j], f)
    BY <1>4 DEF CandlesInv, DoneAreOver
  <2>2. done[f][j].at \in Int
    <3>1. done[f][j] \in Candle
      BY <1>1
    <3> QED BY <3>1 DEF Candle
  <2>3. done[f][j].at < Start(f, time) /\ done[f][j].at # Start(f, time)
    BY <2>1, <2>2, IntervalOfPrice
  <2>4. Agrees(done[f][i], f)'
    <3>1. ASSUME NEW m, m = done[f][j]
          PROVE  Agrees(m, f)'
      BY <1>1, <2>1, <2>3, <3>1, AgreementStays
    <3> QED BY <1>4, <3>1
  <2> QED BY <1>3, <1>4, <2>3, <2>4
<1>5. ASSUME Completes(f), done'[f][i] = current[f]
      PROVE  done'[f][i].at < current'[f].at /\ Agrees(done[f][i], f)'
  <2>1. told # <<>> /\ current[f].at # Start(f, time)
    BY <1>5, NoPriceNoCandle DEF Completes, Continues
  <2>2. current[f].at < Start(f, time)
    BY <2>1, IntervalOfPrice
  <2>3. Agrees(current[f], f)
    BY <2>1 DEF CandlesInv, OpenIsLatest
  <2>4. Agrees(done[f][i], f)'
    <3>1. ASSUME NEW m, m = current[f]
          PROVE  Agrees(m, f)'
      BY <1>1, <2>1, <2>3, <3>1, AgreementStays
    <3> QED BY <1>5, <3>1
  <2> QED BY <1>3, <1>5, <2>2, <2>4
<1>6. CASE ~Completes(f)
  BY <1>2, <1>4, <1>6
<1>7. CASE Completes(f)
  <2> DEFINE s == Append(done[f], current[f])
  <2>1. s \in Seq(Candle) /\ done'[f] = Newest(s)
    BY <1>1, <1>2, <1>7, AppendProperties
  <2>2. \E j \in DOMAIN s : done'[f][i] = s[j]
    BY <2>1, NewestKeeps
  <2>3. \A j \in DOMAIN s : s[j] = current[f] \/ (j \in DOMAIN done[f] /\ s[j] = done[f][j])
    BY <1>1, AppendProperties
  <2> QED BY <1>4, <1>5, <1>7, <2>2, <2>3
<1> QED BY <1>6, <1>7

LEMMA PriceKeeps ==
    ASSUME CandlesInv, NEW p \in CandlePrices, AcceptPrice(p)
    PROVE  CandlesInv'
<1>1. told \in Seq(Nat \X Nat) /\ told' = Append(told, <<time, p>>) /\ time' = time /\ time \in Nat
  BY DEF AcceptPrice, CandlesInv, CandlesTypeOK
<1>2. /\ Len(told') = Len(told) + 1 /\ Len(told) \in Nat
      /\ DOMAIN told = 1 .. Len(told) /\ DOMAIN told' = 1 .. Len(told) + 1
      /\ \A i \in DOMAIN told : told'[i] = told[i]
      /\ told'[Len(told) + 1] = <<time, p>>
  BY <1>1, TicksGrow
<1>3. TicksInOrder'
  <2>1. \A i \in DOMAIN told' : i \in DOMAIN told \/ i = Len(told) + 1
    BY <1>2
  <2>2. /\ \A i \in DOMAIN told : told[i][1] <= time
        /\ \A i, j \in DOMAIN told : i <= j => told[i][1] <= told[j][1]
    BY DEF CandlesInv, TicksInOrder
  <2>3. ASSUME NEW i \in DOMAIN told', NEW j \in DOMAIN told', i <= j
        PROVE  told'[i][1] <= told'[j][1]
    <3>1. CASE j = Len(told) + 1
      BY <1>1, <1>2, <2>1, <2>2, <3>1
    <3>2. CASE j \in DOMAIN told
      <4>1. i \in DOMAIN told
        BY <1>2, <2>3, <3>2
      <4> QED BY <1>2, <2>2, <2>3, <3>2, <4>1
    <3> QED BY <2>1, <3>1, <3>2
  <2>4. ASSUME NEW i \in DOMAIN told'
        PROVE  told'[i][1] <= time'
    BY <1>1, <1>2, <2>1, <2>2
  <2> QED BY <2>3, <2>4 DEF TicksInOrder
<1>4. told' # <<>> /\ told'[Len(told')][1] = time
  BY <1>2
<1>5. OpenIsLatest'
  BY <1>4, PriceOpens DEF OpenIsLatest, Start
<1>6. DoneAreOver'
  BY <1>4, PriceCompletes DEF DoneAreOver
<1> QED BY <1>3, <1>5, <1>6, PriceTypes DEF CandlesInv

(* The preload adds candles that are not made from prices.                  *)
LEMMA PreloadKeeps ==
    ASSUME CandlesInv, NEW f \in Frames, PreloadAnswers(f)
    PROVE  CandlesInv'
<1>1. /\ done' = [done EXCEPT ![f] = Newest(done[f] \o Past(f))]
      /\ preload' = [preload EXCEPT ![f] = "loaded"]
      /\ UNCHANGED <<time, current, analysis, paused, told>>
  BY DEF PreloadAnswers
<1>2. CandlesTypeOK
  BY DEF CandlesInv
<1>3. Past(f) \in Seq(Candle) /\ \A i \in DOMAIN Past(f) : ~Past(f)[i].live
  <2>1. Loaded \in Nat /\ f \in Nat \ {0}
    BY CandlesBounds
  <2>2. Start(f, time) \in Nat
    BY <1>2, <2>1, StartIsNatural DEF CandlesTypeOK
  <2> DEFINE past(i) == [NoCandle EXCEPT !.at = Start(f, time) - (Loaded - i) * f, !.open = 1,
                                         !.high = 1, !.low = 1, !.close = 1]
  <2>3. ASSUME NEW i \in 1 .. Loaded
        PROVE  past(i) \in Candle /\ ~past(i).live
    <3>1. (Loaded - i) * f \in Int
      BY <2>1
    <3>2. Start(f, time) - (Loaded - i) * f \in Int
      BY <2>2, <3>1
    <3> QED BY <3>2 DEF NoCandle, Candle
  <2>4. Past(f) = [i \in 1 .. Loaded |-> past(i)]
    BY DEF Past
  <2> HIDE DEF past
  <2> QED BY <2>1, <2>3, <2>4
<1> DEFINE s == done[f] \o Past(f)
<1>4. /\ s \in Seq(Candle)
      /\ \A i \in DOMAIN s : s[i].live => \E j \in DOMAIN done[f] : s[i] = done[f][j]
  <2>1. done[f] \in Seq(Candle)
    BY <1>2 DEF CandlesTypeOK
  <2> QED BY <1>3, <2>1, ConcatProperties
<1> HIDE DEF s
<1>5. /\ Newest(s) \in Seq(Candle) /\ Len(Newest(s)) <= MaxCandles
      /\ \A i \in DOMAIN Newest(s) : \E j \in DOMAIN s : Newest(s)[i] = s[j]
  BY <1>4, NewestKeeps
<1>6. done'[f] = Newest(s) /\ \A g \in Frames : g # f => done'[g] = done[g]
  BY <1>1, <1>2 DEF CandlesTypeOK, s
<1>7. CandlesTypeOK'
  BY <1>1, <1>2, <1>5, <1>6 DEF CandlesTypeOK, s
<1>8. DoneAreOver'
  <2>1. ASSUME NEW g \in Frames, NEW i \in DOMAIN done'[g], done'[g][i].live
        PROVE  \E j \in DOMAIN done[g] : done'[g][i] = done[g][j]
    <3>1. CASE g = f
      <4>1. done'[g] = Newest(s)
        BY <1>6, <3>1
      <4>2. PICK j \in DOMAIN s : done'[g][i] = s[j]
        BY <1>5, <2>1, <4>1
      <4> QED BY <1>4, <2>1, <3>1, <4>2
    <3>2. CASE g # f
      BY <1>6, <2>1, <3>2
    <3> QED BY <3>1, <3>2
  <2>2. ASSUME NEW g \in Frames, NEW i \in DOMAIN done'[g], done'[g][i].live
        PROVE  /\ told' # <<>> /\ done'[g][i].at < current'[g].at
               /\ Agrees(done[g][i], g)'
    <3>1. PICK j \in DOMAIN done[g] : done'[g][i] = done[g][j]
      BY <2>1, <2>2
    <3>2. told # <<>> /\ done[g][j].at < current[g].at /\ Agrees(done[g][j], g)
      BY <2>2, <3>1 DEF CandlesInv, DoneAreOver
    <3> QED BY <1>1, <3>1, <3>2 DEF Agrees, TicksOf
  <2> QED BY <2>2 DEF DoneAreOver
<1>9. TicksInOrder' /\ OpenIsLatest'
  <2>1. TicksInOrder /\ OpenIsLatest /\ UNCHANGED <<time, current, told>>
    BY <1>1 DEF CandlesInv
  <2>2. ASSUME NEW g \in Frames
        PROVE  Agrees(current[g], g)' <=> Agrees(current[g], g)
    <3>1. told' = told /\ current'[g] = current[g]
      BY <2>1
    <3>2. TicksOf(g, current[g].at)' = TicksOf(g, current[g].at)
      BY <3>1 DEF TicksOf
    <3> QED BY <3>1, <3>2 DEF Agrees
  <2>3. TicksInOrder'
    BY <2>1 DEF TicksInOrder
  <2>4. OpenIsLatest'
    BY <2>1, <2>2 DEF OpenIsLatest
  <2> QED BY <2>3, <2>4
<1> QED BY <1>7, <1>8, <1>9 DEF CandlesInv

LEMMA OtherCandleSteps ==
    ASSUME CandlesInv,
           \/ \E f \in Frames : PreloadFails(f)
           \/ PausesOrResumes \/ InitialAnalysis \/ TimeGoesOn
    PROVE  CandlesInv'
<1>1. CandlesTypeOK
  BY DEF CandlesInv
<1>2. UNCHANGED <<done, current, told>> /\ (time' = time \/ time' = time + 1)
  BY DEF PreloadFails, PausesOrResumes, InitialAnalysis, TimeGoesOn
<1>3. CandlesTypeOK'
  <2>1. ASSUME NEW f \in Frames, PreloadFails(f)
        PROVE  CandlesTypeOK'
    BY <1>1, <2>1 DEF PreloadFails, CandlesTypeOK
  <2>2. CASE PausesOrResumes
    BY <1>1, <2>2 DEF PausesOrResumes, CandlesTypeOK
  <2>3. CASE InitialAnalysis
    <3>1. analysis' \in [last : Int, initial : BOOLEAN]
      <4>1. \E u \in {time, analysis.last} : analysis' = [last |-> u, initial |-> TRUE]
        BY <2>3 DEF InitialAnalysis
      <4>2. time \in Int /\ analysis.last \in Int
        BY <1>1 DEF CandlesTypeOK
      <4> QED BY <4>1, <4>2
    <3> QED BY <1>1, <2>3, <3>1 DEF InitialAnalysis, CandlesTypeOK
  <2>4. CASE TimeGoesOn
    BY <1>1, <2>4 DEF TimeGoesOn, CandlesTypeOK
  <2> QED BY <2>1, <2>2, <2>3, <2>4
<1>4. TicksInOrder'
  <2>1. \A i \in DOMAIN told : told[i][1] \in Nat
    <3>1. \A i \in DOMAIN told : told[i] \in Nat \X Nat
      BY <1>1 DEF CandlesTypeOK
    <3> QED BY <3>1
  <2>2. time \in Nat
    BY <1>1 DEF CandlesTypeOK
  <2> QED BY <1>2, <2>1, <2>2 DEF CandlesInv, TicksInOrder
<1>5. OpenIsLatest' /\ DoneAreOver'
  BY <1>2 DEF CandlesInv, OpenIsLatest, DoneAreOver, Agrees, TicksOf, Start
<1> QED BY <1>3, <1>4, <1>5 DEF CandlesInv

LEMMA CandlesInvariant == CandlesSpec => []CandlesInv
<1>1. CandlesInit => CandlesInv
  BY CandlesInitOK
<1>2. CandlesInv /\ [CandlesNext]_candleVars => CandlesInv'
  <2> SUFFICES ASSUME CandlesInv, [CandlesNext]_candleVars
               PROVE  CandlesInv'
    OBVIOUS
  <2>1. CASE UNCHANGED candleVars
    BY <2>1 DEF candleVars, CandlesInv, CandlesTypeOK, TicksInOrder, OpenIsLatest, DoneAreOver,
       Agrees, TicksOf, Start
  <2> QED BY <2>1, PriceKeeps, PreloadKeeps, OtherCandleSteps DEF CandlesNext
<1> QED BY <1>1, <1>2, PTL DEF CandlesSpec

(* In every timeframe, a candle made from prices tells the truth about the  *)
(* prices of its interval, whatever the preload adds meanwhile.             *)
THEOREM CandlesTellPrices == CandlesSpec => []CandlesFromTicks
<1>1. CandlesInv => CandlesFromTicks
  BY DEF CandlesInv, OpenIsLatest, DoneAreOver, CandlesFromTicks
<1> QED BY <1>1, CandlesInvariant, PTL

-----------------------------------------------------------------------------
DispatchFields == {"busy", "event", "left", "answers"}
DispatchOK(d) ==
    DOMAIN d = DispatchFields /\ d.busy \in BOOLEAN /\ d.event \in 0 .. MaxEvents

(* A stream that is not connected has nothing to send.                      *)
OutboundTypes ==
    /\ waiting \in Seq(BOOLEAN)
    /\ DOMAIN dispatches = {"bus", "direct"}
    /\ \A d \in {"bus", "direct"} : DispatchOK(dispatches[d])
    /\ \A c \in Clients : ~streams[c].open => streams[c].queue = <<>>

LEMMA ClosedStreams ==
    ASSUME StreamsInv, OutboundTypes, [OutboundNext]_outboundVars
    PROVE  \A c \in Clients : ~streams'[c].open => streams'[c].queue = <<>>
<1>1. streams \in [Clients -> StreamState]
  BY DEF StreamsInv
<1>2. ASSUME NEW c \in Clients, Connects(c) \/ TakesEvent(c) \/ SendsEvent(c) \/ SendFails(c),
             NEW e \in Clients, ~streams'[e].open
      PROVE  streams'[e].queue = <<>>
  <2>1. PICK m : streams' = [streams EXCEPT ![c] = m] /\ (~m.open => m.queue = <<>>)
    <3>1. CASE Connects(c)
      <4>1. LET m == [Disconnected EXCEPT !.open = TRUE, !.taken = dispatched] IN m.open
        BY DEF Disconnected
      <4> QED BY <3>1, <4>1 DEF Connects
    <3>2. CASE TakesEvent(c)
      <4> DEFINE m == [streams[c] EXCEPT !.taken = Head(streams[c].queue),
                                        !.queue = Tail(streams[c].queue), !.sending = TRUE]
      <4>1. streams[c] \in StreamState /\ streams[c].open
        BY <1>1, <3>2 DEF TakesEvent
      <4>2. m.open
        BY <4>1 DEF StreamState
      <4>3. streams' = [streams EXCEPT ![c] = m]
        BY <1>1, <3>2 DEF TakesEvent, StreamState
      <4> QED BY <4>2, <4>3
    <3>3. CASE SendsEvent(c)
      <4> DEFINE m == [streams[c] EXCEPT !.sending = FALSE]
      <4>1. streams[c] \in StreamState /\ (~streams[c].open => streams[c].queue = <<>>)
        BY <1>1 DEF OutboundTypes
      <4>2. m.open = streams[c].open /\ m.queue = streams[c].queue
        BY <4>1 DEF StreamState
      <4>3. streams' = [streams EXCEPT ![c] = m]
        BY <1>1, <3>3 DEF SendsEvent, StreamState
      <4> QED BY <4>1, <4>2, <4>3
    <3>4. CASE SendFails(c)
      <4>1. Disconnected.queue = <<>>
        BY DEF Disconnected
      <4> QED BY <3>4, <4>1 DEF SendFails
    <3> QED BY <1>2, <3>1, <3>2, <3>3, <3>4
  <2>2. streams'[e] = IF e = c THEN m ELSE streams[e]
    BY <1>1, <2>1
  <2> QED BY <1>2, <2>1, <2>2 DEF OutboundTypes
<1>3. ASSUME NEW d \in {"bus", "direct"}, NEW b, Dispatches(d, b), NEW e \in Clients, ~streams'[e].open
      PROVE  streams'[e].queue = <<>>
  <2>1. streams'[e] = IF streams[e].open
                      THEN [streams[e] EXCEPT !.queue = Enqueued(streams[e].queue, dispatched')]
                      ELSE streams[e]
    BY <1>3 DEF Dispatches
  <2>2. streams[e] \in StreamState
    BY <1>1
  <2>3. ~streams[e].open
    BY <1>3, <2>1, <2>2 DEF StreamState
  <2> QED BY <2>1, <2>3 DEF OutboundTypes
<1>4. CASE UNCHANGED streams
  BY <1>4 DEF OutboundTypes
<1> QED
  BY <1>2, <1>3, <1>4, Zenon
  DEF OutboundNext, outboundVars, PublishesEvent, ServiceAnswers, DispatchEnds, BusDispatches,
      DirectDispatches

LEMMA WaitingTypes ==
    ASSUME OutboundTypes, [OutboundNext]_outboundVars
    PROVE  waiting' \in Seq(BOOLEAN)
<1>1. ASSUME NEW n \in BOOLEAN, PublishesEvent(n) PROVE waiting' \in Seq(BOOLEAN)
  BY <1>1, AppendProperties DEF PublishesEvent, OutboundTypes
<1>2. CASE BusDispatches
  BY <1>2, HeadTailProperties DEF BusDispatches, OutboundTypes
<1>3. CASE UNCHANGED waiting
  BY <1>3 DEF OutboundTypes
<1> QED
  BY <1>1, <1>2, <1>3, Zenon
  DEF OutboundNext, outboundVars, Connects, TakesEvent, SendsEvent, SendFails, ServiceAnswers,
      DispatchEnds, DirectDispatches

LEMMA DispatchTypes ==
    ASSUME StreamsInv, OutboundTypes, [OutboundNext]_outboundVars
    PROVE  /\ DOMAIN dispatches' = {"bus", "direct"}
           /\ \A d \in {"bus", "direct"} : DispatchOK(dispatches'[d])
<1>1. SUFFICES ASSUME NEW d \in {"bus", "direct"}, NEW k, DispatchOK(k),
                      dispatches' = [dispatches EXCEPT ![d] = k]
               PROVE  /\ DOMAIN dispatches' = {"bus", "direct"}
                      /\ \A e \in {"bus", "direct"} : DispatchOK(dispatches'[e])
  <2>1. ASSUME NEW d \in {"bus", "direct"}, NEW b, Dispatches(d, b)
        PROVE  \E k : DispatchOK(k) /\ dispatches' = [dispatches EXCEPT ![d] = k]
    <3> DEFINE k == [busy |-> TRUE, event |-> dispatched', left |-> Asks(b), answers |-> <<>>]
    <3>1. dispatched' \in 0 .. MaxEvents
      BY <2>1, OutboundBounds DEF Dispatches, StreamsInv
    <3>2. DispatchOK(k)
      BY <3>1 DEF DispatchOK, DispatchFields
    <3> QED BY <2>1, <3>2 DEF Dispatches
  <2>2. ASSUME NEW d \in {"bus", "direct"}, NEW ok, ServiceAnswers(d, ok)
        PROVE  \E k : DispatchOK(k) /\ dispatches' = [dispatches EXCEPT ![d] = k]
    <3> DEFINE o == dispatches[d]
               rest == Tail(o.left)
               said == Append(o.answers, <<Head(o.left), ok>>)
               k == [o EXCEPT !.left = rest, !.answers = said]
    <3>1. dispatches' = [dispatches EXCEPT ![d] = k]
      BY <2>2 DEF ServiceAnswers, OutboundTypes, DispatchOK, DispatchFields
    <3>2. DispatchOK(o)
      BY DEF OutboundTypes
    <3> HIDE DEF o, rest, said
    <3>3. DispatchOK(k)
      BY <3>2 DEF DispatchOK, DispatchFields
    <3> QED BY <3>1, <3>3
  <2>3. ASSUME NEW d \in {"bus", "direct"}, DispatchEnds(d)
        PROVE  \E k : DispatchOK(k) /\ dispatches' = [dispatches EXCEPT ![d] = k]
    <3> DEFINE o == dispatches[d]
               k == [o EXCEPT !.busy = FALSE]
    <3>1. dispatches' = [dispatches EXCEPT ![d] = k]
      BY <2>3 DEF DispatchEnds, OutboundTypes, DispatchOK, DispatchFields
    <3>2. DispatchOK(o)
      BY DEF OutboundTypes
    <3> HIDE DEF o
    <3>3. DispatchOK(k)
      BY <3>2 DEF DispatchOK, DispatchFields
    <3> QED BY <3>1, <3>3
  <2>4. CASE UNCHANGED dispatches
    BY <2>4 DEF OutboundTypes
  <2>5. CASE BusDispatches \/ \E b \in BOOLEAN : DirectDispatches(b)
    <3>1. \E d \in {"bus", "direct"} : \E b : Dispatches(d, b)
      BY <2>5, Zenon DEF BusDispatches, DirectDispatches
    <3> QED BY <1>1, <2>1, <3>1
  <2> QED
    BY <1>1, <2>2, <2>3, <2>4, <2>5, Zenon
    DEF OutboundNext, outboundVars, Connects, TakesEvent, SendsEvent, SendFails, PublishesEvent
<1> QED BY <1>1 DEF OutboundTypes

(* Outbound events keep their bounds for every number of clients, services  *)
(* and events: a stream's queue holds events, and never more than it may.   *)
THEOREM OutboundKeepsTypes == OutboundSpec => []OutboundTypeOK
<1>1. ASSUME OutboundInit PROVE OutboundTypes
  <2>1. waiting \in Seq(BOOLEAN)
    BY <1>1, EmptySeq DEF OutboundInit
  <2>2. DispatchOK(NoDispatch) /\ Disconnected.queue = <<>>
    BY OutboundBounds DEF NoDispatch, DispatchOK, DispatchFields, Disconnected
  <2> QED BY <1>1, <2>1, <2>2 DEF OutboundInit, OutboundTypes
<1>2. StreamsInv /\ OutboundTypes /\ [OutboundNext]_outboundVars => OutboundTypes'
  BY ClosedStreams, WaitingTypes, DispatchTypes DEF OutboundTypes
<1>3. StreamsInv /\ OutboundTypes => OutboundTypeOK
  <2> SUFFICES ASSUME StreamsInv, OutboundTypes PROVE OutboundTypeOK
    OBVIOUS
  <2>1. ASSUME NEW c \in Clients
        PROVE  streams[c] \in StreamState /\ Len(streams[c].queue) <= QueueSize
    <3>1. streams[c] \in StreamState
      BY DEF StreamsInv
    <3>2. CASE streams[c].open
      BY <3>1, <3>2 DEF StreamsInv, HoldsNewest
    <3>3. CASE ~streams[c].open
      <4>1. streams[c].queue = <<>>
        BY <3>3 DEF OutboundTypes
      <4>2. Len(streams[c].queue) = 0
        BY <4>1
      <4> QED BY <3>1, <4>2, OutboundBounds
    <3> QED BY <3>2, <3>3
  <2>2. \A d \in DOMAIN dispatches : DispatchOK(dispatches[d])
    BY DEF OutboundTypes
  <2> QED BY <2>1, <2>2 DEF OutboundTypeOK, OutboundTypes, StreamsInv, StreamState, DispatchOK
<1> QED BY <1>1, <1>2, <1>3, StreamsInvariant, PTL DEF OutboundSpec

-----------------------------------------------------------------------------
(* The clock stays within its bound, and a digest keeps its shape.          *)
NewsClock == hour \in 0 .. LastHour

(* The news cache keeps its types: the clock stays within its bound, and    *)
(* the digest has its shape however the fetches of the readers overlap.     *)
THEOREM NewsTypes == NewsSpec => []NewsTypeOK
<1>1. NewsInit => NewsClock
  BY NewsConstants DEF NewsInit, NewsClock
<1>2. NewsInv /\ NewsClock /\ [NewsNext]_newsVars => NewsClock'
  <2> SUFFICES ASSUME NewsInv, NewsClock, [NewsNext]_newsVars PROVE NewsClock'
    OBVIOUS
  <2>1. CASE HourPasses
    BY <2>1, NewsConstants DEF HourPasses, NewsClock
  <2>2. CASE hour' = hour
    BY <2>2 DEF NewsClock
  <2> QED
    BY <2>1, <2>2, Zenon
    DEF NewsNext, newsVars, RssAnswers, PanicAnswers, Answered, ServeCached, BeginFetch, EndFetch,
        Publish
<1>3. NewsInv /\ NewsClock => NewsTypeOK
  <2> SUFFICES ASSUME NewsInv, NewsClock PROVE NewsTypeOK
    OBVIOUS
  <2>1. ASSUME NEW r \in Readers
        PROVE  /\ reader[r].busy \in BOOLEAN /\ reader[r].coin \in Coins \cup {"none"}
               /\ reader[r].since \in 0 .. hour /\ reader[r].waits \subseteq Sources
               /\ reader[r].got \in Digests
    BY DEF NewsInv, GoodReader, ReaderState, NewsItems, Digests
  <2> QED BY <2>1 DEF NewsInv, NewsClock, NewsTypeOK, NewsItems, Digests
<1> QED BY <1>1, <1>2, <1>3, NewsInvariant, PTL DEF NewsSpec
=============================================================================
