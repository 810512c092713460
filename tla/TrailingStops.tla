--------------------------- MODULE TrailingStops ----------------------------
(***************************************************************************)
(* The trailing stops of keryxflow/aegis/trailing.py under the handlers of *)
(* keryxflow/core/engine.py.                                               *)
(*                                                                         *)
(* The bus hands the engine one event at a time: `inbox` is what it has    *)
(* still to handle.  A price moves the stop of its symbol and may trigger  *)
(* it: the stop is forgotten first, then the close is awaited, and only a  *)
(* close that found a position is reported.  Meanwhile the other           *)
(* coroutines open and close positions in the account, and the tool that   *)
(* closes one tells nobody.  Prices are integers, percentages are          *)
(* cross-multiplied; the rounding of floats is left out.                   *)
(*                                                                         *)
(* Nothing in the program publishes POSITION_OPENED, for which the engine  *)
(* listens: here the coroutine that opens a position does.                 *)
(***************************************************************************)
EXTENDS Integers, Sequences

CONSTANTS
    Markets,        \* symbols
    StopPrices,     \* prices
    TrailPct,       \* trailing_stop_pct
    ActivationPct,  \* trailing_activation_pct
    MaxOpens,       \* bound: positions opened
    MaxTicks,       \* bound: prices, panics and resumes published
    MaxBacklog      \* bound: events the bus holds when somebody publishes

ASSUME TrailingAssumption ==
    /\ StopPrices \subseteq Nat \ {0}
    /\ TrailPct \in 1 .. 100 /\ ActivationPct \in Nat
    /\ MaxOpens \in Nat /\ MaxTicks \in Nat /\ MaxBacklog \in Nat

VARIABLES
    position,      \* symbol -> the position in the account, or NoPosition
    stops,         \* _states: symbol -> the stop that is tracked, or NoStop
    inbox,         \* the events that wait for the engine
    closing,       \* what the engine's handler awaits, or NotClosing
    halted,        \* _paused
    opens,         \* bound, and the number of the last position
    ticks          \* bound

trailingVars == <<position, stops, inbox, closing, halted, opens, ticks>>

(* A position, and the stop tracked for it, carry the number of the         *)
(* position: the code has only the symbol, the properties need both.        *)
NoPosition == [id |-> 0, long |-> TRUE, entry |-> 0]
NoStop == [id |-> 0, long |-> TRUE, entry |-> 0, peak |-> 0, active |-> FALSE]
NotClosing == [stage |-> "idle", sym |-> "none", id |-> 0]
Note(kind, s, p, pos) == [kind |-> kind, sym |-> s, price |-> p, of |-> pos]

TrailingInit ==
    /\ position = [s \in Markets |-> NoPosition]
    /\ stops = [s \in Markets |-> NoStop]
    /\ inbox = <<>> /\ closing = NotClosing /\ halted = FALSE
    /\ opens = 0 /\ ticks = 0

Publishes(e) == inbox' = Append(inbox, e)

-----------------------------------------------------------------------------
(* The other coroutines: the account's positions, the feed, the panic key.  *)
Opens(s, long, p) ==
    /\ position[s] = NoPosition /\ opens < MaxOpens /\ Len(inbox) < MaxBacklog
    /\ opens' = opens + 1
    /\ position' = [position EXCEPT ![s] = [id |-> opens', long |-> long, entry |-> p]]
    /\ Publishes(Note("opened", s, p, position'[s]))
    /\ UNCHANGED <<stops, closing, halted, ticks>>

ClosesSilently(s) ==
    /\ position[s] # NoPosition
    /\ position' = [position EXCEPT ![s] = NoPosition]
    /\ UNCHANGED <<stops, inbox, closing, halted, opens, ticks>>

Ticks(s, p) ==
    /\ ticks < MaxTicks /\ ticks' = ticks + 1 /\ Len(inbox) < MaxBacklog
    /\ Publishes(Note("price", s, p, NoPosition))
    /\ UNCHANGED <<position, stops, closing, halted, opens>>

Presses(kind) ==
    /\ ticks < MaxTicks /\ ticks' = ticks + 1 /\ Len(inbox) < MaxBacklog
    /\ Publishes(Note(kind, "none", 0, NoPosition))
    /\ UNCHANGED <<position, stops, closing, halted, opens>>

-----------------------------------------------------------------------------
(* TrailingStopManager.update_price(): a stop becomes active once the       *)
(* position is far enough in profit, and from then on its peak is the best  *)
(* price it was told.  Mutated form of Moved: the peak follows the price.   *)
Gain(k, p) == IF k.long THEN p - k.entry ELSE k.entry - p
Better(k, p) == IF k.long THEN p > k.peak ELSE p < k.peak

MovedWithPrice(k, p) ==
    LET now == k.active \/ 100 * Gain(k, p) >= ActivationPct * k.entry
    IN  [k EXCEPT !.active = now, !.peak = IF now THEN p ELSE @]

Moved(k, p) ==
    LET now == k.active \/ 100 * Gain(k, p) >= ActivationPct * k.entry
    IN  [k EXCEPT !.active = now, !.peak = IF now /\ Better(k, p) THEN p ELSE @]

(* 100 times current_stop, which the code recomputes at every price.        *)
StopLevel(k) == IF k.long THEN k.peak * (100 - TrailPct) ELSE k.peak * (100 + TrailPct)

(* Mutated form of Triggers: a stop that is not active yet triggers too.    *)
TriggersInactive(k, p) ==
    IF k.long THEN 100 * p <= StopLevel(k) ELSE 100 * p >= StopLevel(k)

Triggers(k, p) ==
    k.active /\ IF k.long THEN 100 * p <= StopLevel(k) ELSE 100 * p >= StopLevel(k)

StartTracking(pos) ==
    [id |-> pos.id, long |-> pos.long, entry |-> pos.entry, peak |-> pos.entry,
     active |-> FALSE]

-----------------------------------------------------------------------------
(* The engine's handlers.                                                   *)
Takes(kind) ==
    /\ closing = NotClosing /\ inbox # <<>> /\ Head(inbox).kind = kind
    /\ inbox' = Tail(inbox)

TakeOpened ==
    /\ Takes("opened")
    /\ stops' = [stops EXCEPT ![Head(inbox).sym] = StartTracking(Head(inbox).of)]
    /\ UNCHANGED <<position, closing, halted, opens, ticks>>

TakeClosed ==
    /\ Takes("closed")
    /\ stops' = [stops EXCEPT ![Head(inbox).sym] = NoStop]
    /\ UNCHANGED <<position, closing, halted, opens, ticks>>

IgnorePrice ==
    /\ Takes("price") /\ (halted \/ stops[Head(inbox).sym] = NoStop)
    /\ UNCHANGED <<position, stops, closing, halted, opens, ticks>>

MoveStop ==
    /\ Takes("price") /\ ~halted
    /\ LET s == Head(inbox).sym
           k == Moved(stops[s], Head(inbox).price)
       IN  /\ stops[s] # NoStop /\ ~Triggers(k, Head(inbox).price)
           /\ stops' = [stops EXCEPT ![s] = k]
    /\ UNCHANGED <<position, closing, halted, opens, ticks>>

TriggerStop ==
    /\ Takes("price") /\ ~halted
    /\ LET s == Head(inbox).sym
       IN  /\ stops[s] # NoStop
           /\ Triggers(Moved(stops[s], Head(inbox).price), Head(inbox).price)
           /\ stops' = [stops EXCEPT ![s] = NoStop]
           /\ closing' = [stage |-> "close", sym |-> s, id |-> stops[s].id]
    /\ UNCHANGED <<position, halted, opens, ticks>>

(* _close_trailing_stop(): close_position() removes the row it finds, then  *)
(* the close is published; without a row nothing is; when it raises the     *)
(* error is logged and that is all.                                         *)
CloseRemoves ==
    /\ closing.stage = "close" /\ position[closing.sym] # NoPosition
    /\ position' = [position EXCEPT ![closing.sym] = NoPosition]
    /\ closing' = [closing EXCEPT !.stage = "report"]
    /\ UNCHANGED <<stops, inbox, halted, opens, ticks>>

CloseReports ==
    /\ closing.stage = "report"
    /\ Publishes(Note("closed", closing.sym, 0, [NoPosition EXCEPT !.id = closing.id]))
    /\ closing' = NotClosing
    /\ UNCHANGED <<position, stops, halted, opens, ticks>>

CloseFindsNothing ==
    /\ closing.stage = "close" /\ position[closing.sym] = NoPosition
    /\ closing' = NotClosing
    /\ UNCHANGED <<position, stops, inbox, halted, opens, ticks>>

CloseFails ==
    /\ closing.stage = "close" /\ position[closing.sym] # NoPosition
    /\ closing' = NotClosing
    /\ UNCHANGED <<position, stops, inbox, halted, opens, ticks>>

(* _on_panic(): every stop is forgotten, then the account is emptied one    *)
(* position after the other; an error ends it with positions left.  What    *)
(* it publishes at the end names no symbol, so no handler acts on it.       *)
TakePanic ==
    /\ Takes("panic")
    /\ halted' = TRUE
    /\ stops' = [s \in Markets |-> NoStop]
    /\ closing' = [NotClosing EXCEPT !.stage = "panic"]
    /\ UNCHANGED <<position, opens, ticks>>

PanicRemoves(s) ==
    /\ closing.stage = "panic" /\ position[s] # NoPosition
    /\ position' = [position EXCEPT ![s] = NoPosition]
    /\ UNCHANGED <<stops, inbox, closing, halted, opens, ticks>>

PanicReturns ==
    /\ closing.stage = "panic"
    /\ closing' = NotClosing
    /\ UNCHANGED <<position, stops, inbox, halted, opens, ticks>>

TakeResume ==
    /\ Takes("resume")
    /\ halted' = FALSE
    /\ UNCHANGED <<position, stops, closing, opens, ticks>>

-----------------------------------------------------------------------------
TrailingNext ==
    \/ \E s \in Markets : ClosesSilently(s) \/ PanicRemoves(s)
    \/ \E s \in Markets, p \in StopPrices : Ticks(s, p)
    \/ \E s \in Markets, p \in StopPrices, long \in BOOLEAN : Opens(s, long, p)
    \/ \E kind \in {"panic", "resume"} : Presses(kind)
    \/ TakeOpened \/ TakeClosed \/ IgnorePrice \/ MoveStop \/ TriggerStop
    \/ CloseRemoves \/ CloseReports \/ CloseFindsNothing \/ CloseFails
    \/ TakePanic \/ PanicReturns \/ TakeResume

TrailingSpec == TrailingInit /\ [][TrailingNext]_trailingVars

-----------------------------------------------------------------------------
StopState == [id : Nat, long : BOOLEAN, entry : Nat, peak : Nat, active : BOOLEAN]
PositionState == [id : Nat, long : BOOLEAN, entry : Nat]

TrailingTypeOK ==
    /\ position \in [Markets -> PositionState]
    /\ stops \in [Markets -> StopState]
    /\ inbox \in Seq([kind : {"opened", "closed", "price", "panic", "resume"},
                      sym : Markets \cup {"none"}, price : Nat, of : PositionState])
    /\ closing \in [stage : {"idle", "close", "report", "panic"},
                    sym : Markets \cup {"none"}, id : Nat]
    /\ halted \in BOOLEAN /\ opens \in Nat /\ ticks \in Nat

(* While one position is tracked, its stop never moves away from profit     *)
(* and an active stop stays active (update_price keeps the best price): a   *)
(* long's level does not fall, a short's does not rise.                     *)
NoRetreat(k, m) ==
    k.id = m.id /\ k.active =>
        m.active /\ IF k.long THEN StopLevel(m) >= StopLevel(k)
                              ELSE StopLevel(m) <= StopLevel(k)

StopNeverRetreats == [][ \A s \in Markets : NoRetreat(stops[s], stops'[s]) ]_trailingVars

(* A position that stays open loses its stop for three causes only: a price *)
(* beyond the active stop (and then a close that fails leaves it without    *)
(* one), a panic, or the late report that an earlier position of the symbol *)
(* was closed (engine.py:1006, 1026, 1094).                                 *)
PastStop(k, p) ==
    k.active /\ IF k.long THEN 100 * p <= k.peak * (100 - TrailPct)
                          ELSE 100 * p >= k.peak * (100 + TrailPct)

DropCause(s) ==
    LET e == Head(inbox)
    IN  /\ inbox # <<>>
        /\ \/ e.kind = "panic"
           \/ e.kind = "price" /\ e.sym = s /\ PastStop(stops[s], e.price)
           \/ e.kind = "closed" /\ e.sym = s /\ e.of.id < position[s].id

StopDroppedForCause ==
    [][ \A s \in Markets :
          (/\ position[s].id = position'[s].id /\ stops[s].id = position[s].id
           /\ stops[s] # NoStop /\ stops'[s] = NoStop) => DropCause(s) ]_trailingVars
=============================================================================
