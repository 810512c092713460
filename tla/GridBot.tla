------------------------------ MODULE GridBot -------------------------------
(***************************************************************************)
(* The grid of keryxflow/strategies/grid.py under a caller that keeps its  *)
(* open orders: no module of the program is that caller, so the orders it  *)
(* places and the fills it reports are modelled from the strategy's own    *)
(* contract.  The levels are 0 .. N at the prices 2 * level, so that a     *)
(* price may lie on a level or between two; what a cycle earns is the      *)
(* distance of two levels, and a quantity is left out.                     *)
(***************************************************************************)
EXTENDS Integers, FiniteSets

CONSTANTS
    N,            \* grid_count
    AutoStop,     \* auto_stop_on_breakout
    MaxFills      \* bound: fills

ASSUME GridAssumption == N \in Nat \ {0} /\ AutoStop \in BOOLEAN /\ MaxFills \in Nat

VARIABLES
    initialized,  \* _initialized
    stopped,      \* is_stopped
    open,         \* how many orders are open: <<side, level>> -> count
    pendingBuys,  \* _pending_buys: the levels with a quantity
    cycles,       \* completed_cycles
    bought,       \* history: buys that were filled while the grid was running
    replaced,     \* history: buys whose pending quantity was overwritten
    fills         \* bound: fills, and initial orders given again

gridVars == <<initialized, stopped, open, pendingBuys, cycles, bought, replaced, fills>>

Levels == 0 .. N
Orders == {"buy", "sell"} \X Levels

GridInit ==
    /\ initialized = FALSE /\ stopped = FALSE
    /\ open = [o \in Orders |-> 0]
    /\ pendingBuys = {} /\ cycles = 0 /\ bought = 0 /\ replaced = 0 /\ fills = 0

-----------------------------------------------------------------------------
(* generate_initial_orders(): buys below the price, sells above it.  Called *)
(* once more, it gives as many again.                                       *)
InitialOrders(price) ==
    /\ ~stopped /\ (initialized => fills < MaxFills)
    /\ initialized' = TRUE
    /\ fills' = fills + (IF initialized THEN 1 ELSE 0)
    /\ open' = [o \in Orders |-> open[o] +
         IF \/ o[1] = "buy" /\ 2 * o[2] < price
            \/ o[1] = "sell" /\ 2 * o[2] > price THEN 1 ELSE 0]
    /\ UNCHANGED <<stopped, pendingBuys, cycles, bought, replaced>>

Removed(o) == [open EXCEPT ![o] = @ - 1]
Placed(orders, o) == [orders EXCEPT ![o] = @ + 1]

BuyFilled(i) ==
    /\ initialized /\ ~stopped /\ open[<<"buy", i>>] > 0 /\ fills < MaxFills
    /\ fills' = fills + 1
    /\ pendingBuys' = pendingBuys \cup {i}
    /\ bought' = bought + 1
    /\ replaced' = replaced + (IF i \in pendingBuys THEN 1 ELSE 0)
    /\ open' = IF i + 1 \in Levels THEN Placed(Removed(<<"buy", i>>), <<"sell", i + 1>>)
                                   ELSE Removed(<<"buy", i>>)
    /\ UNCHANGED <<initialized, stopped, cycles>>

SellFilled(i) ==
    /\ initialized /\ ~stopped /\ open[<<"sell", i>>] > 0 /\ fills < MaxFills
    /\ fills' = fills + 1
    /\ pendingBuys' = pendingBuys \ {i - 1}
    /\ cycles' = cycles + (IF i - 1 \in pendingBuys THEN 1 ELSE 0)
    /\ open' = IF i - 1 \in Levels THEN Placed(Removed(<<"sell", i>>), <<"buy", i - 1>>)
                                   ELSE Removed(<<"sell", i>>)
    /\ UNCHANGED <<initialized, stopped, bought, replaced>>

(* A fill that is reported after the stop is answered with no order.        *)
FilledAfterStop(o) ==
    /\ stopped /\ open[o] > 0 /\ fills < MaxFills
    /\ fills' = fills + 1 /\ open' = Removed(o)
    /\ UNCHANGED <<initialized, stopped, pendingBuys, cycles, bought, replaced>>

PriceLeavesRange ==
    /\ ~stopped /\ AutoStop
    /\ stopped' = TRUE
    /\ UNCHANGED <<initialized, open, pendingBuys, cycles, bought, replaced, fills>>

GridNext ==
    \/ \E price \in 0 - 1 .. 2 * N + 1 : InitialOrders(price)
    \/ \E i \in Levels : BuyFilled(i) \/ SellFilled(i)
    \/ \E o \in Orders : FilledAfterStop(o)
    \/ PriceLeavesRange

GridSpec == GridInit /\ [][GridNext]_gridVars

-----------------------------------------------------------------------------
(* Type invariant of the grid.                                              *)
GridTypeOK ==
    /\ initialized \in BOOLEAN /\ stopped \in BOOLEAN
    /\ open \in [Orders -> Nat] /\ pendingBuys \subseteq Levels
    /\ {cycles, bought, replaced, fills} \subseteq Nat

(* While the grid runs, every cell between two neighbouring levels keeps an *)
(* order: a buy at its lower end or a sell at its upper one, whatever fills *)
(* in whatever order.  on_order_filled(), grid.py:104, answers a fill with  *)
(* the counter-order of the same cell.                                      *)
CellsKeepOrder ==
    (initialized /\ ~stopped) =>
      \A i \in 0 .. N - 1 : open[<<"buy", i>>] + open[<<"sell", i + 1>>] > 0

(* Every buy of a running grid is in a completed cycle, still pending, or   *)
(* was overwritten by a second buy at its level: _pending_buys, grid.py:118 *)
(* and 136, keeps one quantity a level.                                     *)
BuysAccountedFor == bought = cycles + replaced + Cardinality(pendingBuys)
=============================================================================
