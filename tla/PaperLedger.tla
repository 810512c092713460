---------------------------- MODULE PaperLedger ----------------------------
(***************************************************************************)
(* What the paper account promises, apart from how it gets there: money    *)
(* and coins change hands in one step, a buy is paid for out of the cash   *)
(* that is there, a sale is made out of the coins that are there, and      *)
(* every fill is in the trade history.                                     *)
(*                                                                         *)
(* PaperTrading implements this ledger as long as no order is computed     *)
(* from a balance that has changed since it was read.                      *)
(***************************************************************************)
EXTENDS Integers

CONSTANTS
    Symbols,       \* traded pairs; a pair's base currency is named after it
    Prices,        \* market prices, in ticks
    Slip,          \* slippage of a fill, in ticks (slippage_pct)
    InitialCash    \* initial_balance of the quote currency

VARIABLES
    cash,          \* free (= total) balance of the quote currency
    coins,         \* free (= total) balance of each base currency
    spent,         \* trades table: cost of the buys minus proceeds of the sales
    bought         \* trades table: amount bought minus amount sold, by symbol

ledger == <<cash, coins, spent, bought>>

(* _apply_slippage(), times the amount. *)
Cost(side, amount, price) ==
    amount * (IF side = "buy" THEN price + Slip ELSE price - Slip)

Init ==
    /\ cash = InitialCash
    /\ coins = [s \in Symbols |-> 0]
    /\ spent = 0
    /\ bought = [s \in Symbols |-> 0]

Buy(s, amount, price) ==
    LET cost == Cost("buy", amount, price) IN
    /\ cash >= cost
    /\ cash' = cash - cost
    /\ coins' = [coins EXCEPT ![s] = @ + amount]
    /\ spent' = spent + cost
    /\ bought' = [bought EXCEPT ![s] = @ + amount]

Sell(s, amount, price) ==
    LET cost == Cost("sell", amount, price) IN
    /\ coins[s] >= amount
    /\ cash' = cash + cost
    /\ coins' = [coins EXCEPT ![s] = @ - amount]
    /\ spent' = spent - cost
    /\ bought' = [bought EXCEPT ![s] = @ - amount]

(* The amount of a step is whatever the trade history says it was.         *)
Next ==
    \E s \in Symbols, price \in Prices :
        \/ bought'[s] > bought[s] /\ Buy(s, bought'[s] - bought[s], price)
        \/ bought'[s] < bought[s] /\ Sell(s, bought[s] - bought'[s], price)

Spec == Init /\ [][Next]_ledger
=============================================================================
