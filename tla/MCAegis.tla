------------------------------ MODULE MCAegis ------------------------------
(* Instances of Aegis for TLC: two symbols, orders and signals of a lot or  *)
(* two at ten per cent of the portfolio, stops one or two ticks away.       *)
EXTENDS Aegis

CONSTANTS btc, eth

Order(s, side, stop) == [sym |-> s, side |-> side, qty |-> 1, price |-> 10, stop |-> stop]
Signal(s, side, stop) == [sym |-> s, side |-> side, price |-> 10, stop |-> stop]

MCOrders == {Order(btc, "buy", 8), Order(eth, "buy", 9), Order(btc, "sell", 12)}
MCSignals == {Signal(btc, "buy", 8)}
MCSymmetry == Permutations(Actors)
MCNoSignals == {}
MCLossOrders == {Order(btc, "buy", 8)}
=============================================================================
