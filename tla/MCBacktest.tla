---------------------------- MODULE MCBacktest -------------------------------
(* Instances of Backtest for TLC. *)
EXTENDS Backtest

MCPairs == <<"btc", "eth">>
MCBars == {[high |-> 101, low |-> 99, close |-> 100], [high |-> 105, low |-> 97, close |-> 103]}
=============================================================================
