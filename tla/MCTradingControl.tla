-------------------------- MODULE MCTradingControl --------------------------
(* Instances of TradingControl for TLC. *)
EXTENDS TradingControl

CONSTANT btc     \* a symbol
=============================================================================
