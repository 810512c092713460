--------------------------- MODULE MCPaperTrading ---------------------------
(* Instances of PaperTrading for TLC. *)
EXTENDS PaperTrading

CONSTANTS btc, eth,     \* symbols
          bus, agent    \* the bus processor and the session loop
=============================================================================
