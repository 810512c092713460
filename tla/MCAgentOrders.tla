--------------------------- MODULE MCAgentOrders -----------------------------
(* Instances of AgentOrders for TLC. *)
EXTENDS AgentOrders

CONSTANTS t1, t2, c1, c2, e1     \* tickets, walks over the pending orders, closes
=============================================================================
