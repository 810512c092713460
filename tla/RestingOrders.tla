--------------------------- MODULE RestingOrders ----------------------------
(***************************************************************************)
(* What the order manager promises of limit orders, without its dict, its  *)
(* prices and its iteration: an order rests until it is withdrawn or       *)
(* filled, and who fills it is a check that found it resting when it       *)
(* began.  A check that began before an order was withdrawn, or before     *)
(* another check filled it, may still fill it: so the list a check works   *)
(* on is part of the promise.                                              *)
(***************************************************************************)
CONSTANTS Tickets, Checks

VARIABLES
    known,      \* orders placed so far
    open,       \* orders that rest
    claims,     \* <<check, order>>: the check found the order resting
    filled      \* <<check, order>>: the check filled it

restingVars == <<known, open, claims, filled>>

Init == known = {} /\ open = {} /\ claims = {} /\ filled = {}

Rest(t) ==
    /\ t \notin known
    /\ known' = known \cup {t} /\ open' = open \cup {t}
    /\ UNCHANGED <<claims, filled>>

FillAtOnce(t) ==
    /\ t \notin known
    /\ known' = known \cup {t}
    /\ UNCHANGED <<open, claims, filled>>

Withdraw(t) ==
    /\ t \in open
    /\ open' = open \ {t}
    /\ UNCHANGED <<known, claims, filled>>

Walk(c) ==
    /\ \A t \in Tickets : <<c, t>> \notin claims
    /\ claims' = claims \cup ({c} \X open)
    /\ UNCHANGED <<known, open, filled>>

PassOver(c, t) ==
    /\ <<c, t>> \in claims
    /\ claims' = claims \ {<<c, t>>}
    /\ UNCHANGED <<known, open, filled>>

Fill(c, t) ==
    /\ <<c, t>> \in claims /\ <<c, t>> \notin filled
    /\ claims' = claims \ {<<c, t>>}
    /\ filled' = filled \cup {<<c, t>>}
    /\ open' = open \ {t}
    /\ UNCHANGED known

Next ==
    \/ \E t \in Tickets : Rest(t) \/ FillAtOnce(t) \/ Withdraw(t)
    \/ \E c \in Checks : Walk(c)
    \/ \E c \in Checks, t \in Tickets : PassOver(c, t) \/ Fill(c, t)

Spec == Init /\ [][Next]_restingVars
=============================================================================
