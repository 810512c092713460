------------------------------ MODULE LiveMode -------------------------------
(***************************************************************************)
(* The trading engine in live mode (keryxflow/core/engine.py): the start    *)
(* with its safeguards (core/safeguards.py), the exchange's client          *)
(* (exchange/client.py) and the orders sent to the exchange.                *)
(*                                                                          *)
(* The engine awaits the exchange for a balance, which the client asks for  *)
(* up to Attempts times, and for an order, which it sends once.  The        *)
(* exchange may act on a call whose answer is lost.  A signal is sized by   *)
(* the free money of the PAPER account, in live mode as well; the size is   *)
(* the constant OrderCost.  The price handler sends its orders one after    *)
(* another, for the bus runs one handler at a time, and the preload task    *)
(* analyses every symbol and sends orders beside it: each is a trader here. *)
(* Left out: credentials of other exchanges, the warnings of the            *)
(* safeguards, the notifications.                                           *)
(***************************************************************************)
EXTENDS Integers

CONSTANTS
    Accounts,        \* the free USDT the account may start with
    MinBalance,      \* the balance the safeguards ask for
    HasCredentials,  \* an API key is configured
    Attempts,        \* attempts of a call that is retried
    OrderCost,       \* what an order costs, sized by the paper account
    Traders,         \* coroutines that send orders: the price handler, the preload
    MaxOrders        \* bound: signals that are approved

ASSUME LiveAssumption ==
    /\ Accounts \subseteq Nat /\ {MinBalance, OrderCost, MaxOrders} \subseteq Nat
    /\ Attempts \in Nat \ {0} /\ HasCredentials \in BOOLEAN

VARIABLES
    client,      \* the client's _exchange: is there one
    startup,     \* where start() is
    tries,       \* attempts of the balance call the start awaits
    safe,        \* what the safeguards answered
    toldBalance, \* the balance the risk manager was told
    usdt,        \* the exchange: the free USDT
    sending,     \* trader -> the order it has on its way, or NoOrder
    approvals,   \* history: how many orders were approved
    placed,      \* the exchange: approval -> the orders it made for it
    announced    \* history: approvals for which a fill was published

liveVars == <<client, startup, tries, safe, toldBalance, usdt, sending,
              approvals, placed, announced>>

NoOrder == [stage |-> "none", nr |-> 0, tries |-> 0]

LiveInit ==
    /\ client = FALSE /\ startup = "off" /\ tries = 0 /\ safe = FALSE
    /\ toldBalance = 0 /\ usdt \in Accounts
    /\ sending = [w \in Traders |-> NoOrder] /\ approvals = 0
    /\ placed = [n \in 1 .. MaxOrders |-> 0] /\ announced = {}

-----------------------------------------------------------------------------
(* connect(): a test call that fails is answered with FALSE, but the client *)
(* counts as connected all the same; the terminal starts the engine either  *)
(* way.                                                                     *)
ConnectsClient ==
    /\ startup = "off" /\ ~client
    /\ client' = TRUE
    /\ UNCHANGED <<startup, tries, safe, toldBalance, usdt, sending, approvals,
                   placed, announced>>

StartsEngine ==
    /\ client /\ startup = "off"
    /\ startup' = "checking" /\ tries' = 0
    /\ UNCHANGED <<client, safe, toldBalance, usdt, sending, approvals, placed, announced>>

Passes(free) == HasCredentials /\ free >= MinBalance

(* The safeguards' answer is logged, and the start goes on.                 *)
Checked(answer) == startup = "checking" /\ startup' = "syncing" /\ tries' = 0
                   /\ safe' = answer

BalanceChecked ==
    /\ Checked(Passes(usdt))
    /\ UNCHANGED <<client, toldBalance, usdt, sending, approvals, placed, announced>>

CheckGivesUp ==
    /\ tries + 1 = Attempts /\ Checked(FALSE)
    /\ UNCHANGED <<client, toldBalance, usdt, sending, approvals, placed, announced>>

(* The balance the start tells the risk manager: none that could not be     *)
(* read is told as 0.                                                       *)
Told(free) == startup = "syncing" /\ startup' = "on" /\ tries' = 0
              /\ toldBalance' = free

BalanceTold ==
    /\ Told(usdt)
    /\ UNCHANGED <<client, safe, usdt, sending, approvals, placed, announced>>

TellGivesUp ==
    /\ tries + 1 = Attempts /\ Told(0)
    /\ UNCHANGED <<client, safe, usdt, sending, approvals, placed, announced>>

(* An attempt to read the balance fails and the client tries again.         *)
BalanceRetried ==
    /\ startup \in {"checking", "syncing"} /\ tries + 1 < Attempts
    /\ tries' = tries + 1
    /\ UNCHANGED <<client, startup, safe, toldBalance, usdt, sending, approvals,
                   placed, announced>>

-----------------------------------------------------------------------------
(* _process_signal() and _execute_order(): nothing asks what the safeguards *)
(* said, nor whether the other trader has an order on its way.  In live     *)
(* mode no position of the paper account is opened, and the count of        *)
(* positions the risk manager checks stays what it was.                     *)
ApprovesOrder(w) ==
    /\ startup = "on" /\ sending[w] = NoOrder /\ approvals < MaxOrders
    /\ approvals' = approvals + 1
    /\ sending' = [sending EXCEPT ![w] = [stage |-> "sent", nr |-> approvals', tries |-> 0]]
    /\ UNCHANGED <<client, startup, tries, safe, toldBalance, usdt, placed, announced>>

ExchangeFills(w) ==
    /\ sending[w].stage = "sent" /\ usdt >= OrderCost
    /\ usdt' = usdt - OrderCost
    /\ placed' = [placed EXCEPT ![sending[w].nr] = @ + 1]
    /\ sending' = [sending EXCEPT ![w].stage = "filled"]
    /\ UNCHANGED <<client, startup, tries, safe, toldBalance, approvals, announced>>

(* Mutated form of OrderRaises: the client's retry around the order too.    *)
OrderRaisesRetried(w) ==
    /\ sending[w].stage \in {"sent", "filled"}
    /\ sending' = [sending EXCEPT ![w].stage = "sent"]
    /\ UNCHANGED <<client, startup, tries, safe, toldBalance, usdt, approvals,
                   placed, announced>>

(* The call raises: the exchange refused, or did not get it, or its answer  *)
(* was lost.  The order is given up; no call looks for it later.            *)
OrderRaises(w) ==
    /\ sending[w].stage \in {"sent", "filled"}
    /\ sending' = [sending EXCEPT ![w] = NoOrder]
    /\ UNCHANGED <<client, startup, tries, safe, toldBalance, usdt, approvals,
                   placed, announced>>

ReportsFill(w) ==
    /\ sending[w].stage = "filled"
    /\ announced' = announced \cup {sending[w].nr}
    /\ sending' = [sending EXCEPT ![w].stage = "resync"]
    /\ UNCHANGED <<client, startup, tries, safe, toldBalance, usdt, approvals, placed>>

(* _sync_balance_from_exchange() after an order: its result goes nowhere.   *)
ResyncRetried(w) ==
    /\ sending[w].stage = "resync" /\ sending[w].tries + 1 < Attempts
    /\ sending' = [sending EXCEPT ![w].tries = @ + 1]
    /\ UNCHANGED <<client, startup, tries, safe, toldBalance, usdt, approvals,
                   placed, announced>>

Resynced(w) ==
    /\ sending[w].stage = "resync"
    /\ sending' = [sending EXCEPT ![w] = NoOrder]
    /\ UNCHANGED <<client, startup, tries, safe, toldBalance, usdt, approvals,
                   placed, announced>>

(* Somebody pays money in: the account is not the engine's alone.      *)
Deposits ==
    /\ startup # "off" /\ usdt < MinBalance
    /\ usdt' = usdt + OrderCost
    /\ UNCHANGED <<client, startup, tries, safe, toldBalance, sending, approvals,
                   placed, announced>>

LiveNext ==
    \/ ConnectsClient \/ StartsEngine \/ BalanceChecked \/ CheckGivesUp \/ BalanceTold
    \/ TellGivesUp \/ BalanceRetried \/ Deposits
    \/ \E w \in Traders : \/ ApprovesOrder(w) \/ ExchangeFills(w) \/ OrderRaises(w)
                          \/ ReportsFill(w) \/ ResyncRetried(w) \/ Resynced(w)

LiveSpec == LiveInit /\ [][LiveNext]_liveVars

-----------------------------------------------------------------------------
LiveTypeOK ==
    /\ client \in BOOLEAN /\ safe \in BOOLEAN
    /\ startup \in {"off", "checking", "syncing", "on"}
    /\ tries \in 0 .. Attempts - 1
    /\ toldBalance \in Nat /\ usdt \in Nat
    /\ sending \in [Traders -> [stage : {"none", "sent", "filled", "resync"},
                                nr : 0 .. MaxOrders, tries : 0 .. Attempts - 1]]
    /\ approvals \in 0 .. MaxOrders
    /\ placed \in [1 .. MaxOrders -> Nat] /\ announced \subseteq 1 .. MaxOrders

(* Whatever is lost on the way, an approval never becomes two orders on the *)
(* exchange, and a fill is published only for one that it made.             *)
OneOrderPerApproval ==
    \A n \in 1 .. MaxOrders :
        /\ placed[n] <= 1
        /\ n > approvals => placed[n] = 0
        /\ n \in announced => placed[n] = 1

(* README.md:313: "If any check fails, live trading is blocked with a clear *)
(* explanation."  The code violates it: engine.py:260 goes on.              *)
LiveIsBlocked == approvals > 0 => safe
=============================================================================
