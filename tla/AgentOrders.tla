---------------------------- MODULE AgentOrders -----------------------------
(***************************************************************************)
(* The limit orders of keryxflow/exchange/orders.py and the tools of       *)
(* keryxflow/agent/execution_tools.py that use them or change a position:  *)
(* one symbol, paper mode, one lot per order.                              *)
(*                                                                         *)
(* A limit order that the price already meets is a market order, and the   *)
(* tool then opens a position, which executes it once more.  Any other     *)
(* waits in `book` until it is cancelled or check_pending_orders() fills   *)
(* it.  A check walks a copy of the book and awaits each execution, so     *)
(* everything else may happen between two of its orders.                   *)
(*                                                                         *)
(* The agent runs one tool at a time; a person, a panic and the trailing   *)
(* stops close positions beside it.  As in PaperTrading, an execution      *)
(* reads the balance, then writes it with the trade in one transaction,    *)
(* and the position row is read and written in transactions of their own.  *)
(* A buy may be refused at any time: the cash that pays is not modelled.   *)
(***************************************************************************)
EXTENDS Integers, Sequences, FiniteSets

CONSTANTS
    Tickets,       \* ids of limit orders
    Checks,        \* callers of check_pending_orders()
    Exits,         \* calls of close_position()
    Nothing,       \* no order
    Quotes,        \* prices
    MaxRows,       \* bound: position rows inserted
    MaxQuotes      \* bound: price changes

ASSUME OrdersAssumption ==
    /\ Quotes \subseteq Nat \ {0} /\ Nothing \notin Tickets
    /\ MaxRows \in Nat /\ MaxQuotes \in Nat
    /\ IsFiniteSet(Checks)

VARIABLES
    quote,         \* the price of the symbol, 0 for none yet
    book,          \* _pending_orders: the resting orders, oldest first
    orders,        \* ticket -> the order: side, limit and status
    walks,         \* check -> the orders left in its list, the one it executes
    saw,           \* check -> the balance it has read for that order
    tool,          \* what the tool in progress has still to do, and has read
    closes,        \* what each close has still to do, and has read
    row,           \* the position row, or NoRow
    coins,         \* the account's balance, in lots
    ledger,        \* trades table: lots bought minus lots sold
    rowsMade,      \* bound
    quotesMade,    \* bound
    filledBy,      \* history: <<check, ticket>> of every execution by a check
    apart          \* history: a fill or a close was not matched by its row, as below

ordersVars == <<quote, book, orders, walks, saw, tool, closes, row, coins,
                ledger, rowsMade, quotesMade, filledBy, apart>>
account == <<coins, ledger>>
bounds == <<rowsMade, quotesMade>>

NoRow == [id |-> 0, long |-> TRUE, entry |-> 0, qty |-> 0, stop |-> 0, take |-> 0]
NewTicket == [buy |-> TRUE, limit |-> 0, status |-> "new"]
AtRest == [left |-> <<>>, now |-> Nothing]
NewClose == [stage |-> "new", row |-> NoRow, seen |-> 0]
EndedClose == [NewClose EXCEPT !.stage = "ended"]
NoTool == [stage |-> "idle", ticket |-> Nothing, buy |-> TRUE, price |-> 0,
           seen |-> 0, row |-> NoRow]

OrdersInit ==
    /\ quote = 0 /\ book = <<>> /\ filledBy = {} /\ apart = FALSE
    /\ orders = [t \in Tickets |-> NewTicket]
    /\ walks = [c \in Checks |-> AtRest]
    /\ saw = [c \in Checks |-> 0]
    /\ closes = [e \in Exits |-> NewClose]
    /\ tool = NoTool /\ row = NoRow
    /\ coins = 0 /\ ledger = 0 /\ rowsMade = 0 /\ quotesMade = 0

Resting == {book[i] : i \in DOMAIN book}

(* del book[t], for a book that lists t at most once.                       *)
Without(s, t) ==
    IF \A i \in DOMAIN s : s[i] # t THEN s
    ELSE LET k == CHOOSE i \in DOMAIN s : s[i] = t
         IN  [i \in 1 .. Len(s) - 1 |-> IF i < k THEN s[i] ELSE s[i + 1]]

(* execute_market_order(): a sale writes the balance it has read and found  *)
(* sufficient, less what it sells; a buy adds to the balance of the moment. *)
(* Either adds a trade.                                                     *)
Covers(buy, qty) == buy \/ coins >= qty
Sees(buy) == IF buy THEN 0 ELSE coins
Executes(buy, qty, seen) ==
    /\ coins' = IF buy THEN coins + qty ELSE seen - qty
    /\ ledger' = ledger + (IF buy THEN qty ELSE -qty)

Meets(buy, limit) == IF buy THEN quote <= limit ELSE quote >= limit

MovePrice(p) ==
    /\ quotesMade < MaxQuotes /\ quotesMade' = quotesMade + 1
    /\ p # quote /\ quote' = p
    /\ UNCHANGED <<book, orders, walks, saw, tool, closes, row, account, rowsMade, filledBy, apart>>

-----------------------------------------------------------------------------
(* place_limit_order() from the tool: without a price it raises.            *)
PlaceMeets(t, buy, limit) ==
    /\ tool = NoTool /\ orders[t].status = "new" /\ quote # 0
    /\ Meets(buy, limit)
    /\ tool' = [NoTool EXCEPT !.stage = "place", !.ticket = t, !.buy = buy]
    /\ UNCHANGED <<quote, book, orders, walks, saw, closes, row, account, bounds, filledBy, apart>>

PlaceRests(t, buy, limit) ==
    /\ tool = NoTool /\ orders[t].status = "new" /\ quote # 0
    /\ ~Meets(buy, limit)
    /\ orders' = [orders EXCEPT ![t] = [buy |-> buy, limit |-> limit, status |-> "open"]]
    /\ book' = Append(book, t)
    /\ UNCHANGED <<quote, walks, saw, tool, closes, row, account, bounds, filledBy, apart>>

(* The market order of the tool, at the price of now; then open_position()  *)
(* executes the same order at the price of the first.                       *)
ReadsBalance ==
    /\ tool.stage \in {"place", "open"} /\ Covers(tool.buy, 1)
    /\ tool' = [tool EXCEPT !.seen = Sees(tool.buy),
                  !.stage = IF @ = "place" THEN "placeFill" ELSE "openFill",
                  !.price = IF tool.stage = "place" THEN quote ELSE @]
    /\ UNCHANGED <<quote, book, orders, walks, saw, closes, row, account, bounds, filledBy, apart>>

PlaceFilled ==
    LET t == tool.ticket IN
    /\ tool.stage = "placeFill" /\ Executes(tool.buy, 1, tool.seen)
    /\ orders' = [orders EXCEPT ![t] = [buy |-> tool.buy, limit |-> tool.price, status |-> "filled"]]
    /\ tool' = [tool EXCEPT !.stage = "open", !.seen = 0]
    /\ UNCHANGED <<quote, book, walks, saw, closes, row, bounds, filledBy, apart>>

OpenFilled ==
    /\ tool.stage = "openFill" /\ Executes(tool.buy, 1, tool.seen)
    /\ tool' = [tool EXCEPT !.stage = "filled", !.seen = 0]
    /\ UNCHANGED <<quote, book, orders, walks, saw, closes, row, bounds, filledBy, apart>>

(* Then open_position() reads the row, and averages into the one it read,   *)
(* whatever its side, or inserts one: only the tool inserts.  A row that is *)
(* gone by then raises, and the fill stays without a position.  SQLite      *)
(* gives a row any number above those of the other symbols' rows.           *)
OpenReadsRow ==
    /\ tool.stage = "filled"
    /\ tool' = [tool EXCEPT !.stage = "write", !.row = row]
    /\ UNCHANGED <<quote, book, orders, walks, saw, closes, row, account, bounds, filledBy, apart>>

OpenInserts(stop) ==
    /\ tool.stage = "write" /\ tool.row = NoRow /\ rowsMade < MaxRows
    /\ rowsMade' = rowsMade + 1
    /\ \E i \in 1 .. MaxRows :
           row' = [id |-> i, long |-> tool.buy, entry |-> tool.price, qty |-> 1,
                   stop |-> stop, take |-> 0]
    /\ tool' = NoTool
    /\ UNCHANGED <<quote, book, orders, walks, saw, closes, account, quotesMade, filledBy, apart>>

OpenAverages(stop) ==
    LET old == tool.row IN
    /\ tool.stage = "write" /\ old # NoRow
    /\ \/ /\ row.id = old.id
          /\ row' = [row EXCEPT !.qty = old.qty + 1, !.stop = IF stop = 0 THEN @ ELSE stop,
                                !.entry = (old.entry * old.qty + tool.price) \div (old.qty + 1)]
          /\ apart' = (apart \/ tool.buy # old.long)
       \/ /\ row.id # old.id
          /\ row' = row /\ apart' = TRUE
    /\ tool' = NoTool
    /\ UNCHANGED <<quote, book, orders, walks, saw, closes, account, bounds, filledBy>>

(* An exception, or the end of the agent's task, at any await of a tool.    *)
ToolFails ==
    /\ tool # NoTool
    /\ tool' = NoTool
    /\ apart' = (apart \/ tool.stage \in {"filled", "write"})
    /\ UNCHANGED <<quote, book, orders, walks, saw, closes, row, account, bounds, filledBy>>

(* cancel_order(): true when the order was in the book.                     *)
Cancel(t) ==
    /\ t \in Resting
    /\ book' = Without(book, t)
    /\ UNCHANGED <<quote, orders, walks, saw, tool, closes, row, account, bounds, filledBy, apart>>

-----------------------------------------------------------------------------
(* check_pending_orders(): the list is taken once; the price is read again  *)
(* for each order; an execution that raises leaves the order where it was.  *)
(* When the order left the book meanwhile, deleting it raises, which is     *)
(* logged as a failure although the order was executed.  Between the price  *)
(* and the balance only fills by others could matter, and they do not to    *)
(* the price, so both are read at once.                                     *)
BeginCheck(c) ==
    /\ walks[c] = AtRest /\ book # <<>>
    /\ walks' = [walks EXCEPT ![c].left = book]
    /\ UNCHANGED <<quote, saw, book, orders, tool, closes, row, account, bounds, filledBy, apart>>

Due(t) == quote # 0 /\ Meets(orders[t].buy, orders[t].limit)

SkipOrder(c) ==
    /\ walks[c].now = Nothing /\ walks[c].left # <<>> /\ ~Due(Head(walks[c].left))
    /\ walks' = [walks EXCEPT ![c].left = Tail(@)]
    /\ UNCHANGED <<quote, saw, book, orders, tool, closes, row, account, bounds, filledBy, apart>>

TakeOrder(c) ==
    /\ walks[c].now = Nothing /\ walks[c].left # <<>> /\ Due(Head(walks[c].left))
    /\ walks' = [walks EXCEPT ![c] = [left |-> Tail(@.left), now |-> Head(@.left)]]
    /\ saw' = [saw EXCEPT ![c] = Sees(orders[Head(walks[c].left)].buy)]
    /\ UNCHANGED <<quote, book, orders, tool, closes, row, account, bounds, filledBy, apart>>

(* Mutated form of FillOrder: the order stays in the book.                  *)
FillOrderStays(c) ==
    LET t == walks[c].now IN
    /\ t # Nothing /\ (orders[t].buy \/ saw[c] >= 1)
    /\ Executes(orders[t].buy, 1, saw[c])
    /\ orders' = [orders EXCEPT ![t].status = "filled"]
    /\ filledBy' = filledBy \cup {<<c, t>>}
    /\ walks' = [walks EXCEPT ![c].now = Nothing]
    /\ saw' = [saw EXCEPT ![c] = 0]
    /\ UNCHANGED <<quote, book, tool, closes, row, bounds, apart>>

FillOrder(c) ==
    LET t == walks[c].now IN
    /\ t # Nothing /\ (orders[t].buy \/ saw[c] >= 1)
    /\ Executes(orders[t].buy, 1, saw[c])
    /\ orders' = [orders EXCEPT ![t].status = "filled"]
    /\ book' = Without(book, t)
    /\ filledBy' = filledBy \cup {<<c, t>>}
    /\ walks' = [walks EXCEPT ![c].now = Nothing]
    /\ saw' = [saw EXCEPT ![c] = 0]
    /\ UNCHANGED <<quote, tool, closes, row, bounds, apart>>

FillFails(c) ==
    /\ walks[c].now # Nothing
    /\ walks' = [walks EXCEPT ![c].now = Nothing]
    /\ saw' = [saw EXCEPT ![c] = 0]
    /\ UNCHANGED <<quote, book, orders, tool, closes, row, account, bounds, filledBy, apart>>

-----------------------------------------------------------------------------
(* set_stop_loss and set_take_profit: the position is read and the level    *)
(* checked against its entry; then the row is read again and written, if    *)
(* there still is one.                                                      *)
SetStopChecks(stop) ==
    /\ tool = NoTool /\ row # NoRow
    /\ IF row.long THEN stop < row.entry ELSE stop > row.entry
    /\ tool' = [NoTool EXCEPT !.stage = "stop", !.price = stop]
    /\ UNCHANGED <<quote, book, orders, walks, saw, closes, row, account, bounds, filledBy, apart>>

SetTakeChecks(take) ==
    /\ tool = NoTool /\ row # NoRow
    /\ IF row.long THEN take > row.entry ELSE take < row.entry
    /\ tool' = [NoTool EXCEPT !.stage = "take", !.price = take]
    /\ UNCHANGED <<quote, book, orders, walks, saw, closes, row, account, bounds, filledBy, apart>>

SetLevelWrites ==
    /\ tool.stage \in {"stop", "take"}
    /\ row' = IF row = NoRow THEN row
              ELSE IF tool.stage = "stop" THEN [row EXCEPT !.stop = tool.price]
              ELSE [row EXCEPT !.take = tool.price]
    /\ tool' = NoTool
    /\ UNCHANGED <<quote, book, orders, walks, saw, closes, account, bounds, filledBy, apart>>

-----------------------------------------------------------------------------
(* The closes that have sold a row and not yet deleted it.                  *)
Selling == {e \in Exits : closes[e].stage = "removal"}
SameLots(r, s) == r.id = s.id /\ r.qty = s.qty /\ r.long = s.long

(* close_position() by a person, a panic, a trailing stop: it reads the     *)
(* row, trades it away, then deletes the row it read; a delete that finds   *)
(* none is only a warning.                                                  *)
CloseReadsRow(e) ==
    /\ closes[e].stage = "new" /\ row # NoRow
    /\ closes' = [closes EXCEPT ![e] = [stage |-> "row", row |-> row, seen |-> 0]]
    /\ UNCHANGED <<quote, book, orders, walks, saw, tool, row, account, bounds, filledBy, apart>>

CloseReadsBalance(e) ==
    LET old == closes[e].row IN
    /\ closes[e].stage = "row" /\ Covers(~old.long, old.qty)
    /\ closes' = [closes EXCEPT ![e] = [stage |-> "sale", row |-> old,
                                         seen |-> Sees(~old.long)]]
    /\ UNCHANGED <<quote, book, orders, walks, saw, tool, row, account, bounds, filledBy, apart>>

CloseFilled(e) ==
    LET old == closes[e].row IN
    /\ closes[e].stage = "sale"
    /\ Executes(~old.long, old.qty, closes[e].seen)
    /\ closes' = [closes EXCEPT ![e] = [stage |-> "removal", row |-> old, seen |-> 0]]
    /\ apart' = (apart \/ ~SameLots(row, old) \/ Selling # {})
    /\ UNCHANGED <<quote, book, orders, walks, saw, tool, row, bounds, filledBy>>

(* Mutated form of CloseRow: the row is sold and not deleted.               *)
CloseRowStays(e) ==
    LET old == closes[e].row IN
    /\ closes[e].stage = "removal"
    /\ closes' = [closes EXCEPT ![e] = EndedClose]
    /\ apart' = (apart \/ ~SameLots(row, old))
    /\ UNCHANGED <<quote, book, orders, walks, saw, tool, row, account, bounds, filledBy>>

CloseRow(e) ==
    LET old == closes[e].row IN
    /\ closes[e].stage = "removal"
    /\ row' = IF row.id = old.id THEN NoRow ELSE row
    /\ closes' = [closes EXCEPT ![e] = EndedClose]
    /\ apart' = (apart \/ ~SameLots(row, old))
    /\ UNCHANGED <<quote, book, orders, walks, saw, tool, account, bounds, filledBy>>

CloseRaises(e) ==
    /\ closes[e].stage \notin {"new", "ended"}
    /\ closes' = [closes EXCEPT ![e] = EndedClose]
    /\ apart' = (apart \/ closes[e].stage = "removal")
    /\ UNCHANGED <<quote, book, orders, walks, saw, tool, row, account, bounds, filledBy>>

-----------------------------------------------------------------------------
OrdersStep ==
    \/ ReadsBalance \/ PlaceFilled \/ OpenFilled \/ OpenReadsRow \/ ToolFails \/ SetLevelWrites
    \/ \E s \in Quotes \cup {0} : OpenInserts(s) \/ OpenAverages(s)
    \/ \E c \in Checks : SkipOrder(c) \/ TakeOrder(c) \/ FillOrder(c) \/ FillFails(c)
    \/ \E e \in Exits :
           CloseReadsBalance(e) \/ CloseFilled(e) \/ CloseRow(e) \/ CloseRaises(e)

OrdersNext ==
    \/ OrdersStep
    \/ \E p \in Quotes : MovePrice(p) \/ SetStopChecks(p) \/ SetTakeChecks(p)
    \/ \E t \in Tickets : Cancel(t)
    \/ \E c \in Checks : BeginCheck(c)
    \/ \E e \in Exits : CloseReadsRow(e)
    \/ \E t \in Tickets, buy \in BOOLEAN, p \in Quotes :
           PlaceMeets(t, buy, p) \/ PlaceRests(t, buy, p)

OrdersSpec == OrdersInit /\ [][OrdersNext]_ordersVars

(* asyncio resumes a coroutine whose wait is over.                          *)
OrdersFairSpec == OrdersSpec /\ WF_ordersVars(OrdersStep)

-----------------------------------------------------------------------------
OrderState == [buy : BOOLEAN, limit : Nat, status : {"new", "open", "filled"}]
RowState == [id : Nat, long : BOOLEAN, entry : Nat, qty : Nat, stop : Nat, take : Nat]
ToolState ==
    [stage : {"idle", "place", "placeFill", "open", "openFill", "filled", "write", "stop", "take"},
     ticket : Tickets \cup {Nothing}, buy : BOOLEAN, price : Nat, seen : Int, row : RowState]

OrdersTypeOK ==
    /\ quote \in Quotes \cup {0}
    /\ book \in Seq(Tickets)
    /\ orders \in [Tickets -> OrderState]
    /\ walks \in [Checks -> [left : Seq(Tickets), now : Tickets \cup {Nothing}]]
    /\ saw \in [Checks -> Int]
    /\ closes \in [Exits -> [stage : {"new", "row", "sale", "removal", "ended"},
                          row : RowState, seen : Int]]
    /\ tool \in ToolState
    /\ row \in RowState
    /\ coins \in Int /\ ledger \in Int /\ rowsMade \in Nat /\ quotesMade \in Nat
    /\ filledBy \subseteq Checks \X Tickets /\ apart \in BOOLEAN

(* Every order that is filled is executed once more than the position row   *)
(* knows: between the operations, the trades are the row's lots and,        *)
(* besides, one lot for every order the tool filled at once and for every   *)
(* execution by a check (execution_tools.py:215, 233; orders.py:336).  No   *)
(* position shows them and no close sells them.  Other lots are without a   *)
(* row only after one of the accidents `apart' remembers: a fill whose row  *)
(* was not written, a close that did not get to delete its row, sold it     *)
(* beside another close or found it changed, two sides averaged.            *)
Lots(buy) == IF buy THEN 1 ELSE -1
FilledAtOnce == {t \in Tickets : orders[t].status = "filled"
                                 /\ \A c \in Checks : <<c, t>> \notin filledBy}
Balance(S, buys) == Cardinality({x \in S : buys[x]}) - Cardinality({x \in S : ~buys[x]})
BetweenWrites == tool.stage \in {"filled", "write"} \/ Selling # {}
LotsOutsideRow ==
    LET lots == Balance(FilledAtOnce, [t \in Tickets |-> orders[t].buy])
                + Balance(filledBy, [x \in Checks \X Tickets |-> orders[x[2]].buy])
    IN  ~apart /\ ~BetweenWrites => ledger = row.qty * Lots(row.long) + lots

(* The order manager keeps the promise of RestingOrders: an order is filled *)
(* only by a check that found it resting, at most once by each, and never   *)
(* rests again; cancelling one that a check has listed does not stop it.    *)
Known == {t \in Tickets : orders[t].status # "new"}
Claimed(c, t) == walks[c].now = t \/ \E i \in DOMAIN walks[c].left : walks[c].left[i] = t
Claims == {x \in Checks \X Tickets : Claimed(x[1], x[2])}

Promise == INSTANCE RestingOrders WITH
    known <- Known, open <- Resting, claims <- Claims, filled <- filledBy

KeepsOrderPromise == Promise!Spec

(* The trading guide lists as the first way a position is closed "Stop Loss *)
(* Hit - Price reaches stop level" (docs/trading-guide.md:217): a long      *)
(* whose price is at its stop is closed, or the price or the stop moves.    *)
AtStop == row # NoRow /\ row.stop # 0 /\ quote # 0
          /\ IF row.long THEN quote <= row.stop ELSE quote >= row.stop
StopLossHit == AtStop ~> ~AtStop
=============================================================================
