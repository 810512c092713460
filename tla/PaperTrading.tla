---------------------------- MODULE PaperTrading ----------------------------
(***************************************************************************)
(* PaperTradingEngine of keryxflow/exchange/paper.py over its SQLite       *)
(* tables, cut at the awaits.                                              *)
(*                                                                         *)
(* Operations run in coroutines of one event loop: the bus processor (the  *)
(* engine's handlers), the agent's session loop, the API.  Each operation  *)
(* opens database sessions of its own.  A SELECT holds no lock; the first  *)
(* write of a session takes SQLite's write lock until its commit, so from  *)
(* the first write on a session is one step, and everything it computed    *)
(* from an earlier SELECT may be out of date by then.                      *)
(*                                                                         *)
(* `anomalies`, `direct` and `opened` are history variables: they name     *)
(* what went wrong so far, sum up the orders placed without a position,    *)
(* and remember which positions were opened during a close-all.            *)
(***************************************************************************)
EXTENDS Integers, FiniteSets

CONSTANTS
    Symbols,       \* traded pairs; a pair's base currency is named after it
    Prices,        \* market prices, in ticks
    Slip,          \* slippage of a fill, in ticks (slippage_pct)
    InitialCash,   \* initial_balance of the quote currency
    Actors,        \* coroutines that call the engine
    Sides,         \* sides of the orders that callers place
    Amounts,       \* amounts of the orders that callers place
    NoPrice,       \* price argument None, and a symbol without a price
    NoRow,         \* no row in the positions table
    NoSymbol,
    MaxOps         \* bound: operations started in a behaviour

ASSUME TradingAssumption ==
    /\ Prices \subseteq Nat /\ Slip \in Nat
    /\ \A p \in Prices : p > Slip
    /\ InitialCash \in Nat
    /\ Sides \subseteq {"buy", "sell"}
    /\ Amounts \subseteq Nat \ {0}
    /\ NoPrice \notin Prices
    /\ NoSymbol \notin Symbols
    /\ NoRow \notin [id : Nat, side : {"buy", "sell"}, qty : Nat]
    /\ IsFiniteSet(Actors)
    /\ MaxOps \in Nat

VARIABLES
    cash,          \* free (= total) balance of the quote currency
    coins,         \* free (= total) balance of each base currency
    spent,         \* trades table: cost of the buys minus proceeds of the sales
    bought,        \* trades table: amount bought minus amount sold, by symbol
    rows,          \* positions table: symbol -> row or NoRow (symbol is UNIQUE)
    prices,        \* _prices, in memory
    op,            \* what each actor is in the middle of
    started,       \* bound: operations started
    anomalies,     \* history
    direct,        \* history
    opened         \* history

vars == <<cash, coins, spent, bought, rows, prices, op, started, anomalies,
          direct, opened>>

Ledger == INSTANCE PaperLedger

-----------------------------------------------------------------------------
(* The operation of an actor: which method (kind), the await it is at       *)
(* (stage), its arguments and what it has read so far.                      *)

Kinds == {"none", "order", "open", "close", "closeAll"}
Stages == {"idle", "balance", "book", "position", "save", "lookup", "remove", "next"}
AllAnomalies == {"staleBalance", "staleRow", "unrecordedFill", "tornClose", "mixedSides"}

NoOp == [kind |-> "none", stage |-> "idle", sym |-> NoSymbol, side |-> "buy",
         amount |-> 0, price |-> NoPrice, seen |-> 0, row |-> NoRow, todo |-> {}]

(* The id of a new row is one more than the highest: SQLite gives the       *)
(* highest id again once its row is gone.                                   *)
RowIds == {rows[s].id : s \in {t \in Symbols : rows[t] # NoRow}}
IsNewId(i) == (\A j \in RowIds : j < i) /\ (i = 1 \/ i - 1 \in RowIds)

HasId(s, i) == rows[s] # NoRow /\ rows[s].id = i

PriceOr(s, price) == IF price = NoPrice THEN prices[s] ELSE price

(* Mutated form of Opposite: the close is named after the position.         *)
OppositeNamed(side) == IF side = "buy" THEN "sell" ELSE "short"

Opposite(side) == IF side = "buy" THEN "sell" ELSE "buy"
Signed(side, amount) == IF side = "buy" THEN amount ELSE -amount

Init ==
    /\ Ledger!Init
    /\ rows = [s \in Symbols |-> NoRow]
    /\ prices = [s \in Symbols |-> NoPrice]
    /\ op = [a \in Actors |-> NoOp]
    /\ started = 0
    /\ anomalies = {}
    /\ direct = [s \in Symbols |-> 0]
    /\ opened = [a \in Actors |-> {}]

books == <<cash, coins, spent, bought>>
notes == <<anomalies, direct, opened>>

At(a, stage) == op[a].stage = stage

(* An operation that returns or raises. *)
Finish(a) == op' = [op EXCEPT ![a] = NoOp]

-----------------------------------------------------------------------------
(* update_price(). *)
UpdatePrice(s, p) ==
    /\ prices[s] # p
    /\ prices' = [prices EXCEPT ![s] = p]
    /\ UNCHANGED <<books, rows, op, started, notes>>

(* Entering a method.  Without a price the call raises and nothing happened. *)
Begin(a, o) ==
    /\ op[a] = NoOp
    /\ started < MaxOps
    /\ started' = started + 1
    /\ op' = [op EXCEPT ![a] = o]
    /\ UNCHANGED <<books, rows, prices>>

(* execute_market_order() called by itself: the engine's signal path, the   *)
(* order manager.                                                           *)
BeginOrder(a, s, side, amount, price) ==
    /\ PriceOr(s, price) # NoPrice
    /\ Begin(a, [NoOp EXCEPT !.kind = "order", !.stage = "balance", !.sym = s,
                             !.side = side, !.amount = amount,
                             !.price = PriceOr(s, price)])
    /\ UNCHANGED notes

(* open_position(): it executes the entry order first. *)
BeginOpen(a, s, side, amount, price) ==
    /\ Begin(a, [NoOp EXCEPT !.kind = "open", !.stage = "balance", !.sym = s,
                             !.side = side, !.amount = amount, !.price = price])
    /\ UNCHANGED notes

(* close_position(). *)
BeginClose(a, s, price) ==
    /\ PriceOr(s, price) # NoPrice
    /\ Begin(a, [NoOp EXCEPT !.kind = "close", !.stage = "lookup", !.sym = s,
                             !.price = PriceOr(s, price)])
    /\ UNCHANGED notes

(* close_all_positions(): get_positions() lists the rows once. *)
BeginCloseAll(a) ==
    /\ Begin(a, [NoOp EXCEPT !.kind = "closeAll", !.stage = "next",
                             !.todo = {s \in Symbols : rows[s] # NoRow}])
    /\ opened' = [opened EXCEPT ![a] = {}]
    /\ UNCHANGED <<anomalies, direct>>

-----------------------------------------------------------------------------
(* execute_market_order(): the balance that pays is read and checked ...    *)
Payer(o) == IF o.side = "buy" THEN cash ELSE coins[o.sym]

(* Mutated form of Needed: the price is checked without its slippage.       *)
NeededUnslipped(o) == IF o.side = "buy" THEN o.amount * o.price ELSE o.amount

Needed(o) == IF o.side = "buy" THEN Ledger!Cost("buy", o.amount, o.price)
                               ELSE o.amount

ReadBalance(a) ==
    LET o == op[a] IN
    /\ At(a, "balance")
    /\ \/ /\ Payer(o) >= Needed(o)
          /\ op' = [op EXCEPT ![a].stage = "book", ![a].seen = Payer(o)]
       \/ /\ Payer(o) < Needed(o)          \* ValueError
          /\ Finish(a)
    /\ UNCHANGED <<books, rows, prices, started, notes>>

(* ... and written back, less the price, in the transaction that adds the   *)
(* other leg and the trade.  The other leg is read under the write lock.    *)
AfterFill(o) ==
    CASE o.kind = "order" -> NoOp
      [] o.kind = "open" -> [o EXCEPT !.stage = "position"]
      [] OTHER -> [o EXCEPT !.stage = "remove"]

(* Mutated form of Credited: a sale is paid at the price without slippage.  *)
CreditedUnslipped(o) == o.amount * o.price

Credited(o) == Ledger!Cost("sell", o.amount, o.price)

Fill(o) ==
    LET cost == Ledger!Cost(o.side, o.amount, o.price) IN
    /\ \/ /\ o.side = "buy"
          /\ cash' = o.seen - cost
          /\ coins' = [coins EXCEPT ![o.sym] = @ + o.amount]
          /\ spent' = spent + cost
       \/ /\ o.side = "sell"
          /\ coins' = [coins EXCEPT ![o.sym] = o.seen - o.amount]
          /\ cash' = cash + Credited(o)
          /\ spent' = spent - cost
    /\ bought' = [bought EXCEPT ![o.sym] = @ + Signed(o.side, o.amount)]

Book(a) ==
    LET o == op[a] IN
    /\ At(a, "book")
    /\ Fill(o)
    /\ op' = [op EXCEPT ![a] = AfterFill(o)]
    /\ anomalies' = anomalies \cup (IF o.seen # Payer(o) THEN {"staleBalance"} ELSE {})
    /\ direct' = IF o.kind = "order"
                 THEN [direct EXCEPT ![o.sym] = @ + Signed(o.side, o.amount)]
                 ELSE direct
    /\ UNCHANGED <<rows, prices, started, opened>>

-----------------------------------------------------------------------------
(* open_position(), after its order: the row is read in one session step    *)
(* and written in another.  A new row needs a free symbol (UNIQUE); an      *)
(* existing one is averaged into, by id, whatever its side.  Either write   *)
(* raises when somebody got there first, and the fill keeps no position.    *)
ReadPosition(a) ==
    /\ At(a, "position")
    /\ op' = [op EXCEPT ![a].stage = "save", ![a].row = rows[op[a].sym]]
    /\ UNCHANGED <<books, rows, prices, started, notes>>

InsertPosition(a) ==
    LET o == op[a] IN
    /\ At(a, "save")
    /\ o.row = NoRow
    /\ \/ /\ rows[o.sym] = NoRow
          /\ \E i \in 1 .. MaxOps :
               /\ IsNewId(i)
               /\ rows' = [rows EXCEPT ![o.sym] =
                             [id |-> i, side |-> o.side, qty |-> o.amount]]
          /\ opened' = [b \in Actors |-> opened[b] \cup {o.sym}]
          /\ UNCHANGED anomalies
       \/ /\ rows[o.sym] # NoRow          \* IntegrityError
          /\ anomalies' = anomalies \cup {"unrecordedFill"}
          /\ UNCHANGED <<rows, opened>>
    /\ Finish(a)
    /\ UNCHANGED <<books, prices, started, direct>>

(* Mutated form of Averaged: the new amount replaces the old one.           *)
AveragedReplaces(o) == o.amount

Averaged(o) == o.row.qty + o.amount

AverageIn(a) ==
    LET o == op[a] IN
    /\ At(a, "save")
    /\ o.row # NoRow
    /\ \/ \E t \in Symbols :
            /\ HasId(t, o.row.id)
            /\ rows' = [rows EXCEPT ![t].qty = Averaged(o)]
            /\ anomalies' = anomalies
                 \cup (IF rows[o.sym] # o.row THEN {"staleRow"} ELSE {})
                 \cup (IF o.row.side # o.side THEN {"mixedSides"} ELSE {})
       \/ /\ \A t \in Symbols : ~HasId(t, o.row.id)     \* StaleDataError
          /\ anomalies' = anomalies \cup {"unrecordedFill"}
          /\ UNCHANGED rows
    /\ Finish(a)
    /\ UNCHANGED <<books, prices, started, direct, opened>>

-----------------------------------------------------------------------------
(* close_position(): read the row, trade it away through                    *)
(* execute_market_order(), then delete the row by its id.  A delete that    *)
(* finds no row is only a warning.                                          *)
Closed(o) == IF o.kind = "closeAll" THEN [o EXCEPT !.stage = "next"] ELSE NoOp

LookUp(a) ==
    LET o == op[a]
        row == rows[o.sym]
    IN
    /\ At(a, "lookup")
    /\ \/ /\ row = NoRow                  \* nothing to close
          /\ op' = [op EXCEPT ![a] = Closed(o)]
       \/ /\ row # NoRow
          /\ op' = [op EXCEPT ![a] = [o EXCEPT !.stage = "balance", !.row = row,
                                             !.side = Opposite(row.side),
                                             !.amount = row.qty]]
    /\ UNCHANGED <<books, rows, prices, started, notes>>

Remove(a) ==
    LET o == op[a] IN
    /\ At(a, "remove")
    /\ rows' = [t \in Symbols |-> IF HasId(t, o.row.id) THEN NoRow ELSE rows[t]]
    /\ op' = [op EXCEPT ![a] = Closed(o)]
    /\ anomalies' = anomalies
         \cup (IF rows[o.sym] # o.row THEN {"staleRow"} ELSE {})
    /\ UNCHANGED <<books, prices, started, direct, opened>>

(* close_all_positions(): close the listed symbols one after the other, at  *)
(* this engine's own price.  The first exception ends the whole call.       *)
(* Mutated form of NextListed: a symbol without a price is passed over.     *)
NextListedSkips(a) ==
    /\ At(a, "next")
    /\ \E s \in op[a].todo :
        op' = IF prices[s] = NoPrice
              THEN [op EXCEPT ![a].todo = @ \ {s}]
              ELSE [op EXCEPT ![a].stage = "lookup", ![a].sym = s,
                              ![a].price = prices[s], ![a].todo = @ \ {s}]
    /\ UNCHANGED <<books, rows, prices, started, notes>>

NextListed(a) ==
    /\ At(a, "next")
    /\ \E s \in op[a].todo :
        \/ /\ prices[s] = NoPrice          \* ValueError
           /\ Finish(a)
        \/ /\ prices[s] # NoPrice
           /\ op' = [op EXCEPT ![a].stage = "lookup", ![a].sym = s,
                               ![a].price = prices[s], ![a].todo = @ \ {s}]
    /\ UNCHANGED <<books, rows, prices, started, notes>>

CloseAllReturns(a) ==
    /\ At(a, "next")
    /\ op[a].todo = {}
    /\ Finish(a)
    /\ UNCHANGED <<books, rows, prices, started, notes>>

-----------------------------------------------------------------------------
(* A coroutine is cancelled at an await (EventBus.stop(), the session's     *)
(* task), or the process dies: open sessions roll back, what was committed  *)
(* stays.  A restarted process knows no prices.                             *)
Torn(o) ==
    IF o.stage \in {"position", "save"} THEN {"unrecordedFill"}
    ELSE IF o.stage = "remove" THEN {"tornClose"} ELSE {}

Interrupt(a) ==
    /\ op[a] # NoOp
    /\ Finish(a)
    /\ anomalies' = anomalies \cup Torn(op[a])
    /\ UNCHANGED <<books, rows, prices, started, direct, opened>>

Restart ==
    /\ op' = [a \in Actors |-> NoOp]
    /\ prices' = [s \in Symbols |-> NoPrice]
    /\ anomalies' = anomalies \cup UNION {Torn(op[a]) : a \in Actors}
    /\ UNCHANGED <<books, rows, started, direct, opened>>

-----------------------------------------------------------------------------
MayPrice == Prices \cup {NoPrice}

Step(a) ==
    \/ ReadBalance(a) \/ Book(a)
    \/ ReadPosition(a) \/ InsertPosition(a) \/ AverageIn(a)
    \/ LookUp(a) \/ Remove(a)
    \/ NextListed(a) \/ CloseAllReturns(a)

Next ==
    \/ \E s \in Symbols, p \in Prices : UpdatePrice(s, p)
    \/ \E a \in Actors, s \in Symbols, d \in Sides, q \in Amounts :
         \/ \E p \in MayPrice : BeginOrder(a, s, d, q, p)
         \/ \E p \in Prices : BeginOpen(a, s, d, q, p)
    \/ \E a \in Actors, s \in Symbols, p \in MayPrice : BeginClose(a, s, p)
    \/ \E a \in Actors : BeginCloseAll(a) \/ Step(a) \/ Interrupt(a)
    \/ Restart

Spec == Init /\ [][Next]_vars

-----------------------------------------------------------------------------
Row == [id : Nat \ {0}, side : {"buy", "sell"}, qty : Nat \ {0}]
Op == [kind : Kinds, stage : Stages, sym : Symbols \cup {NoSymbol},
       side : {"buy", "sell"}, amount : Nat, price : MayPrice, seen : Int,
       row : Row \cup {NoRow}, todo : SUBSET Symbols]

TypeOK ==
    /\ cash \in Int
    /\ coins \in [Symbols -> Int]
    /\ spent \in Int
    /\ bought \in [Symbols -> Int]
    /\ rows \in [Symbols -> Row \cup {NoRow}]
    /\ prices \in [Symbols -> MayPrice]
    /\ op \in [Actors -> Op]
    /\ started \in Nat
    /\ anomalies \in SUBSET AllAnomalies
    /\ direct \in [Symbols -> Int]
    /\ opened \in [Actors -> SUBSET Symbols]

(* The balances are what the trade history adds up to, unless an order was  *)
(* computed from a balance another order had changed since                  *)
(* (paper.py:210-258).                                                      *)
BooksBalance ==
    /\ cash = InitialCash - spent
    /\ coins = bought

BooksBalanceUnlessStale == "staleBalance" \notin anomalies => BooksBalance

(* No balance is ever negative, however many coroutines trade at once: the  *)
(* value written is the one that was checked (paper.py:213-237).            *)
NeverOverdrawn ==
    /\ cash >= 0
    /\ \A s \in Symbols : coins[s] >= 0

(* Nobody sells coins that were not bought (paper.py:230-237).              *)
NeverOversold == \A s \in Symbols : bought[s] >= 0

(* The positions table says what is held, on top of the orders placed       *)
(* without a position: the anomalies are the only ways in which a position  *)
(* and the coins behind it part (paper.py:318-358, 393-425).                *)
Held(s) == IF rows[s] = NoRow THEN 0 ELSE Signed(rows[s].side, rows[s].qty)

Settled(s) ==
    \A a \in Actors : op[a].sym = s => op[a].stage \notin {"position", "save", "remove"}

PositionsMatchCoins ==
    anomalies = {} =>
        \A s \in Symbols : Settled(s) => coins[s] = direct[s] + Held(s)

(* A close-all that gets to the end of its list leaves no position it       *)
(* listed: what is open then was opened while it ran (paper.py:488-504).    *)
CloseAllComplete ==
    \A a \in Actors :
        At(a, "next") => \A s \in Symbols \ (op[a].todo \cup opened[a]) :
                            rows[s] = NoRow

(* Without a stale balance every step of the engine is one atomic buy or    *)
(* sale of the ledger, or changes nothing in it (paper.py:209-258).         *)
AtomicUnlessStale ==
    [][ "staleBalance" \notin anomalies' => Ledger!Next ]_books
=============================================================================
