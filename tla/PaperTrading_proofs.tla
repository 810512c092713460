------------------------- MODULE PaperTrading_proofs -------------------------
(***************************************************************************)
(* Safety of the paper account for every number of symbols, prices,        *)
(* amounts and coroutines.                                                 *)
(*                                                                         *)
(* Inv is inductive: TypeOK, what an operation knows at each await         *)
(* (OpKnows), and that an order at its write has seen enough to pay for    *)
(* itself (SeenEnough). NeverOverdrawn, BooksBalanceUnlessStale and the    *)
(* implementation of the atomic ledger follow from it, and                 *)
(* CloseAllComplete from it together with CloseAllProgress.                *)
(*                                                                         *)
(* PositionsMatchCoins needs MatchInv: coins and rows differ by what the   *)
(* operations under way have traded and not yet written (CoinsAccounted),  *)
(* which is added up over the coroutines in some fixed order.              *)
(***************************************************************************)
EXTENDS PaperTrading, FiniteSetTheorems, TLAPS

(* From its first await to its last an operation has a symbol, until the    *)
(* fill it has a price, and a close has the row it looked up.               *)
Knows(o) ==
    /\ o.stage \notin {"idle", "next"} => o.sym \in Symbols
    /\ o.stage \in {"lookup", "balance", "book"} => o.price \in Prices
    /\ o.stage \in {"balance", "book", "position", "save"} => o.amount \in Nat \ {0}
    /\ o.stage = "remove" => o.row \in Row
    /\ o.stage \in {"balance", "book"} /\ o.kind \notin {"order", "open"} => o.row \in Row

OpKnows == \A a \in Actors : Knows(op[a])

Enough(o) == o.stage = "book" => o.seen >= Needed(o)
SeenEnough == \A a \in Actors : Enough(op[a])

Inv == TypeOK /\ OpKnows /\ SeenEnough /\ NeverOverdrawn

-----------------------------------------------------------------------------
(* A fill costs an amount of money that is never negative.                  *)
LEMMA CostPositive ==
  ASSUME NEW amount \in Nat, NEW price \in Prices, NEW side \in {"buy", "sell"}
  PROVE  Ledger!Cost(side, amount, price) \in Nat
<1>1. price \in Nat /\ Slip \in Nat /\ price - Slip \in Nat /\ price + Slip \in Nat
  BY TradingAssumption
<1>2. \A x \in Nat, y \in Nat : x * y \in Nat
  OBVIOUS
<1>. QED
  BY <1>1, <1>2 DEF Ledger!Cost

(* The operation record of an actor that does nothing is an operation.      *)
LEMMA NoOpType == NoOp \in Op /\ NoOp.stage = "idle" /\ NoOp.kind = "none"
  BY DEF NoOp, Op, Kinds, Stages, MayPrice

-----------------------------------------------------------------------------
LEMMA InitInv == Init => Inv
<1>. SUFFICES ASSUME Init PROVE Inv
  OBVIOUS
<1>1. TypeOK
  BY NoOpType, TradingAssumption DEF Init, Ledger!Init, TypeOK, MayPrice
<1>2. \A a \in Actors : op[a] = NoOp
  BY DEF Init
<1>3. OpKnows /\ SeenEnough
  BY <1>2, NoOpType DEF OpKnows, SeenEnough, Knows, Enough
<1>4. NeverOverdrawn
  BY TradingAssumption DEF Init, Ledger!Init, NeverOverdrawn
<1>. QED
  BY <1>1, <1>3, <1>4 DEF Inv
-----------------------------------------------------------------------------
(* A step of one actor keeps what Inv says of operations when the actor's   *)
(* new operation is as Inv wants it.                                        *)
LEMMA OpStep ==
  ASSUME Inv, NEW a \in Actors, NEW o \in Op, Knows(o), Enough(o),
         op' = [op EXCEPT ![a] = o]
  PROVE  op' \in [Actors -> Op] /\ OpKnows' /\ SeenEnough'
<1>1. op \in [Actors -> Op] /\ OpKnows /\ SeenEnough
  BY DEF Inv, TypeOK
<1>2. \A b \in Actors : op'[b] = IF b = a THEN o ELSE op[b]
  BY <1>1
<1>. QED
  BY <1>1, <1>2 DEF OpKnows, SeenEnough, Knows, Enough, Needed, Ledger!Cost

(* Returning or raising is such a step.                                     *)
LEMMA FinishStep ==
  ASSUME Inv, NEW a \in Actors, Finish(a)
  PROVE  op' \in [Actors -> Op] /\ OpKnows' /\ SeenEnough'
<1>1. Knows(NoOp) /\ Enough(NoOp)
  BY NoOpType DEF Knows, Enough
<1>. QED
  BY <1>1, NoOpType, OpStep DEF Finish

(* Starting an operation at a stage that has read nothing is one, too.      *)
LEMMA BeginStep ==
  ASSUME Inv, NEW a \in Actors, NEW o \in Op, Knows(o), o.stage # "book",
         Begin(a, o), UNCHANGED anomalies, direct' = direct,
         opened' \in [Actors -> SUBSET Symbols]
  PROVE  Inv'
<1>1. op' \in [Actors -> Op] /\ OpKnows' /\ SeenEnough'
  BY OpStep DEF Begin, Enough
<1>. QED
  BY <1>1 DEF Inv, TypeOK, NeverOverdrawn, Begin, books

(* Entering one of the methods keeps Inv.                                   *)
LEMMA BeginInv ==
  ASSUME Inv, NEW a \in Actors, NEW s \in Symbols, NEW p \in MayPrice,
         NEW d \in Sides, NEW q \in Amounts,
         \/ BeginOrder(a, s, d, q, p)
         \/ p \in Prices /\ BeginOpen(a, s, d, q, p)
  PROVE  Inv'
<1>. USE NoOpType, TradingAssumption
<1>1. opened \in [Actors -> SUBSET Symbols] /\ PriceOr(s, p) \in MayPrice
  BY DEF Inv, TypeOK, PriceOr, MayPrice
<1>2. CASE BeginOrder(a, s, d, q, p)
  <2>. DEFINE o == [NoOp EXCEPT !.kind = "order", !.stage = "balance", !.sym = s,
                                !.side = d, !.amount = q, !.price = PriceOr(s, p)]
  <2>1. PriceOr(s, p) \in Prices /\ Begin(a, o) /\ UNCHANGED notes
    BY <1>1, <1>2 DEF BeginOrder, MayPrice
  <2>2. o \in Op /\ Knows(o) /\ o.stage = "balance"
    BY <2>1 DEF NoOp, Op, Kinds, Stages, MayPrice, Knows
  <2>. HIDE DEF o
  <2>. QED
    BY <1>1, <2>1, <2>2, BeginStep DEF notes
<1>3. CASE p \in Prices /\ BeginOpen(a, s, d, q, p)
  <2>. DEFINE o == [NoOp EXCEPT !.kind = "open", !.stage = "balance", !.sym = s,
                                !.side = d, !.amount = q, !.price = p]
  <2>1. Begin(a, o) /\ UNCHANGED notes
    BY <1>3 DEF BeginOpen
  <2>2. o \in Op /\ Knows(o) /\ o.stage = "balance"
    BY <1>3 DEF NoOp, Op, Kinds, Stages, MayPrice, Knows
  <2>. HIDE DEF o
  <2>. QED
    BY <1>1, <2>1, <2>2, BeginStep DEF notes
<1>. QED
  BY <1>2, <1>3

LEMMA BeginCloseInv ==
  ASSUME Inv, NEW a \in Actors, NEW s \in Symbols, NEW p \in MayPrice, BeginClose(a, s, p)
  PROVE  Inv'
<1>. USE NoOpType, TradingAssumption
<1>. DEFINE o == [NoOp EXCEPT !.kind = "close", !.stage = "lookup", !.sym = s,
                              !.price = PriceOr(s, p)]
<1>1. opened \in [Actors -> SUBSET Symbols] /\ PriceOr(s, p) \in MayPrice
  BY DEF Inv, TypeOK, PriceOr, MayPrice
<1>2. PriceOr(s, p) \in Prices /\ Begin(a, o) /\ UNCHANGED notes
  BY <1>1 DEF BeginClose, MayPrice
<1>3. o \in Op /\ Knows(o) /\ o.stage = "lookup"
  BY <1>2 DEF NoOp, Op, Kinds, Stages, MayPrice, Knows
<1>. HIDE DEF o
<1>. QED
  BY <1>1, <1>2, <1>3, BeginStep DEF notes

LEMMA BeginCloseAllInv ==
  ASSUME Inv, NEW a \in Actors, BeginCloseAll(a)
  PROVE  Inv'
<1>. DEFINE listed == {t \in Symbols : rows[t] # NoRow}
            o == [NoOp EXCEPT !.kind = "closeAll", !.stage = "next", !.todo = listed]
<1>1. opened' \in [Actors -> SUBSET Symbols]
  BY DEF Inv, TypeOK, BeginCloseAll
<1>2. Begin(a, o) /\ UNCHANGED <<anomalies, direct>>
  BY DEF BeginCloseAll
<1>3. listed \in SUBSET Symbols
  OBVIOUS
<1>. HIDE DEF listed
<1>4. ASSUME NEW r \in Op
      PROVE  LET q == [r EXCEPT !.kind = "closeAll", !.stage = "next", !.todo = listed]
             IN  q \in Op /\ q.stage = "next"
  BY <1>3 DEF Op, Kinds, Stages
<1>5. o \in Op /\ o.stage = "next"
  BY <1>4, NoOpType
<1>. HIDE DEF o
<1>6. Knows(o)
  BY <1>5 DEF Knows
<1>. QED
  BY <1>1, <1>2, <1>5, <1>6, BeginStep

-----------------------------------------------------------------------------
(* The steps inside execute_market_order() keep Inv.  Book is where money   *)
(* moves: it writes back the balance it saw, less what it checked.          *)
LEMMA ReadBalanceInv == ASSUME Inv, NEW a \in Actors, ReadBalance(a) PROVE Inv'
<1>1. op[a] \in Op /\ Knows(op[a])
  BY DEF Inv, TypeOK, OpKnows
<1>2. op[a].stage = "balance"
  BY DEF ReadBalance, At
<1>3. op' \in [Actors -> Op] /\ OpKnows' /\ SeenEnough'
  <2>1. CASE Finish(a)
    BY <2>1, FinishStep
  <2>2. CASE /\ Payer(op[a]) >= Needed(op[a])
             /\ op' = [op EXCEPT ![a].stage = "book", ![a].seen = Payer(op[a])]
    <3>. DEFINE o == [op[a] EXCEPT !.stage = "book", !.seen = Payer(op[a])]
    <3>1. Payer(op[a]) \in Int
      BY <1>1, <1>2 DEF Payer, Inv, TypeOK, Knows
    <3>2. o \in Op /\ o.stage = "book" /\ o.seen = Payer(op[a])
      BY <1>1, <3>1 DEF Op, Stages
    <3>3. Knows(o)
      BY <1>1, <1>2 DEF Knows, Op
    <3>4. Needed(o) = Needed(op[a])
      BY <1>1 DEF Needed, Op
    <3>5. op' = [op EXCEPT ![a] = o]
      BY <2>2 DEF Inv, TypeOK
    <3>. HIDE DEF o
    <3>. QED
      BY <2>2, <3>2, <3>3, <3>4, <3>5, OpStep DEF Enough
  <2>. QED
    BY <2>1, <2>2 DEF ReadBalance
<1>. QED
  BY <1>3 DEF Inv, TypeOK, NeverOverdrawn, ReadBalance, books, notes

(* The operation after a fill is one that Inv allows.                       *)
LEMMA AfterFillOK ==
  ASSUME NEW o \in Op, Knows(o), o.stage = "book"
  PROVE  AfterFill(o) \in Op /\ Knows(AfterFill(o)) /\ Enough(AfterFill(o))
<1>1. CASE o.kind = "order"
  BY <1>1, NoOpType DEF AfterFill, Knows, Enough
<1>2. CASE o.kind = "open"
  BY <1>2 DEF AfterFill, Knows, Enough, Op, Stages
<1>3. CASE o.kind \notin {"order", "open"}
  BY <1>3 DEF AfterFill, Knows, Enough, Op, Stages
<1>. QED
  BY <1>1, <1>2, <1>3

LEMMA BookInv == ASSUME Inv, NEW a \in Actors, Book(a) PROVE Inv'
<1>. DEFINE o == op[a]
            cost == Ledger!Cost(o.side, o.amount, o.price)
<1>1. o \in Op /\ Knows(o) /\ Enough(o) /\ o.stage = "book"
  BY DEF Inv, TypeOK, OpKnows, SeenEnough, Book, At
<1>2. /\ o.sym \in Symbols /\ o.amount \in Nat \ {0} /\ o.price \in Prices
      /\ o.side \in {"buy", "sell"} /\ o.seen \in Int
  BY <1>1 DEF Knows, Op
<1>3. cost \in Nat
  BY <1>2, CostPositive
<1>4. cash \in Int /\ coins \in [Symbols -> Int] /\ spent \in Int /\ bought \in [Symbols -> Int]
  BY DEF Inv, TypeOK
<1>5. cash >= 0 /\ \A s \in Symbols : coins[s] >= 0
  BY DEF Inv, NeverOverdrawn
<1>6. bought' \in [Symbols -> Int]
  BY <1>2, <1>4 DEF Book, Fill, Signed
<1>7. /\ cash' \in Int /\ coins' \in [Symbols -> Int] /\ spent' \in Int
      /\ NeverOverdrawn'
  <2>1. CASE o.side = "buy"
    <3>1. o.seen >= cost
      BY <1>1, <2>1 DEF Enough, Needed
    <3>2. /\ cash' = o.seen - cost
          /\ coins' = [coins EXCEPT ![o.sym] = @ + o.amount]
          /\ spent' = spent + cost
      BY <2>1 DEF Book, Fill
    <3>. HIDE DEF cost
    <3>. QED
      BY <1>2, <1>3, <1>4, <1>5, <3>1, <3>2 DEF NeverOverdrawn
  <2>2. CASE o.side = "sell"
    <3>1. o.seen >= o.amount
      BY <1>1, <2>2 DEF Enough, Needed
    <3>2. /\ cash' = cash + cost
          /\ coins' = [coins EXCEPT ![o.sym] = o.seen - o.amount]
          /\ spent' = spent - cost
      BY <2>2 DEF Book, Fill, Credited
    <3>. HIDE DEF cost
    <3>. QED
      BY <1>2, <1>3, <1>4, <1>5, <3>1, <3>2 DEF NeverOverdrawn
  <2>. QED
    BY <1>2, <2>1, <2>2
<1>8. op' \in [Actors -> Op] /\ OpKnows' /\ SeenEnough'
  <2>1. op' = [op EXCEPT ![a] = AfterFill(o)]
    BY DEF Book
  <2>. QED
    BY <1>1, <2>1, AfterFillOK, OpStep
<1>9. anomalies' \in SUBSET AllAnomalies
  BY DEF Inv, TypeOK, Book, AllAnomalies
<1>10. direct' \in [Symbols -> Int]
  BY <1>2 DEF Inv, TypeOK, Book, Signed
<1>11. UNCHANGED <<rows, prices, started, opened>>
  BY DEF Book
<1>. QED
  BY <1>6, <1>7, <1>8, <1>9, <1>10, <1>11 DEF Inv, TypeOK

-----------------------------------------------------------------------------
(* The steps on the positions table leave the money alone.                  *)
LEMMA RowsStep ==
  ASSUME Inv, rows' \in [Symbols -> Row \cup {NoRow}],
         op' \in [Actors -> Op], OpKnows', SeenEnough',
         UNCHANGED <<books, prices, started, direct>>,
         anomalies' \in SUBSET AllAnomalies,
         opened' \in [Actors -> SUBSET Symbols]
  PROVE  Inv'
  BY DEF Inv, TypeOK, NeverOverdrawn, books

LEMMA ReadPositionInv == ASSUME Inv, NEW a \in Actors, ReadPosition(a) PROVE Inv'
<1>. DEFINE o == [op[a] EXCEPT !.stage = "save", !.row = rows[op[a].sym]]
<1>1. op[a] \in Op /\ Knows(op[a]) /\ op[a].stage = "position"
  BY DEF Inv, TypeOK, OpKnows, ReadPosition, At
<1>2. rows[op[a].sym] \in Row \cup {NoRow}
  BY <1>1 DEF Inv, TypeOK, Knows
<1>3. o \in Op /\ Knows(o) /\ Enough(o)
  BY <1>1, <1>2 DEF Op, Stages, Knows, Enough
<1>4. op' = [op EXCEPT ![a] = o]
  BY DEF ReadPosition, Inv, TypeOK
<1>. HIDE DEF o
<1>5. op' \in [Actors -> Op] /\ OpKnows' /\ SeenEnough'
  BY <1>3, <1>4, OpStep
<1>6. UNCHANGED <<books, rows, prices, started, notes>>
  BY DEF ReadPosition
<1>. QED
  BY <1>5, <1>6, RowsStep DEF Inv, TypeOK, notes

LEMMA InsertPositionInv == ASSUME Inv, NEW a \in Actors, InsertPosition(a) PROVE Inv'
<1>. DEFINE o == op[a]
<1>1. o \in Op /\ o.sym \in Symbols /\ o.amount \in Nat \ {0}
  BY DEF Inv, TypeOK, OpKnows, Knows, InsertPosition, At
<1>2. op' \in [Actors -> Op] /\ OpKnows' /\ SeenEnough'
  BY FinishStep DEF InsertPosition
<1>3. UNCHANGED <<books, prices, started, direct>>
  BY DEF InsertPosition
<1>4. rows \in [Symbols -> Row \cup {NoRow}] /\ anomalies \in SUBSET AllAnomalies
      /\ opened \in [Actors -> SUBSET Symbols]
  BY DEF Inv, TypeOK
<1>5. CASE rows[o.sym] = NoRow
  <2>1. PICK i \in 1 .. MaxOps :
          rows' = [rows EXCEPT ![o.sym] =
                     [id |-> i, side |-> o.side, qty |-> o.amount]]
    BY <1>5 DEF InsertPosition
  <2>2. [id |-> i, side |-> o.side, qty |-> o.amount] \in Row
    BY <1>1, TradingAssumption DEF Row, Op
  <2>3. rows' \in [Symbols -> Row \cup {NoRow}]
    BY <1>4, <2>1, <2>2
  <2>4. opened' \in [Actors -> SUBSET Symbols] /\ anomalies' = anomalies
    BY <1>1, <1>4, <1>5 DEF InsertPosition
  <2>. QED
    BY <1>2, <1>3, <1>4, <2>3, <2>4, RowsStep
<1>6. CASE rows[o.sym] # NoRow
  <2>1. /\ anomalies' = anomalies \cup {"unrecordedFill"}
        /\ UNCHANGED <<rows, opened>>
    BY <1>6 DEF InsertPosition
  <2>. QED
    BY <1>2, <1>3, <1>4, <2>1, RowsStep DEF AllAnomalies
<1>. QED
  BY <1>5, <1>6

LEMMA AverageInInv == ASSUME Inv, NEW a \in Actors, AverageIn(a) PROVE Inv'
<1>. DEFINE o == op[a]
<1>1. o \in Op /\ o.row \in Row /\ o.amount \in Nat \ {0}
  BY DEF Inv, TypeOK, OpKnows, Knows, AverageIn, At, Op
<1>2. op' \in [Actors -> Op] /\ OpKnows' /\ SeenEnough'
  BY FinishStep DEF AverageIn
<1>3. UNCHANGED <<books, prices, started, direct, opened>>
  BY DEF AverageIn
<1>4. rows \in [Symbols -> Row \cup {NoRow}] /\ anomalies \in SUBSET AllAnomalies
      /\ opened \in [Actors -> SUBSET Symbols]
  BY DEF Inv, TypeOK
<1>5. anomalies' \in SUBSET AllAnomalies
  BY <1>4 DEF AverageIn, AllAnomalies
<1>6. rows' \in [Symbols -> Row \cup {NoRow}]
  <2>1. CASE UNCHANGED rows
    BY <1>4, <2>1
  <2>2. ASSUME NEW t \in Symbols, HasId(t, o.row.id),
               rows' = [rows EXCEPT ![t].qty = Averaged(o)]
        PROVE  rows' \in [Symbols -> Row \cup {NoRow}]
    <3>1. rows[t] \in Row
      BY <1>4, <2>2 DEF HasId
    <3>2. Averaged(o) \in Nat \ {0}
      BY <1>1 DEF Averaged, Row
    <3>3. [rows[t] EXCEPT !.qty = Averaged(o)] \in Row
      BY <3>1, <3>2 DEF Row
    <3>. QED
      BY <1>4, <2>2, <3>3
  <2>. QED
    BY <2>1, <2>2 DEF AverageIn
<1>. QED
  BY <1>2, <1>3, <1>4, <1>5, <1>6, RowsStep

-----------------------------------------------------------------------------
(* After one close, the operation is over or a close-all goes on.           *)
LEMMA ClosedOK ==
  ASSUME NEW o \in Op
  PROVE  Closed(o) \in Op /\ Knows(Closed(o)) /\ Enough(Closed(o))
  BY NoOpType DEF Closed, Knows, Enough, Op, Stages

LEMMA LookUpInv == ASSUME Inv, NEW a \in Actors, LookUp(a) PROVE Inv'
<1>. DEFINE o == op[a]
            row == rows[o.sym]
            p == [o EXCEPT !.stage = "balance", !.row = row,
                           !.side = Opposite(row.side), !.amount = row.qty]
<1>1. o \in Op /\ Knows(o) /\ o.stage = "lookup"
  BY DEF Inv, TypeOK, OpKnows, LookUp, At
<1>2. row \in Row \cup {NoRow}
  BY <1>1 DEF Inv, TypeOK, Knows
<1>3. op' \in [Actors -> Op] /\ OpKnows' /\ SeenEnough'
  <2>1. CASE row = NoRow
    BY <1>1, <2>1, ClosedOK, OpStep DEF LookUp
  <2>2. CASE row # NoRow
    <3>1. row \in Row /\ row.qty \in Nat \ {0} /\ Opposite(row.side) \in {"buy", "sell"}
      BY <1>2, <2>2 DEF Row, Opposite
    <3>2. op' = [op EXCEPT ![a] = p]
      BY <2>2 DEF LookUp
    <3>. HIDE DEF row
    <3>3. p \in Op /\ Knows(p) /\ Enough(p)
      BY <1>1, <3>1 DEF Op, Stages, Knows, Enough
    <3>. HIDE DEF p
    <3>. QED
      BY <3>2, <3>3, OpStep
  <2>. QED
    BY <2>1, <2>2
<1>4. UNCHANGED <<books, rows, prices, started, notes>>
  BY DEF LookUp
<1>. QED
  BY <1>3, <1>4, RowsStep DEF Inv, TypeOK, notes

LEMMA RemoveInv == ASSUME Inv, NEW a \in Actors, Remove(a) PROVE Inv'
<1>1. op[a] \in Op
  BY DEF Inv, TypeOK
<1>2. op' \in [Actors -> Op] /\ OpKnows' /\ SeenEnough'
  BY <1>1, ClosedOK, OpStep DEF Remove
<1>3. rows' \in [Symbols -> Row \cup {NoRow}]
  BY DEF Remove, Inv, TypeOK
<1>4. anomalies' \in SUBSET AllAnomalies /\ opened' \in [Actors -> SUBSET Symbols]
  BY DEF Remove, Inv, TypeOK, AllAnomalies
<1>5. UNCHANGED <<books, prices, started, direct>>
  BY DEF Remove
<1>. QED
  BY <1>2, <1>3, <1>4, <1>5, RowsStep

LEMMA CloseAllInv ==
  ASSUME Inv, NEW a \in Actors, NextListed(a) \/ CloseAllReturns(a)
  PROVE  Inv'
<1>1. op' \in [Actors -> Op] /\ OpKnows' /\ SeenEnough'
  <2>1. CASE Finish(a)
    BY <2>1, FinishStep
  <2>2. ASSUME NEW s \in op[a].todo, prices[s] # NoPrice,
               op' = [op EXCEPT ![a].stage = "lookup", ![a].sym = s,
                                ![a].price = prices[s], ![a].todo = @ \ {s}]
        PROVE  op' \in [Actors -> Op] /\ OpKnows' /\ SeenEnough'
    <3>. DEFINE o == [op[a] EXCEPT !.stage = "lookup", !.sym = s,
                                   !.price = prices[s], !.todo = @ \ {s}]
    <3>1. op[a] \in Op /\ s \in Symbols /\ op[a].todo \ {s} \in SUBSET Symbols
      BY DEF Inv, TypeOK, Op
    <3>2. prices[s] \in Prices
      BY <2>2, <3>1 DEF Inv, TypeOK, MayPrice
    <3>3. o \in Op /\ o.stage = "lookup" /\ o.sym = s /\ o.price = prices[s]
      BY <3>1, <3>2 DEF Op, Stages, MayPrice
    <3>4. op' = [op EXCEPT ![a] = o]
      BY <2>2 DEF Inv, TypeOK
    <3>. HIDE DEF o
    <3>5. Knows(o) /\ Enough(o)
      BY <3>1, <3>2, <3>3 DEF Knows, Enough
    <3>. QED
      BY <3>3, <3>4, <3>5, OpStep
  <2>. QED
    BY <2>1, <2>2 DEF NextListed, CloseAllReturns
<1>2. UNCHANGED <<books, rows, prices, started, notes>>
  BY DEF NextListed, CloseAllReturns
<1>. QED
  BY <1>1, <1>2, RowsStep DEF Inv, TypeOK, notes

-----------------------------------------------------------------------------
(* A new price, a cancelled coroutine and a restart keep Inv as well.       *)
LEMMA InterruptInv == ASSUME Inv, NEW a \in Actors, Interrupt(a) PROVE Inv'
<1>1. op' \in [Actors -> Op] /\ OpKnows' /\ SeenEnough'
  BY FinishStep DEF Interrupt
<1>2. anomalies' \in SUBSET AllAnomalies
  BY DEF Interrupt, Torn, Inv, TypeOK, AllAnomalies
<1>. QED
  BY <1>1, <1>2, RowsStep DEF Interrupt, Inv, TypeOK

LEMMA RestartInv == ASSUME Inv, Restart PROVE Inv'
<1>1. op' \in [Actors -> Op] /\ \A a \in Actors : op'[a] = NoOp
  BY NoOpType DEF Restart
<1>2. OpKnows' /\ SeenEnough'
  BY <1>1, NoOpType DEF OpKnows, SeenEnough, Knows, Enough
<1>3. anomalies' \in SUBSET AllAnomalies
  BY DEF Restart, Torn, Inv, TypeOK, AllAnomalies
<1>4. prices' \in [Symbols -> MayPrice]
  BY DEF Restart, MayPrice
<1>. QED
  BY <1>1, <1>2, <1>3, <1>4 DEF Restart, Inv, TypeOK, NeverOverdrawn, books

LEMMA NextInv == Inv /\ [Next]_vars => Inv'
<1>. SUFFICES ASSUME Inv, [Next]_vars PROVE Inv'
  OBVIOUS
<1>1. ASSUME NEW s \in Symbols, NEW p \in Prices, UpdatePrice(s, p)
      PROVE  Inv'
  BY <1>1 DEF UpdatePrice, Inv, TypeOK, OpKnows, SeenEnough, NeverOverdrawn, books,
              notes, MayPrice
<1>2. ASSUME NEW a \in Actors, Step(a)
      PROVE  Inv'
  BY <1>2, ReadBalanceInv, BookInv, ReadPositionInv, InsertPositionInv, AverageInInv,
     LookUpInv, RemoveInv, CloseAllInv DEF Step
<1>3. CASE UNCHANGED vars
  BY <1>3 DEF vars, Inv, TypeOK, OpKnows, SeenEnough, NeverOverdrawn
<1>4. ASSUME NEW a \in Actors, NEW s \in Symbols, NEW d \in Sides, NEW q \in Amounts,
             \/ \E p \in MayPrice : BeginOrder(a, s, d, q, p)
             \/ \E p \in Prices : BeginOpen(a, s, d, q, p)
      PROVE  Inv'
  <2>1. \A p \in MayPrice : BeginOrder(a, s, d, q, p) => Inv'
    BY BeginInv
  <2>2. \A p \in Prices : p \in MayPrice /\ (BeginOpen(a, s, d, q, p) => Inv')
    BY BeginInv DEF MayPrice
  <2>. QED
    BY <1>4, <2>1, <2>2
<1>5. ASSUME NEW a \in Actors, NEW s \in Symbols, NEW p \in MayPrice, BeginClose(a, s, p)
      PROVE  Inv'
  BY <1>5, BeginCloseInv
<1>. QED
  BY <1>1, <1>2, <1>3, <1>4, <1>5, BeginCloseAllInv, InterruptInv, RestartInv DEF Next

(* The variables of the paper account always have their types.              *)
THEOREM TypeCorrect == Spec => []TypeOK
<1>1. Inv => TypeOK
  BY DEF Inv
<1>. QED
  BY <1>1, InitInv, NextInv, PTL DEF Spec

(* No coroutine, interleaving, interruption or restart drives a balance     *)
(* below zero.                                                              *)
THEOREM NeverOverdrawnCorrect == Spec => []NeverOverdrawn
<1>1. Inv => NeverOverdrawn
  BY DEF Inv
<1>. QED
  BY <1>1, InitInv, NextInv, PTL DEF Spec

-----------------------------------------------------------------------------
(* Every step but Book leaves the books alone, and what is recorded in the  *)
(* history variable stays there.                                            *)
LEMMA BooksOnlyInBook ==
  ASSUME [Next]_vars
  PROVE  /\ UNCHANGED books \/ \E a \in Actors : Book(a)
         /\ anomalies \subseteq anomalies'
<1>1. CASE UNCHANGED vars
  BY <1>1 DEF vars, books
<1>2. ASSUME NEW a \in Actors, Step(a)
      PROVE  /\ UNCHANGED books \/ Book(a)
             /\ anomalies \subseteq anomalies'
  BY <1>2 DEF Step, ReadBalance, Book, ReadPosition, InsertPosition, AverageIn, LookUp,
              Remove, NextListed, CloseAllReturns, notes
<1>3. ASSUME NEW a \in Actors, BeginCloseAll(a) \/ Interrupt(a)
      PROVE  UNCHANGED books /\ anomalies \subseteq anomalies'
  BY <1>3 DEF BeginCloseAll, Interrupt, Begin
<1>4. ASSUME NEW a \in Actors, NEW s \in Symbols, NEW p \in MayPrice, NEW d, NEW q,
             BeginOrder(a, s, d, q, p) \/ BeginOpen(a, s, d, q, p) \/ BeginClose(a, s, p)
      PROVE  UNCHANGED books /\ anomalies \subseteq anomalies'
  BY <1>4 DEF BeginOrder, BeginOpen, BeginClose, Begin, notes
<1>5. CASE Restart \/ \E s \in Symbols, p \in Prices : UpdatePrice(s, p)
  BY <1>5 DEF Restart, UpdatePrice, notes
<1>. QED
  BY <1>1, <1>2, <1>3, <1>4, <1>5 DEF Next, MayPrice

(* What a fill does to the books when nobody touched the balance it read.   *)
LEMMA FreshFill ==
  ASSUME Inv, NEW a \in Actors, Book(a), "staleBalance" \notin anomalies'
  PROVE  LET o == op[a] IN
         /\ o.sym \in Symbols /\ o.amount \in Nat \ {0} /\ o.price \in Prices
         /\ \/ /\ o.side = "buy"
               /\ Ledger!Buy(o.sym, o.amount, o.price)
            \/ /\ o.side = "sell"
               /\ Ledger!Sell(o.sym, o.amount, o.price)
<1>. DEFINE o == op[a]
<1>1. o \in Op /\ Knows(o) /\ Enough(o) /\ o.stage = "book"
  BY DEF Inv, TypeOK, OpKnows, SeenEnough, Book, At
<1>2. /\ o.sym \in Symbols /\ o.amount \in Nat \ {0} /\ o.price \in Prices
      /\ o.side \in {"buy", "sell"}
  BY <1>1 DEF Knows, Op
<1>3. o.seen = Payer(o) /\ Fill(o)
  BY DEF Book
<1>4. bought \in [Symbols -> Int] /\ coins \in [Symbols -> Int]
  BY DEF Inv, TypeOK
<1>5. CASE o.side = "buy"
  BY <1>1, <1>2, <1>3, <1>5 DEF Payer, Fill, Signed, Enough, Needed, Ledger!Buy
<1>6. CASE o.side = "sell"
  <2>1. coins[o.sym] >= o.amount
    BY <1>1, <1>3, <1>6 DEF Payer, Enough, Needed
  <2>2. bought' = [bought EXCEPT ![o.sym] = @ - o.amount]
    BY <1>2, <1>3, <1>4, <1>6 DEF Fill, Signed
  <2>3. /\ cash' = cash + Ledger!Cost("sell", o.amount, o.price)
        /\ coins' = [coins EXCEPT ![o.sym] = @ - o.amount]
        /\ spent' = spent - Ledger!Cost("sell", o.amount, o.price)
    BY <1>2, <1>3, <1>4, <1>6 DEF Fill, Payer, Credited
  <2>. QED
    BY <1>2, <1>6, <2>1, <2>2, <2>3 DEF Ledger!Sell
<1>. QED
  BY <1>2, <1>5, <1>6

(* The balances add up to the trade history as long as no order was         *)
(* computed from a balance that had changed since it was read.              *)
THEOREM BooksBalanceCorrect == Spec => []BooksBalanceUnlessStale
<1>1. Init => BooksBalanceUnlessStale
  BY TradingAssumption DEF Init, Ledger!Init, BooksBalanceUnlessStale, BooksBalance
<1>2. Inv /\ BooksBalanceUnlessStale /\ [Next]_vars => BooksBalanceUnlessStale'
  <2>. SUFFICES ASSUME Inv, BooksBalanceUnlessStale, [Next]_vars,
                       "staleBalance" \notin anomalies'
                PROVE  BooksBalance'
    BY DEF BooksBalanceUnlessStale
  <2>1. BooksBalance
    BY BooksOnlyInBook DEF BooksBalanceUnlessStale
  <2>2. CASE UNCHANGED books
    BY <2>1, <2>2 DEF BooksBalance, books
  <2>3. ASSUME NEW a \in Actors, Book(a)
        PROVE  BooksBalance'
    <3>. DEFINE o == op[a]
                cost == Ledger!Cost(o.side, o.amount, o.price)
    <3>1. /\ o.sym \in Symbols /\ o.amount \in Nat \ {0} /\ o.price \in Prices
          /\ \/ o.side = "buy" /\ Ledger!Buy(o.sym, o.amount, o.price)
             \/ o.side = "sell" /\ Ledger!Sell(o.sym, o.amount, o.price)
      BY <2>3, FreshFill
    <3>2. cost \in Nat
      BY <3>1, CostPositive
    <3>3. cash \in Int /\ spent \in Int /\ InitialCash \in Int /\ coins = bought
          /\ cash = InitialCash - spent
      BY <2>1, TradingAssumption DEF Inv, TypeOK, BooksBalance
    <3>4. CASE o.side = "buy" /\ Ledger!Buy(o.sym, o.amount, o.price)
      BY <3>2, <3>3, <3>4 DEF Ledger!Buy, BooksBalance
    <3>5. CASE o.side = "sell" /\ Ledger!Sell(o.sym, o.amount, o.price)
      BY <3>2, <3>3, <3>5 DEF Ledger!Sell, BooksBalance
    <3>. QED
      BY <3>1, <3>4, <3>5
  <2>. QED
    BY <2>2, <2>3, BooksOnlyInBook
<1>. QED
  BY <1>1, <1>2, InitInv, NextInv, PTL DEF Spec

(* The engine implements the atomic ledger, step by step, until the first   *)
(* stale balance.                                                           *)
THEOREM AtomicCorrect == Spec => AtomicUnlessStale
<1>1. Inv /\ [Next]_vars => ["staleBalance" \notin anomalies' => Ledger!Next]_books
  <2>. SUFFICES ASSUME Inv, [Next]_vars, "staleBalance" \notin anomalies'
                PROVE  UNCHANGED books \/ Ledger!Next
    OBVIOUS
  <2>1. ASSUME NEW a \in Actors, Book(a)
        PROVE  Ledger!Next
    <3>. DEFINE o == op[a]
    <3>1. /\ o.sym \in Symbols /\ o.amount \in Nat \ {0} /\ o.price \in Prices
          /\ \/ o.side = "buy" /\ Ledger!Buy(o.sym, o.amount, o.price)
             \/ o.side = "sell" /\ Ledger!Sell(o.sym, o.amount, o.price)
      BY <2>1, FreshFill
    <3>2. bought \in [Symbols -> Int]
      BY DEF Inv, TypeOK
    <3>3. CASE Ledger!Buy(o.sym, o.amount, o.price)
      <4>1. bought'[o.sym] - bought[o.sym] = o.amount /\ bought'[o.sym] > bought[o.sym]
        BY <3>1, <3>2, <3>3 DEF Ledger!Buy
      <4>. QED
        BY <3>1, <3>3, <4>1 DEF Ledger!Next
    <3>4. CASE Ledger!Sell(o.sym, o.amount, o.price)
      <4>1. bought[o.sym] - bought'[o.sym] = o.amount /\ bought'[o.sym] < bought[o.sym]
        BY <3>1, <3>2, <3>4 DEF Ledger!Sell
      <4>. QED
        BY <3>1, <3>4, <4>1 DEF Ledger!Next
    <3>. QED
      BY <3>1, <3>3, <3>4
  <2>. QED
    BY <2>1, BooksOnlyInBook
<1>. QED
  BY <1>1, InitInv, NextInv, PTL DEF Spec, AtomicUnlessStale

-----------------------------------------------------------------------------
(* While a close-all works on a symbol, the row it looked up is there under *)
(* the same id, or is gone, unless the position was opened again.  With     *)
(* this CloseAllComplete is inductive.                                      *)
Cleared(a, done) == \A s \in Symbols \ (op[a].todo \cup opened[a] \cup done) : rows[s] = NoRow

SameRow(a) ==
    \/ op[a].sym \in opened[a]
    \/ rows[op[a].sym] = NoRow
    \/ rows[op[a].sym].id = op[a].row.id

Progress(a) ==
    /\ op[a].stage = "next" => op[a].kind = "closeAll" /\ Cleared(a, {})
    /\ op[a].kind = "closeAll" => Cleared(a, {op[a].sym})
    /\ op[a].kind = "closeAll" /\ op[a].stage \in {"balance", "book", "remove"} => SameRow(a)

CloseAllProgress == \A a \in Actors : Progress(a)

(* A row was deleted, opened under everybody's eyes, or keeps its id.       *)
RowsMove(a) ==
    /\ opened[a] \subseteq opened'[a]
    /\ \A s \in Symbols :
        \/ rows'[s] = NoRow
        \/ s \in opened'[a]
        \/ rows[s] # NoRow /\ rows'[s].id = rows[s].id

LEMMA KeepProgress ==
  ASSUME Inv, NEW a \in Actors, Progress(a), op'[a] = op[a], RowsMove(a)
  PROVE  Progress(a)'
<1>1. op[a].stage \notin {"idle", "next"} => op[a].sym \in Symbols
  BY DEF Inv, OpKnows, Knows
<1>2. ASSUME NEW done, Cleared(a, done) PROVE Cleared(a, done)'
  BY <1>2 DEF Cleared, RowsMove
<1>3. ASSUME op[a].sym \in Symbols, SameRow(a) PROVE SameRow(a)'
  BY <1>3 DEF SameRow, RowsMove
<1>. QED
  BY <1>1, <1>2, <1>3 DEF Progress

(* An actor outside any close-all has nothing to show.                      *)
LEMMA OutsideProgress ==
  ASSUME NEW a \in Actors, op'[a].kind # "closeAll", op'[a].stage # "next"
  PROVE  Progress(a)'
  BY DEF Progress

(* No step opens a position behind the back of a close-all.                 *)
LEMMA StepMovesRows ==
  ASSUME Inv, NEW a \in Actors, Step(a)
  PROVE  \A b \in Actors : RowsMove(b)
<1>. USE DEF RowsMove
<1>1. CASE UNCHANGED <<rows, opened>>
  BY <1>1
<1>2. CASE InsertPosition(a) /\ ~UNCHANGED <<rows, opened>>
  <2>1. PICK i \in 1 .. MaxOps :
          rows' = [rows EXCEPT ![op[a].sym] =
                     [id |-> i, side |-> op[a].side, qty |-> op[a].amount]]
    BY <1>2 DEF InsertPosition
  <2>2. \A b \in Actors : opened'[b] = opened[b] \cup {op[a].sym}
    BY <1>2 DEF InsertPosition
  <2>3. rows \in [Symbols -> Row \cup {NoRow}]
    BY DEF Inv, TypeOK
  <2>. QED
    BY <2>1, <2>2, <2>3
<1>3. CASE AverageIn(a) /\ ~UNCHANGED <<rows, opened>>
  <2>1. PICK t \in Symbols : /\ rows[t] # NoRow
                             /\ rows' = [rows EXCEPT ![t].qty = Averaged(op[a])]
    BY <1>3 DEF AverageIn, HasId
  <2>2. rows \in [Symbols -> Row \cup {NoRow}] /\ opened' = opened
    BY <1>3 DEF Inv, TypeOK, AverageIn
  <2>3. rows[t] \in Row
    BY <2>1, <2>2
  <2>4. rows'[t].id = rows[t].id
    BY <2>1, <2>2, <2>3 DEF Row
  <2>5. \A s \in Symbols : s = t \/ rows'[s] = rows[s]
    BY <2>1, <2>2
  <2>. QED
    BY <2>1, <2>2, <2>4, <2>5
<1>4. CASE Remove(a)
  BY <1>4 DEF Remove, Inv, TypeOK
<1>. QED
  BY <1>1, <1>2, <1>3, <1>4
     DEF Step, ReadBalance, Book, ReadPosition, LookUp, NextListed, CloseAllReturns, notes

(* The step of an actor keeps its own progress.                             *)
LEMMA OwnProgress ==
  ASSUME Inv, CloseAllProgress, NEW a \in Actors, Step(a)
  PROVE  Progress(a)'
<1>. DEFINE o == op[a]
<1>1. o \in Op /\ Knows(o) /\ Progress(a) /\ op \in [Actors -> Op]
  BY DEF Inv, TypeOK, OpKnows, CloseAllProgress
<1>2. CASE Finish(a)
  BY <1>1, <1>2, NoOpType, OutsideProgress DEF Finish
<1>3. CASE ReadBalance(a) /\ ~Finish(a)
  <2>1. /\ op' = [op EXCEPT ![a].stage = "book", ![a].seen = Payer(op[a])]
        /\ UNCHANGED <<rows, opened>> /\ o.stage = "balance"
    BY <1>3 DEF ReadBalance, At, notes
  <2>2. /\ op'[a].kind = o.kind /\ op'[a].todo = o.todo /\ op'[a].sym = o.sym
        /\ op'[a].row = o.row /\ op'[a].stage = "book"
    BY <1>1, <2>1 DEF Op
  <2>. QED
    BY <1>1, <2>1, <2>2 DEF Progress, Cleared, SameRow
<1>4. CASE Book(a)
  <2>1. /\ op'[a] = AfterFill(o) /\ o.stage = "book"
        /\ UNCHANGED <<rows, opened>>
    BY <1>1, <1>4 DEF Book, At
  <2>2. CASE o.kind # "closeAll"
    <3>1. op'[a].kind # "closeAll" /\ op'[a].stage # "next"
      BY <1>1, <2>1, <2>2, NoOpType DEF AfterFill, Op
    <3>. QED
      BY <3>1, OutsideProgress
  <2>3. CASE o.kind = "closeAll"
    <3>1. op'[a] = [o EXCEPT !.stage = "remove"]
      BY <2>1, <2>3 DEF AfterFill
    <3>2. /\ op'[a].kind = o.kind /\ op'[a].todo = o.todo /\ op'[a].sym = o.sym
          /\ op'[a].row = o.row /\ op'[a].stage = "remove"
      BY <1>1, <3>1 DEF Op
    <3>. QED
      BY <1>1, <2>1, <2>3, <3>2 DEF Progress, Cleared, SameRow
  <2>. QED
    BY <2>2, <2>3
<1>5. CASE ReadPosition(a)
  <2>1. /\ op' = [op EXCEPT ![a].stage = "save", ![a].row = rows[op[a].sym]]
        /\ UNCHANGED <<rows, opened>>
    BY <1>5 DEF ReadPosition, notes
  <2>2. /\ op'[a].kind = o.kind /\ op'[a].todo = o.todo /\ op'[a].sym = o.sym
        /\ op'[a].stage = "save"
    BY <1>1, <2>1 DEF Op
  <2>. QED
    BY <1>1, <2>1, <2>2 DEF Progress, Cleared
<1>6. CASE LookUp(a)
  <2>1. o.stage = "lookup" /\ o.sym \in Symbols /\ UNCHANGED <<rows, opened>>
    BY <1>1, <1>6 DEF LookUp, At, Knows, notes
  <2>2. CASE rows[o.sym] # NoRow
    <3>1. op' = [op EXCEPT ![a] = [o EXCEPT !.stage = "balance", !.row = rows[o.sym],
                                            !.side = Opposite(rows[o.sym].side),
                                            !.amount = rows[o.sym].qty]]
      BY <1>6, <2>2 DEF LookUp
    <3>2. /\ op'[a].kind = o.kind /\ op'[a].todo = o.todo /\ op'[a].sym = o.sym
          /\ op'[a].row = rows[o.sym] /\ op'[a].stage = "balance"
      BY <1>1, <3>1 DEF Op
    <3>. QED
      BY <1>1, <2>1, <3>2 DEF Progress, Cleared, SameRow
  <2>3. CASE rows[o.sym] = NoRow
    <3>1. op'[a] = Closed(o)
      BY <1>1, <1>6, <2>3 DEF LookUp
    <3>2. CASE o.kind # "closeAll"
      BY <3>1, <3>2, NoOpType, OutsideProgress DEF Closed
    <3>3. CASE o.kind = "closeAll"
      <4>1. /\ op'[a].kind = o.kind /\ op'[a].todo = o.todo /\ op'[a].sym = o.sym
            /\ op'[a].stage = "next"
        BY <1>1, <3>1, <3>3 DEF Closed, Op
      <4>. QED
        BY <1>1, <2>1, <2>3, <3>3, <4>1 DEF Progress, Cleared
    <3>. QED
      BY <3>2, <3>3
  <2>. QED
    BY <2>2, <2>3
<1>7. CASE Remove(a)
  <2>1. /\ o.stage = "remove" /\ o.sym \in Symbols /\ op'[a] = Closed(o)
        /\ opened' = opened
    BY <1>1, <1>7 DEF Remove, At, Knows
  <2>2. rows' = [t \in Symbols |-> IF HasId(t, o.row.id) THEN NoRow ELSE rows[t]]
    BY <1>7 DEF Remove
  <2>3. CASE o.kind # "closeAll"
    BY <2>1, <2>3, NoOpType, OutsideProgress DEF Closed
  <2>4. CASE o.kind = "closeAll"
    <3>1. /\ op'[a].kind = o.kind /\ op'[a].todo = o.todo /\ op'[a].sym = o.sym
          /\ op'[a].stage = "next"
      BY <1>1, <2>1, <2>4 DEF Closed, Op
    <3>2. o.sym \in opened[a] \/ rows'[o.sym] = NoRow
      BY <1>1, <2>1, <2>2, <2>4 DEF Progress, SameRow, HasId
    <3>. QED
      BY <1>1, <2>1, <2>2, <2>4, <3>1, <3>2 DEF Progress, Cleared
  <2>. QED
    BY <2>3, <2>4
<1>8. CASE NextListed(a) /\ ~Finish(a)
  <2>1. PICK s \in o.todo : op' = [op EXCEPT ![a].stage = "lookup", ![a].sym = s,
                                    ![a].price = prices[s], ![a].todo = @ \ {s}]
    BY <1>8 DEF NextListed
  <2>2. o.stage = "next" /\ UNCHANGED <<rows, opened>>
    BY <1>8 DEF NextListed, At, notes
  <2>3. /\ op'[a].kind = o.kind /\ op'[a].todo = o.todo \ {s} /\ op'[a].sym = s
        /\ op'[a].stage = "lookup"
    BY <1>1, <2>1 DEF Op
  <2>. QED
    BY <1>1, <2>2, <2>3 DEF Progress, Cleared
<1>. QED
  BY <1>2, <1>3, <1>4, <1>5, <1>6, <1>7, <1>8
     DEF Step, InsertPosition, AverageIn, CloseAllReturns

(* A close-all that gets to the end of its list leaves no listed position   *)
(* open, whatever the other coroutines open and close meanwhile.            *)
THEOREM CloseAllCorrect == Spec => []CloseAllComplete
<1>1. CloseAllProgress => CloseAllComplete
  BY DEF CloseAllProgress, CloseAllComplete, Progress, Cleared, At
<1>2. Init => CloseAllProgress
  BY NoOpType DEF Init, CloseAllProgress, Progress
<1>3. Inv /\ CloseAllProgress /\ [Next]_vars => CloseAllProgress'
  <2>. SUFFICES ASSUME Inv, CloseAllProgress, [Next]_vars, NEW b \in Actors
                PROVE  Progress(b)'
    BY DEF CloseAllProgress
  <2>. USE DEF CloseAllProgress
  <2>1. op \in [Actors -> Op] /\ opened \in [Actors -> SUBSET Symbols]
    BY DEF Inv, TypeOK
  <2>2. ASSUME op' = op, UNCHANGED <<rows, opened>>
        PROVE  Progress(b)'
    BY <2>2 DEF Progress, Cleared, SameRow
  <2>3. ASSUME NEW a \in Actors, NEW o, op' = [op EXCEPT ![a] = o],
               o.kind # "closeAll", o.stage # "next", UNCHANGED <<rows, opened>>
        PROVE  Progress(b)'
    <3>1. CASE b = a
      BY <2>1, <2>3, <3>1, OutsideProgress
    <3>2. CASE b # a
      BY <2>1, <2>3, <3>2 DEF Progress, Cleared, SameRow
    <3>. QED
      BY <3>1, <3>2
  <2>4. ASSUME NEW a \in Actors, Step(a)
        PROVE  Progress(b)'
    <3>1. CASE b = a
      BY <2>4, <3>1, OwnProgress
    <3>2. CASE b # a
      <4>1. op'[b] = op[b]
        BY <2>1, <2>4, <3>2 DEF Step, ReadBalance, Book, ReadPosition, InsertPosition,
           AverageIn, LookUp, Remove, NextListed, CloseAllReturns, Finish
      <4>. QED
        BY <2>4, <4>1, StepMovesRows, KeepProgress
    <3>. QED
      BY <3>1, <3>2
  <2>5. ASSUME NEW a \in Actors, BeginCloseAll(a)
        PROVE  Progress(b)'
    <3>1. CASE b = a
      <4>. DEFINE listed == {t \in Symbols : rows[t] # NoRow}
      <4>1. /\ op' = [op EXCEPT ![a] = [NoOp EXCEPT !.kind = "closeAll", !.stage = "next",
                                                    !.todo = listed]]
            /\ rows' = rows
        BY <2>5 DEF BeginCloseAll, Begin
      <4>2. op'[a].kind = "closeAll" /\ op'[a].stage = "next" /\ op'[a].todo = listed
        BY <2>1, <4>1 DEF NoOp
      <4>. QED
        BY <3>1, <4>1, <4>2 DEF Progress, Cleared
    <3>2. CASE b # a
      BY <2>1, <2>5, <3>2 DEF BeginCloseAll, Begin, Progress, Cleared, SameRow
    <3>. QED
      BY <3>1, <3>2
  <2>6. ASSUME NEW a \in Actors, NEW s \in Symbols, NEW p, NEW d, NEW q,
               BeginOrder(a, s, d, q, p) \/ BeginOpen(a, s, d, q, p) \/ BeginClose(a, s, p)
        PROVE  Progress(b)'
    <3>1. CASE BeginOrder(a, s, d, q, p)
      <4>. DEFINE o == [NoOp EXCEPT !.kind = "order", !.stage = "balance", !.sym = s,
                                    !.side = d, !.amount = q, !.price = PriceOr(s, p)]
      <4>1. op' = [op EXCEPT ![a] = o] /\ UNCHANGED <<rows, opened>>
        BY <3>1 DEF BeginOrder, Begin, notes
      <4>2. o.kind # "closeAll" /\ o.stage # "next"
        BY DEF NoOp
      <4>. HIDE DEF o
      <4>. QED
        BY <2>3, <4>1, <4>2
    <3>2. CASE BeginOpen(a, s, d, q, p)
      <4>. DEFINE o == [NoOp EXCEPT !.kind = "open", !.stage = "balance", !.sym = s,
                                    !.side = d, !.amount = q, !.price = p]
      <4>1. op' = [op EXCEPT ![a] = o] /\ UNCHANGED <<rows, opened>>
        BY <3>2 DEF BeginOpen, Begin, notes
      <4>2. o.kind # "closeAll" /\ o.stage # "next"
        BY DEF NoOp
      <4>. HIDE DEF o
      <4>. QED
        BY <2>3, <4>1, <4>2
    <3>3. CASE BeginClose(a, s, p)
      <4>. DEFINE o == [NoOp EXCEPT !.kind = "close", !.stage = "lookup", !.sym = s,
                                    !.price = PriceOr(s, p)]
      <4>1. op' = [op EXCEPT ![a] = o] /\ UNCHANGED <<rows, opened>>
        BY <3>3 DEF BeginClose, Begin, notes
      <4>2. o.kind # "closeAll" /\ o.stage # "next"
        BY DEF NoOp
      <4>. HIDE DEF o
      <4>. QED
        BY <2>3, <4>1, <4>2
    <3>. QED
      BY <2>6, <3>1, <3>2, <3>3
  <2>7. ASSUME NEW a \in Actors, Interrupt(a)
        PROVE  Progress(b)'
    BY <2>3, <2>7, NoOpType DEF Interrupt, Finish
  <2>8. CASE Restart
    <3>1. op'[b] = NoOp
      BY <2>8 DEF Restart
    <3>. QED
      BY <3>1, NoOpType, OutsideProgress
  <2>9. CASE UNCHANGED vars \/ \E s \in Symbols, p \in Prices : UpdatePrice(s, p)
    BY <2>2, <2>9 DEF vars, UpdatePrice, notes
  <2>. QED
    BY <2>4, <2>5, <2>6, <2>7, <2>8, <2>9 DEF Next
<1>. QED
  BY <1>1, <1>2, <1>3, InitInv, NextInv, PTL DEF Spec
-----------------------------------------------------------------------------
(* PositionsMatchCoins.  Between its fill and its write to the positions    *)
(* table an operation has coins that no row explains yet, or a row whose    *)
(* coins are gone: Pending.  The pending amounts of all actors are added up *)
(* in a fixed order of the actors; h[i] is the sum over the first i.        *)
Pending(a, s) ==
    IF op[a].sym = s /\ op[a].stage \in {"position", "save", "remove"}
    THEN Signed(op[a].side, op[a].amount) ELSE 0

Last == Cardinality(Actors)
Order == CHOOSE f : f \in Bijection(1 .. Last, Actors)

RunningTotal(s, h) ==
    /\ h \in [0 .. Last -> Int]
    /\ h[0] = 0
    /\ \A i \in 1 .. Last : h[i] = h[i - 1] + Pending(Order[i], s)

CoinsAccounted ==
    anomalies = {} =>
        \A s \in Symbols : \E h : /\ RunningTotal(s, h)
                                  /\ coins[s] = direct[s] + Held(s) + h[Last]

(* Two rows never have the same id.                                         *)
IdsDiffer ==
    \A s, t \in Symbols :
        rows[s] # NoRow /\ rows[t] # NoRow /\ rows[s].id = rows[t].id => s = t

(* A close trades away the whole row it looked up; only a close removes.    *)
ClosesWhole(o) ==
    /\ o.stage = "remove" => o.kind \notin {"order", "open"}
    /\ o.stage \in {"balance", "book", "remove"} /\ o.kind \notin {"order", "open"} =>
          /\ o.row \in Row
          /\ o.side = Opposite(o.row.side)
          /\ o.amount = o.row.qty

ClosesAreWhole == \A a \in Actors : ClosesWhole(op[a])

MatchInv == Inv /\ IdsDiffer /\ ClosesAreWhole /\ CoinsAccounted

(* A set of natural numbers has a smallest one.                             *)
LEMMA SmallestOf ==
  ASSUME NEW P \in SUBSET Nat, P # {}
  PROVE  \E m \in P : \A k \in P : m <= k
<1>1. PICK m \in P : \A k \in P : <<k, m>> \notin OpToRel(<, Nat)
  BY WFMin, NatLessThanWellFounded, Zenon
<1>2. m \in Nat /\ \A k \in P : k \in Nat /\ ~(k < m)
  BY <1>1, Zenon DEF OpToRel
<1>. QED
  BY <1>2

LEMMA OrderType ==
  /\ Last \in Nat
  /\ Order \in [1 .. Last -> Actors]
  /\ \A a \in Actors : \E i \in 1 .. Last : Order[i] = a
  /\ \A i, j \in 1 .. Last : Order[i] = Order[j] => i = j
<1>1. Last \in Nat /\ ExistsBijection(1 .. Last, Actors)
  BY FS_CardinalityType, TradingAssumption DEF Last
<1>2. Order \in Bijection(1 .. Last, Actors)
  BY <1>1 DEF ExistsBijection, Order
<1>3. Order \in Injection(1 .. Last, Actors) /\ Order \in Surjection(1 .. Last, Actors)
  BY <1>2 DEF Bijection
<1>4. /\ Order \in [1 .. Last -> Actors]
      /\ \A i, j \in 1 .. Last : Order[i] = Order[j] => i = j
  BY <1>3 DEF Injection, IsInjective
<1>5. \A a \in Actors : \E i \in 1 .. Last : Order[i] = a
  BY <1>3, Zenon DEF Surjection
<1>. QED
  BY <1>1, <1>4, <1>5

LEMMA PendingType ==
  ASSUME Inv, NEW a \in Actors, NEW s \in Symbols
  PROVE  Pending(a, s) \in Int
  BY DEF Inv, TypeOK, Op, Pending, Signed

(* A total stays when no actor's share of it changes ...                    *)
LEMMA TotalStays ==
  ASSUME NEW s, NEW h, RunningTotal(s, h),
         \A a \in Actors : Pending(a, s)' = Pending(a, s)
  PROVE  RunningTotal(s, h)'
<1>. USE OrderType
<1>1. \A i \in 1 .. Last : Order[i] \in Actors
  OBVIOUS
<1>2. \A i \in 1 .. Last : Pending(Order[i], s)' = Pending(Order[i], s)
  BY <1>1
<1>. QED
  BY <1>2 DEF RunningTotal

(* ... and moves by what one actor's share moves.                           *)
LEMMA TotalMoves ==
  ASSUME NEW s, NEW h, RunningTotal(s, h), NEW a \in Actors, NEW d \in Int,
         Pending(a, s)' = Pending(a, s) + d,
         \A b \in Actors : Pending(b, s) \in Int,
         \A b \in Actors \ {a} : Pending(b, s)' = Pending(b, s)
  PROVE  \E g : RunningTotal(s, g)' /\ g[Last] = h[Last] + d
<1>. USE OrderType
<1>1. PICK m \in 1 .. Last : Order[m] = a
  OBVIOUS
<1>. DEFINE g == [i \in 0 .. Last |-> IF i >= m THEN h[i] + d ELSE h[i]]
<1>2. g \in [0 .. Last -> Int] /\ g[0] = 0 /\ g[Last] = h[Last] + d
  <2>1. h \in [0 .. Last -> Int] /\ h[0] = 0 /\ 0 \in 0 .. Last /\ Last \in 0 .. Last
    BY DEF RunningTotal
  <2>2. \A i \in 0 .. Last : h[i] \in Int /\ h[i] + d \in Int
    BY <2>1
  <2>3. g \in [0 .. Last -> Int]
    BY <2>2
  <2>4. g[0] = 0
    BY <1>1, <2>1
  <2>5. g[Last] = h[Last] + d
    BY <1>1, <2>1
  <2>. QED
    BY <2>3, <2>4, <2>5
<1>3. ASSUME NEW i \in 1 .. Last
      PROVE  g[i] = g[i - 1] + Pending(Order[i], s)'
  <2>1. /\ h[i] = h[i - 1] + Pending(Order[i], s)
        /\ h[i] \in Int /\ h[i - 1] \in Int /\ Pending(Order[i], s) \in Int
    <3>1. i \in 0 .. Last /\ i - 1 \in 0 .. Last /\ Order[i] \in Actors
      OBVIOUS
    <3>. QED
      BY <3>1 DEF RunningTotal
  <2>2. g[i] = (IF i >= m THEN h[i] + d ELSE h[i])
    OBVIOUS
  <2>3. g[i - 1] = (IF i - 1 >= m THEN h[i - 1] + d ELSE h[i - 1])
    OBVIOUS
  <2>4. CASE i = m
    BY <1>1, <2>1, <2>2, <2>3, <2>4
  <2>5. CASE i # m
    <3>1. Order[i] # a /\ Order[i] \in Actors
      BY <1>1, <2>5
    <3>2. Pending(Order[i], s)' = Pending(Order[i], s)
      BY <3>1
    <3>. HIDE DEF g
    <3>. QED
      BY <2>1, <2>2, <2>3, <2>5, <3>2
  <2>. QED
    BY <2>4, <2>5
<1>. QED
  BY <1>2, <1>3 DEF RunningTotal

(* A total of nothing is zero.                                              *)
LEMMA TotalOfNothing ==
  ASSUME NEW s, NEW h, RunningTotal(s, h), \A a \in Actors : Pending(a, s) = 0
  PROVE  h[Last] = 0
<1>. USE OrderType
<1>. DEFINE P == {i \in 0 .. Last : h[i] # 0}
<1>1. SUFFICES ASSUME P # {} PROVE FALSE
  BY DEF RunningTotal
<1>2. PICK m \in P : \A k \in P : m <= k
  <2>1. P \in SUBSET Nat
    OBVIOUS
  <2>. HIDE DEF P
  <2>. QED
    BY <1>1, <2>1, SmallestOf
<1>3. m \in 1 .. Last
  BY <1>2 DEF RunningTotal
<1>4. h[m] = h[m - 1] + Pending(Order[m], s) /\ Pending(Order[m], s) = 0
  BY <1>3 DEF RunningTotal
<1>5. h[m - 1] \in Int /\ m - 1 \in 0 .. Last
  BY <1>3 DEF RunningTotal
<1>6. m - 1 \in P
  BY <1>2, <1>4, <1>5 DEF RunningTotal
<1>. QED
  BY <1>2, <1>3, <1>6
-----------------------------------------------------------------------------
(* What a symbol has beyond its direct orders, its row and the share of one *)
(* actor.  A step of that actor without an anomaly leaves it alone.         *)
Surplus(a, s) == coins[s] - direct[s] - Held(s) - Pending(a, s)

LEMMA HeldType ==
  ASSUME Inv, NEW s \in Symbols
  PROVE  Held(s) \in Int /\ coins[s] \in Int /\ direct[s] \in Int
<1>1. rows[s] \in Row \cup {NoRow} /\ coins[s] \in Int /\ direct[s] \in Int
  BY DEF Inv, TypeOK
<1>. QED
  BY <1>1 DEF Held, Row, Signed

LEMMA AccountStep ==
  ASSUME Inv, Inv', CoinsAccounted, anomalies \subseteq anomalies', NEW a \in Actors,
         \A b \in Actors \ {a} : op'[b] = op[b],
         anomalies' = {} => \A s \in Symbols : Surplus(a, s)' = Surplus(a, s)
  PROVE  CoinsAccounted'
<1>. SUFFICES ASSUME anomalies' = {}, NEW s \in Symbols
              PROVE  \E g : /\ RunningTotal(s, g)'
                            /\ coins'[s] = direct'[s] + Held(s)' + g[Last]
  BY DEF CoinsAccounted
<1>1. PICK h : RunningTotal(s, h) /\ coins[s] = direct[s] + Held(s) + h[Last]
  BY DEF CoinsAccounted
<1>. DEFINE Typed == /\ \A b \in Actors : Pending(b, s) \in Int
                     /\ Held(s) \in Int /\ coins[s] \in Int /\ direct[s] \in Int
<1>2. Typed
  BY PendingType, HeldType
<1>3. Typed'
  <2>1. \A b \in Actors : Pending(b, s)' \in Int
    BY DEF Inv, TypeOK, Op, Pending, Signed
  <2>2. rows'[s] \in Row \cup {NoRow} /\ coins'[s] \in Int /\ direct'[s] \in Int
    BY DEF Inv, TypeOK
  <2>3. Held(s)' \in Int
    BY <2>2 DEF Held, Row, Signed
  <2>. QED
    BY <2>1, <2>2, <2>3
<1>4. \A b \in Actors \ {a} : Pending(b, s)' = Pending(b, s)
  BY DEF Pending
<1>5. h[Last] \in Int
  BY <1>1, OrderType DEF RunningTotal
<1>6. PICK d \in Int : Pending(a, s)' = Pending(a, s) + d
  <2>1. Pending(a, s)' = Pending(a, s) + (Pending(a, s)' - Pending(a, s))
    BY <1>2, <1>3
  <2>2. Pending(a, s)' - Pending(a, s) \in Int
    BY <1>2, <1>3
  <2>. QED
    BY <2>1, <2>2
<1>7. PICK g : RunningTotal(s, g)' /\ g[Last] = h[Last] + d
  BY <1>1, <1>2, <1>4, <1>6, TotalMoves
<1>8. coins'[s] - direct'[s] - Held(s)' - Pending(a, s)'
        = coins[s] - direct[s] - Held(s) - Pending(a, s)
  BY DEF Surplus
<1>9. g[Last] \in Int
  BY <1>5, <1>7
<1>10. coins'[s] = direct'[s] + Held(s)' + g[Last]
  <2>1. coins[s] \in Int /\ direct[s] \in Int /\ Held(s) \in Int /\ Pending(a, s) \in Int
    BY <1>2
  <2>2. coins'[s] \in Int /\ direct'[s] \in Int /\ Held(s)' \in Int /\ Pending(a, s)' \in Int
    BY <1>3
  <2>3. coins[s] - direct[s] - Held(s) = h[Last]
    BY <1>1, <1>5, <2>1
  <2>4. coins'[s] - direct'[s] - Held(s)' = h[Last] + d
    BY <1>5, <1>6, <1>8, <2>1, <2>2, <2>3
  <2>. QED
    BY <1>5, <1>7, <1>9, <2>2, <2>4
<1>. QED
  BY <1>7, <1>10

LEMMA SurplusStays ==
  ASSUME NEW a \in Actors, NEW s \in Symbols, coins' = coins, direct' = direct, rows' = rows,
         Pending(a, s)' = Pending(a, s)
  PROVE  Surplus(a, s)' = Surplus(a, s)
  BY DEF Surplus, Held

(* An operation that starts or ends without a fill in hand has no share.    *)
LEMMA NoShare ==
  ASSUME NEW a \in Actors, NEW s \in Symbols,
         op[a].stage \notin {"position", "save", "remove"}
  PROVE  Pending(a, s) = 0
  BY DEF Pending

(* The fill moves coins and the share, or coins and the direct orders.      *)
LEMMA BookShare ==
  ASSUME Inv, NEW a \in Actors, Book(a), anomalies' = {}, NEW s \in Symbols
  PROVE  Surplus(a, s)' = Surplus(a, s)
<1>. DEFINE o == op[a]
<1>1. o \in Op /\ Knows(o) /\ o.stage = "book" /\ op \in [Actors -> Op]
  BY DEF Inv, TypeOK, OpKnows, Book, At
<1>2. /\ o.sym \in Symbols /\ o.amount \in Nat \ {0} /\ o.side \in {"buy", "sell"}
      /\ coins \in [Symbols -> Int] /\ direct \in [Symbols -> Int]
  BY <1>1 DEF Knows, Op, Inv, TypeOK
<1>3. o.seen = Payer(o)
  BY DEF Book
<1>4. coins' = [coins EXCEPT ![o.sym] = @ + Signed(o.side, o.amount)]
  <2>1. CASE o.side = "buy"
    BY <2>1 DEF Book, Fill, Signed
  <2>2. CASE o.side = "sell"
    <3>1. o.seen = coins[o.sym]
      BY <1>3, <2>2 DEF Payer
    <3>2. coins' = [coins EXCEPT ![o.sym] = o.seen - o.amount]
      BY <2>2 DEF Book, Fill
    <3>3. Signed(o.side, o.amount) = -o.amount
      BY <2>2 DEF Signed
    <3>4. o.seen - o.amount = coins[o.sym] + (-o.amount)
      BY <1>2, <3>1
    <3>. QED
      BY <3>2, <3>3, <3>4
  <2>. QED
    BY <1>2, <2>1, <2>2
<1>5. rows' = rows /\ op'[a] = AfterFill(o)
  BY <1>1 DEF Book
<1>6. Held(s)' = Held(s) /\ Held(s) \in Int
  BY <1>5, HeldType DEF Held
<1>7. Signed(o.side, o.amount) \in Int
  BY <1>2 DEF Signed
<1>8. Pending(a, s) = 0
  BY <1>1 DEF Pending
<1>9. CASE o.kind = "order"
  <2>1. Pending(a, s)' = 0
    BY <1>5, <1>9, NoOpType DEF AfterFill, Pending
  <2>2. direct' = [direct EXCEPT ![o.sym] = @ + Signed(o.side, o.amount)]
    BY <1>9 DEF Book
  <2>3. CASE s = o.sym
    BY <1>2, <1>4, <1>6, <1>7, <1>8, <2>1, <2>2, <2>3 DEF Surplus
  <2>4. CASE s # o.sym
    BY <1>2, <1>4, <1>6, <1>7, <1>8, <2>1, <2>2, <2>4 DEF Surplus
  <2>. QED
    BY <2>3, <2>4
<1>10. CASE o.kind # "order"
  <2>1. /\ op'[a].sym = o.sym /\ op'[a].side = o.side /\ op'[a].amount = o.amount
        /\ op'[a].stage \in {"position", "remove"}
    BY <1>1, <1>5, <1>10 DEF AfterFill, Op
  <2>2. direct' = direct
    BY <1>10 DEF Book
  <2>3. CASE s = o.sym
    <3>1. Pending(a, s)' = Signed(o.side, o.amount)
      BY <2>1, <2>3 DEF Pending
    <3>. QED
      BY <1>2, <1>4, <1>6, <1>7, <1>8, <2>2, <2>3, <3>1 DEF Surplus
  <2>4. CASE s # o.sym
    <3>1. Pending(a, s)' = 0
      BY <2>1, <2>4 DEF Pending
    <3>. QED
      BY <1>2, <1>4, <1>6, <1>7, <1>8, <2>2, <2>4, <3>1 DEF Surplus
  <2>. QED
    BY <2>3, <2>4
<1>. QED
  BY <1>9, <1>10
(* The write to the positions table turns the share into the row ...        *)
LEMMA InsertShare ==
  ASSUME Inv, NEW a \in Actors, InsertPosition(a), anomalies' = {}, NEW s \in Symbols
  PROVE  Surplus(a, s)' = Surplus(a, s)
<1>. DEFINE o == op[a]
<1>1. /\ o \in Op /\ o.sym \in Symbols /\ o.stage = "save" /\ op \in [Actors -> Op]
      /\ rows \in [Symbols -> Row \cup {NoRow}]
  BY DEF Inv, TypeOK, OpKnows, Knows, InsertPosition, At
<1>2. rows[o.sym] = NoRow
  BY DEF InsertPosition
<1>3. PICK i \in 1 .. MaxOps :
        rows' = [rows EXCEPT ![o.sym] = [id |-> i, side |-> o.side, qty |-> o.amount]]
  BY <1>2 DEF InsertPosition
<1>4. Pending(a, s)' = 0 /\ coins' = coins /\ direct' = direct
  BY <1>1, NoOpType DEF InsertPosition, Finish, Pending, books
<1>5. CASE s = o.sym
  <2>1. rows'[s] = [id |-> i, side |-> o.side, qty |-> o.amount]
    BY <1>1, <1>3, <1>5
  <2>2. rows'[s] # NoRow
    BY <1>1, <2>1, TradingAssumption DEF Op
  <2>3. Held(s) = 0 /\ Held(s)' = Signed(o.side, o.amount)
    BY <1>2, <1>5, <2>1, <2>2 DEF Held
  <2>4. Pending(a, s) = Signed(o.side, o.amount)
    BY <1>1, <1>5 DEF Pending
  <2>5. Signed(o.side, o.amount) \in Int /\ coins[s] \in Int /\ direct[s] \in Int
    BY <1>1 DEF Inv, TypeOK, Op, Signed
  <2>. QED
    BY <1>4, <2>3, <2>4, <2>5 DEF Surplus
<1>6. CASE s # o.sym
  <2>1. rows'[s] = rows[s] /\ Pending(a, s) = 0
    BY <1>1, <1>3, <1>6 DEF Pending
  <2>. QED
    BY <1>4, <2>1 DEF Surplus, Held
<1>. QED
  BY <1>5, <1>6

(* ... or adds it to the row the operation read: the one row with that id.  *)
LEMMA AverageShare ==
  ASSUME Inv, IdsDiffer, NEW a \in Actors, AverageIn(a), anomalies' = {}, NEW s \in Symbols
  PROVE  Surplus(a, s)' = Surplus(a, s)
<1>. DEFINE o == op[a]
<1>1. /\ o \in Op /\ o.sym \in Symbols /\ o.stage = "save" /\ op \in [Actors -> Op]
      /\ rows \in [Symbols -> Row \cup {NoRow}]
  BY DEF Inv, TypeOK, OpKnows, Knows, AverageIn, At
<1>2. PICK t \in Symbols :
        /\ HasId(t, o.row.id)
        /\ rows' = [rows EXCEPT ![t].qty = Averaged(o)]
  BY DEF AverageIn
<1>3. rows[o.sym] = o.row /\ o.row # NoRow /\ o.row.side = o.side
  BY DEF AverageIn
<1>4. t = o.sym
  BY <1>1, <1>2, <1>3 DEF HasId, IdsDiffer
<1>5. Pending(a, s)' = 0 /\ coins' = coins /\ direct' = direct
  BY <1>1, NoOpType DEF AverageIn, Finish, Pending, books
<1>6. CASE s = o.sym
  <2>1. rows[s] = o.row /\ o.row \in Row
    BY <1>1, <1>3, <1>6
  <2>2. rows'[s] = [o.row EXCEPT !.qty = o.row.qty + o.amount]
    BY <1>1, <1>2, <1>4, <1>6, <2>1 DEF Averaged
  <2>3. rows'[s] \in Row /\ rows'[s].side = o.side /\ rows'[s].qty = o.row.qty + o.amount
    BY <1>1, <1>3, <2>1, <2>2 DEF Row, Op
  <2>4. rows'[s] # NoRow
    BY <2>3, TradingAssumption DEF Row
  <2>5. /\ Held(s) = Signed(o.side, o.row.qty)
        /\ Held(s)' = Signed(o.side, o.row.qty + o.amount)
    BY <1>3, <2>1, <2>3, <2>4 DEF Held
  <2>6. Pending(a, s) = Signed(o.side, o.amount)
    BY <1>1, <1>6 DEF Pending
  <2>7. /\ o.amount \in Int /\ o.row.qty \in Int
        /\ coins[s] \in Int /\ direct[s] \in Int
    BY <1>1, <2>1 DEF Inv, TypeOK, Op, Row
  <2>. QED
    BY <1>5, <2>5, <2>6, <2>7 DEF Surplus, Signed
<1>7. CASE s # o.sym
  <2>1. rows'[s] = rows[s] /\ Pending(a, s) = 0
    BY <1>1, <1>2, <1>4, <1>7 DEF Pending
  <2>. QED
    BY <1>5, <2>1 DEF Surplus, Held
<1>. QED
  BY <1>6, <1>7

(* ... and the delete of a close takes back what the close traded away.     *)
LEMMA RemoveShare ==
  ASSUME Inv, IdsDiffer, ClosesAreWhole, NEW a \in Actors, Remove(a), anomalies' = {},
         NEW s \in Symbols
  PROVE  Surplus(a, s)' = Surplus(a, s)
<1>. DEFINE o == op[a]
<1>1. /\ o \in Op /\ o.sym \in Symbols /\ o.stage = "remove" /\ op \in [Actors -> Op]
      /\ o.row \in Row /\ rows \in [Symbols -> Row \cup {NoRow}]
  BY DEF Inv, TypeOK, OpKnows, Knows, Remove, At
<1>2. rows' = [t \in Symbols |-> IF HasId(t, o.row.id) THEN NoRow ELSE rows[t]]
  BY DEF Remove
<1>3. rows[o.sym] = o.row /\ o.row # NoRow
  BY <1>1, TradingAssumption DEF Remove, Row
<1>4. o.side = Opposite(o.row.side) /\ o.amount = o.row.qty
  BY <1>1 DEF ClosesAreWhole, ClosesWhole
<1>5. coins' = coins /\ direct' = direct
  BY DEF Remove, books
<1>6. Pending(a, s)' = 0
  BY <1>1, NoOpType DEF Remove, Closed, Pending, Op
<1>7. CASE s = o.sym
  <2>1. rows[s] = o.row /\ rows'[s] = NoRow
    BY <1>1, <1>2, <1>3, <1>7 DEF HasId
  <2>2. Held(s) = Signed(o.row.side, o.row.qty) /\ Held(s)' = 0
    BY <1>3, <2>1 DEF Held
  <2>3. Pending(a, s) = Signed(Opposite(o.row.side), o.row.qty)
    BY <1>1, <1>4, <1>7 DEF Pending
  <2>4. o.row.qty \in Int /\ o.row.side \in {"buy", "sell"} /\ coins[s] \in Int /\ direct[s] \in Int
    BY <1>1 DEF Inv, TypeOK, Row
  <2>. QED
    BY <1>5, <1>6, <2>2, <2>3, <2>4 DEF Surplus, Signed, Opposite
<1>8. CASE s # o.sym
  <2>1. rows'[s] = rows[s]
    BY <1>1, <1>2, <1>3, <1>8 DEF HasId, IdsDiffer
  <2>2. Pending(a, s) = 0
    BY <1>8 DEF Pending
  <2>. QED
    BY <1>5, <1>6, <2>1, <2>2 DEF Surplus, Held
<1>. QED
  BY <1>7, <1>8

(* The other steps of an actor leave coins and rows alone and carry no fill *)
(* over.                                                                    *)
LEMMA OtherShare ==
  ASSUME Inv, NEW a \in Actors, NEW s \in Symbols, anomalies' = {},
         \/ ReadBalance(a) \/ ReadPosition(a) \/ LookUp(a)
         \/ NextListed(a) \/ CloseAllReturns(a) \/ Interrupt(a)
  PROVE  Surplus(a, s)' = Surplus(a, s)
<1>1. op[a] \in Op /\ op \in [Actors -> Op]
  BY DEF Inv, TypeOK
<1>2. coins' = coins /\ direct' = direct /\ rows' = rows
  BY DEF ReadBalance, ReadPosition, LookUp, NextListed, CloseAllReturns, Interrupt, books, notes
<1>3. CASE ReadPosition(a)
  <2>1. op' = [op EXCEPT ![a].stage = "save", ![a].row = rows[op[a].sym]]
    BY <1>3 DEF ReadPosition
  <2>2. /\ op'[a].sym = op[a].sym /\ op'[a].side = op[a].side
        /\ op'[a].amount = op[a].amount /\ op'[a].stage = "save"
    BY <1>1, <2>1 DEF Op
  <2>3. op[a].stage = "position"
    BY <1>3 DEF ReadPosition, At
  <2>. QED
    BY <1>2, <2>2, <2>3, SurplusStays DEF Pending
<1>4. CASE Finish(a) /\ ~ReadPosition(a)
  <2>1. op[a].stage \notin {"position", "save", "remove"}
    BY <1>4 DEF ReadBalance, LookUp, NextListed, CloseAllReturns, Interrupt, At, Torn
  <2>2. Pending(a, s) = 0 /\ Pending(a, s)' = 0
    BY <1>1, <1>4, <2>1, NoOpType DEF Pending, Finish
  <2>. QED
    BY <1>2, <2>2, SurplusStays
<1>5. CASE ~Finish(a) /\ ~ReadPosition(a)
  <2>1. op[a].stage \in {"balance", "lookup", "next"}
    BY <1>5 DEF ReadBalance, LookUp, NextListed, CloseAllReturns, Interrupt, At
  <2>2. op'[a].stage \notin {"position", "save", "remove"}
    <3>1. CASE ReadBalance(a)
      BY <1>1, <1>5, <3>1 DEF ReadBalance, Op
    <3>2. CASE LookUp(a)
      <4>1. CASE rows[op[a].sym] = NoRow
        <5>1. op'[a] = Closed(op[a])
          BY <1>1, <3>2, <4>1 DEF LookUp
        <5>. QED
          BY <1>1, <5>1, NoOpType DEF Closed, Op
      <4>2. CASE rows[op[a].sym] # NoRow
        <5>. DEFINE row == rows[op[a].sym]
                    o == [op[a] EXCEPT !.stage = "balance", !.row = row,
                                       !.side = Opposite(row.side), !.amount = row.qty]
        <5>1. op'[a] = o
          BY <1>1, <3>2, <4>2 DEF LookUp
        <5>. QED
          BY <1>1, <5>1 DEF Op
      <4>. QED
        BY <4>1, <4>2
    <3>3. CASE NextListed(a)
      <4>1. PICK t \in op[a].todo :
              op' = [op EXCEPT ![a].stage = "lookup", ![a].sym = t,
                               ![a].price = prices[t], ![a].todo = @ \ {t}]
        BY <1>5, <3>3 DEF NextListed
      <4>. QED
        BY <1>1, <4>1 DEF Op
    <3>. QED
      BY <1>5, <3>1, <3>2, <3>3 DEF CloseAllReturns, Interrupt
  <2>3. Pending(a, s) = 0 /\ Pending(a, s)' = 0
    BY <2>1, <2>2 DEF Pending
  <2>. QED
    BY <1>2, <2>3, SurplusStays
<1>. QED
  BY <1>3, <1>4, <1>5
(* Ids stay different: a new row's id is above all others.                  *)
LEMMA IdsStep ==
  ASSUME Inv, IdsDiffer, [Next]_vars
  PROVE  IdsDiffer'
<1>1. rows \in [Symbols -> Row \cup {NoRow}] /\ op \in [Actors -> Op] /\ OpKnows
  BY DEF Inv, TypeOK
<1>2. CASE rows' = rows
  BY <1>2 DEF IdsDiffer
<1>3. ASSUME NEW a \in Actors, InsertPosition(a), rows' # rows
      PROVE  IdsDiffer'
  <2>1. PICK i \in 1 .. MaxOps :
          /\ IsNewId(i)
          /\ rows' = [rows EXCEPT ![op[a].sym] =
                        [id |-> i, side |-> op[a].side, qty |-> op[a].amount]]
    BY <1>3 DEF InsertPosition
  <2>2. op[a].sym \in Symbols
    BY <1>1, <1>3 DEF OpKnows, Knows, InsertPosition, At
  <2>3. \A s \in Symbols : rows[s] # NoRow => rows[s].id < i
    BY <2>1 DEF IsNewId, RowIds
  <2>4. \A s \in Symbols : rows[s] # NoRow => rows[s].id \in Nat
    BY <1>1 DEF Row
  <2>5. \A s \in Symbols : rows'[s] = IF s = op[a].sym
                             THEN [id |-> i, side |-> op[a].side, qty |-> op[a].amount]
                             ELSE rows[s]
    BY <1>1, <2>1
  <2>6. \A s \in Symbols : rows[s] # NoRow => rows[s].id # i
    BY <2>3, <2>4
  <2>7. /\ rows'[op[a].sym].id = i
        /\ \A s \in Symbols : s # op[a].sym => rows'[s] = rows[s]
    BY <2>2, <2>5
  <2>. QED
    BY <2>6, <2>7 DEF IdsDiffer
<1>4. ASSUME NEW a \in Actors, AverageIn(a), rows' # rows
      PROVE  IdsDiffer'
  <2>1. PICK t \in Symbols : /\ rows[t] # NoRow
                             /\ rows' = [rows EXCEPT ![t].qty = Averaged(op[a])]
    BY <1>4 DEF AverageIn, HasId
  <2>2. rows[t] \in Row
    BY <1>1, <2>1
  <2>3. rows'[t].id = rows[t].id
    BY <1>1, <2>1, <2>2 DEF Row
  <2>4. \A s \in Symbols : s = t \/ rows'[s] = rows[s]
    BY <1>1, <2>1
  <2>. QED
    BY <2>1, <2>3, <2>4 DEF IdsDiffer
<1>5. ASSUME NEW a \in Actors, Remove(a)
      PROVE  IdsDiffer'
  <2>1. \A s \in Symbols : rows'[s] = NoRow \/ rows'[s] = rows[s]
    BY <1>5 DEF Remove
  <2>. QED
    BY <2>1 DEF IdsDiffer
<1>6. ASSUME NEW a \in Actors, Step(a)
      PROVE  IdsDiffer'
  BY <1>2, <1>3, <1>4, <1>5, <1>6
     DEF Step, ReadBalance, Book, ReadPosition, LookUp, NextListed, CloseAllReturns
<1>7. ASSUME NEW a \in Actors, BeginCloseAll(a) \/ Interrupt(a)
      PROVE  IdsDiffer'
  BY <1>2, <1>7 DEF BeginCloseAll, Begin, Interrupt
<1>8. ASSUME NEW a \in Actors, NEW s \in Symbols, NEW p, NEW d, NEW q,
             BeginOrder(a, s, d, q, p) \/ BeginOpen(a, s, d, q, p) \/ BeginClose(a, s, p)
      PROVE  IdsDiffer'
  BY <1>2, <1>8 DEF BeginOrder, BeginOpen, BeginClose, Begin
<1>9. CASE Restart \/ UNCHANGED vars \/ \E s \in Symbols, p \in Prices : UpdatePrice(s, p)
  BY <1>2, <1>9 DEF Restart, UpdatePrice, vars
<1>. QED
  BY <1>6, <1>7, <1>8, <1>9 DEF Next

(* What an actor does next to its own operation keeps it whole.             *)
LEMMA OwnClose ==
  ASSUME Inv, ClosesAreWhole, NEW a \in Actors, Step(a)
  PROVE  ClosesWhole(op'[a])
<1>. DEFINE o == op[a]
<1>1. o \in Op /\ Knows(o) /\ ClosesWhole(o) /\ op \in [Actors -> Op]
  BY DEF Inv, TypeOK, OpKnows, ClosesAreWhole
<1>2. CASE op'[a].stage \notin {"balance", "book", "remove"}
  BY <1>2 DEF ClosesWhole
<1>3. CASE ReadBalance(a) /\ op'[a].stage \in {"balance", "book", "remove"}
  <2>1. /\ op' = [op EXCEPT ![a].stage = "book", ![a].seen = Payer(op[a])]
        /\ o.stage = "balance"
    BY <1>1, <1>3, NoOpType DEF ReadBalance, At, Finish
  <2>2. /\ op'[a].kind = o.kind /\ op'[a].row = o.row /\ op'[a].side = o.side
        /\ op'[a].amount = o.amount /\ op'[a].stage = "book"
    BY <1>1, <2>1 DEF Op
  <2>. QED
    BY <1>1, <2>1, <2>2 DEF ClosesWhole
<1>4. CASE Book(a) /\ op'[a].stage \in {"balance", "book", "remove"}
  <2>1. op'[a] = AfterFill(o) /\ o.stage = "book"
    BY <1>1, <1>4 DEF Book, At
  <2>2. o.kind \notin {"order", "open"}
    BY <1>1, <1>4, <2>1, NoOpType DEF AfterFill, Op
  <2>3. op'[a] = [o EXCEPT !.stage = "remove"]
    BY <2>1, <2>2 DEF AfterFill
  <2>4. /\ op'[a].kind = o.kind /\ op'[a].row = o.row /\ op'[a].side = o.side
        /\ op'[a].amount = o.amount /\ op'[a].stage = "remove"
    BY <1>1, <2>3 DEF Op
  <2>. QED
    BY <1>1, <2>1, <2>2, <2>4 DEF ClosesWhole
<1>5. CASE LookUp(a) /\ op'[a].stage \in {"balance", "book", "remove"}
  <2>. DEFINE row == rows[o.sym]
  <2>1. o.sym \in Symbols /\ row \in Row \cup {NoRow}
    BY <1>1, <1>5 DEF LookUp, At, Knows, Inv, TypeOK
  <2>2. row # NoRow
    <3>. SUFFICES ASSUME row = NoRow PROVE FALSE
      OBVIOUS
    <3>1. op'[a] = Closed(o)
      BY <1>1, <1>5 DEF LookUp
    <3>. QED
      BY <1>1, <1>5, <3>1, NoOpType DEF Closed, Op
  <2>3. op'[a] = [o EXCEPT !.stage = "balance", !.row = row,
                           !.side = Opposite(row.side), !.amount = row.qty]
    BY <1>1, <1>5, <2>2 DEF LookUp
  <2>4. /\ op'[a].row = row /\ op'[a].side = Opposite(row.side)
        /\ op'[a].amount = row.qty /\ op'[a].stage = "balance"
    BY <1>1, <2>3 DEF Op
  <2>. QED
    BY <2>1, <2>2, <2>4 DEF ClosesWhole
<1>6. CASE ReadPosition(a) /\ op'[a].stage \in {"balance", "book", "remove"}
  BY <1>1, <1>6 DEF ReadPosition, Op
<1>7. CASE Remove(a) /\ op'[a].stage \in {"balance", "book", "remove"}
  BY <1>1, <1>7, NoOpType DEF Remove, Closed, Op
<1>8. CASE Finish(a) /\ op'[a].stage \in {"balance", "book", "remove"}
  BY <1>1, <1>8, NoOpType DEF Finish
<1>9. CASE NextListed(a) /\ ~Finish(a)
  <2>1. PICK t \in op[a].todo :
          op' = [op EXCEPT ![a].stage = "lookup", ![a].sym = t,
                           ![a].price = prices[t], ![a].todo = @ \ {t}]
    BY <1>9 DEF NextListed
  <2>2. op'[a].stage = "lookup"
    BY <1>1, <2>1 DEF Op
  <2>. QED
    BY <2>2 DEF ClosesWhole
<1>. QED
  BY <1>2, <1>3, <1>4, <1>5, <1>6, <1>7, <1>8, <1>9
     DEF Step, InsertPosition, AverageIn, CloseAllReturns
(* A step of one actor keeps MatchInv when the actor's own share and close  *)
(* do as they should.                                                       *)
LEMMA ActorMatches ==
  ASSUME MatchInv, Inv', [Next]_vars, NEW a \in Actors,
         \A b \in Actors \ {a} : op'[b] = op[b],
         ClosesWhole(op'[a]),
         anomalies' = {} => \A s \in Symbols : Surplus(a, s)' = Surplus(a, s)
  PROVE  MatchInv'
<1>1. anomalies \subseteq anomalies'
  BY BooksOnlyInBook
<1>2. CoinsAccounted'
  BY <1>1, AccountStep DEF MatchInv
<1>3. IdsDiffer'
  BY IdsStep DEF MatchInv
<1>4. \A b \in Actors : ClosesWhole(op[b])
  BY DEF MatchInv, ClosesAreWhole
<1>5. \A b \in Actors : ClosesWhole(op'[b])
  BY <1>4
<1>6. ClosesAreWhole'
  BY <1>5 DEF ClosesAreWhole, ClosesWhole
<1>. QED
  BY <1>2, <1>3, <1>6 DEF MatchInv

(* Entering a method shares in nothing yet.                                 *)
LEMMA BeginMatches ==
  ASSUME MatchInv, Inv', [Next]_vars, NEW a \in Actors, NEW o \in Op, Begin(a, o),
         o.stage \in {"balance", "lookup", "next"},
         o.stage = "balance" => o.kind \in {"order", "open"},
         direct' = direct
  PROVE  MatchInv'
<1>1. /\ op \in [Actors -> Op] /\ op' = [op EXCEPT ![a] = o] /\ op[a] = NoOp
      /\ rows' = rows /\ coins' = coins
  BY DEF MatchInv, Inv, TypeOK, Begin, books
<1>2. op'[a] = o /\ \A b \in Actors \ {a} : op'[b] = op[b]
  BY <1>1
<1>3. ClosesWhole(op'[a])
  BY <1>2 DEF ClosesWhole
<1>4. ASSUME NEW s \in Symbols
      PROVE  Surplus(a, s)' = Surplus(a, s)
  <2>1. Pending(a, s) = 0 /\ Pending(a, s)' = 0
    BY <1>1, <1>2, NoOpType DEF Pending
  <2>. QED
    BY <1>1, <2>1, SurplusStays
<1>. QED
  BY <1>2, <1>3, <1>4, ActorMatches

LEMMA StepMatches ==
  ASSUME MatchInv, Inv', [Next]_vars, NEW a \in Actors, Step(a) \/ Interrupt(a)
  PROVE  MatchInv'
<1>1. Inv /\ IdsDiffer /\ ClosesAreWhole /\ op \in [Actors -> Op]
  BY DEF MatchInv, Inv, TypeOK
<1>2. \A b \in Actors \ {a} : op'[b] = op[b]
  BY <1>1 DEF Step, ReadBalance, Book, ReadPosition, InsertPosition, AverageIn, LookUp,
              Remove, NextListed, CloseAllReturns, Interrupt, Finish
<1>3. ClosesWhole(op'[a])
  <2>1. CASE Step(a)
    BY <1>1, <2>1, OwnClose
  <2>2. CASE Interrupt(a)
    BY <1>1, <2>2, NoOpType DEF Interrupt, Finish, ClosesWhole
  <2>. QED
    BY <2>1, <2>2
<1>4. ASSUME anomalies' = {}, NEW s \in Symbols
      PROVE  Surplus(a, s)' = Surplus(a, s)
  BY <1>1, <1>4, BookShare, InsertShare, AverageShare, RemoveShare, OtherShare DEF Step
<1>. QED
  BY <1>2, <1>3, <1>4, ActorMatches

(* Restarting, and quoting a price, leave every share as it was.            *)
LEMMA QuietMatches ==
  ASSUME MatchInv, Inv', [Next]_vars, coins' = coins, direct' = direct, rows' = rows,
         \A a \in Actors : ClosesWhole(op'[a]),
         anomalies' = {} => \A a \in Actors, s \in Symbols : Pending(a, s)' = Pending(a, s)
  PROVE  MatchInv'
<1>1. anomalies \subseteq anomalies'
  BY BooksOnlyInBook
<1>2. IdsDiffer' /\ ClosesAreWhole'
  BY DEF MatchInv, IdsDiffer, ClosesAreWhole, ClosesWhole
<1>3. ASSUME anomalies' = {}, NEW s \in Symbols
      PROVE  \E g : RunningTotal(s, g)' /\ coins'[s] = direct'[s] + Held(s)' + g[Last]
  <2>1. PICK h : RunningTotal(s, h) /\ coins[s] = direct[s] + Held(s) + h[Last]
    BY <1>1, <1>3 DEF MatchInv, CoinsAccounted
  <2>2. \A a \in Actors : Pending(a, s)' = Pending(a, s)
    BY <1>3
  <2>3. RunningTotal(s, h)'
    BY <2>1, <2>2, TotalStays
  <2>4. Held(s)' = Held(s)
    BY DEF Held
  <2>. QED
    BY <2>1, <2>3, <2>4
<1>4. CoinsAccounted'
  BY <1>3 DEF CoinsAccounted
<1>. QED
  BY <1>2, <1>4 DEF MatchInv

LEMMA NextMatches == MatchInv /\ [Next]_vars => MatchInv'
<1>. SUFFICES ASSUME MatchInv, [Next]_vars PROVE MatchInv'
  OBVIOUS
<1>1. Inv /\ Inv' /\ op \in [Actors -> Op] /\ ClosesAreWhole
  BY NextInv DEF MatchInv, Inv, TypeOK
<1>2. ASSUME NEW a \in Actors, NEW s \in Symbols, NEW d \in Sides, NEW q \in Amounts,
             NEW p \in MayPrice, BeginOrder(a, s, d, q, p)
      PROVE  MatchInv'
  <2>. DEFINE o == [NoOp EXCEPT !.kind = "order", !.stage = "balance", !.sym = s,
                                !.side = d, !.amount = q, !.price = PriceOr(s, p)]
  <2>1. PriceOr(s, p) \in MayPrice
    BY <1>1 DEF Inv, TypeOK, PriceOr, MayPrice
  <2>2. o \in Op /\ o.stage = "balance" /\ o.kind = "order"
    BY <2>1, NoOpType, TradingAssumption
       DEF NoOp, Op, Kinds, Stages, MayPrice
  <2>3. Begin(a, o) /\ direct' = direct
    BY <1>2 DEF BeginOrder, notes
  <2>. HIDE DEF o
  <2>. QED
    BY <1>1, <2>2, <2>3, BeginMatches
<1>3. ASSUME NEW a \in Actors, NEW s \in Symbols, NEW d \in Sides, NEW q \in Amounts,
             NEW p \in Prices, BeginOpen(a, s, d, q, p)
      PROVE  MatchInv'
  <2>. DEFINE o == [NoOp EXCEPT !.kind = "open", !.stage = "balance", !.sym = s,
                                !.side = d, !.amount = q, !.price = p]
  <2>1. o \in Op /\ o.stage = "balance" /\ o.kind = "open"
    BY NoOpType, TradingAssumption
       DEF NoOp, Op, Kinds, Stages, MayPrice
  <2>2. Begin(a, o) /\ direct' = direct
    BY <1>3 DEF BeginOpen, notes
  <2>. HIDE DEF o
  <2>. QED
    BY <1>1, <2>1, <2>2, BeginMatches
<1>4. ASSUME NEW a \in Actors, NEW s \in Symbols, NEW p \in MayPrice, BeginClose(a, s, p)
      PROVE  MatchInv'
  <2>. DEFINE o == [NoOp EXCEPT !.kind = "close", !.stage = "lookup", !.sym = s,
                                !.price = PriceOr(s, p)]
  <2>1. PriceOr(s, p) \in MayPrice
    BY <1>1 DEF Inv, TypeOK, PriceOr, MayPrice
  <2>2. o \in Op /\ o.stage = "lookup"
    BY <2>1, NoOpType, TradingAssumption
       DEF NoOp, Op, Kinds, Stages, MayPrice
  <2>3. Begin(a, o) /\ direct' = direct
    BY <1>4 DEF BeginClose, notes
  <2>. HIDE DEF o
  <2>. QED
    BY <1>1, <2>2, <2>3, BeginMatches
<1>5. ASSUME NEW a \in Actors, BeginCloseAll(a)
      PROVE  MatchInv'
  <2>. DEFINE listed == {t \in Symbols : rows[t] # NoRow}
              o == [NoOp EXCEPT !.kind = "closeAll", !.stage = "next", !.todo = listed]
  <2>1. Begin(a, o) /\ direct' = direct
    BY <1>5 DEF BeginCloseAll
  <2>2. listed \in SUBSET Symbols
    OBVIOUS
  <2>. HIDE DEF listed
  <2>3. o \in Op /\ o.stage = "next"
    <3>1. ASSUME NEW r \in Op
          PROVE  LET n == [r EXCEPT !.kind = "closeAll", !.stage = "next", !.todo = listed]
                 IN  n \in Op /\ n.stage = "next"
      BY <2>2 DEF Op, Kinds, Stages
    <3>. QED
      BY <3>1, NoOpType
  <2>. HIDE DEF o
  <2>. QED
    BY <1>1, <2>1, <2>3, BeginMatches
<1>6. ASSUME NEW a \in Actors, Step(a) \/ Interrupt(a)
      PROVE  MatchInv'
  BY <1>1, <1>6, StepMatches
<1>7. CASE Restart
  <2>1. \A a \in Actors : op'[a] = NoOp
    BY <1>7 DEF Restart
  <2>2. \A a \in Actors : ClosesWhole(op'[a])
    BY <2>1, NoOpType DEF ClosesWhole
  <2>3. ASSUME anomalies' = {}, NEW a \in Actors, NEW s \in Symbols
        PROVE  Pending(a, s)' = Pending(a, s)
    <3>1. Torn(op[a]) = {}
      BY <1>7, <2>3 DEF Restart
    <3>2. op[a].stage \notin {"position", "save", "remove"}
      BY <3>1 DEF Torn
    <3>. QED
      BY <2>1, <3>2, NoOpType DEF Pending
  <2>4. coins' = coins /\ direct' = direct /\ rows' = rows
    BY <1>7 DEF Restart, books
  <2>. QED
    BY <1>1, <2>2, <2>3, <2>4, QuietMatches
<1>8. CASE UNCHANGED vars \/ \E s \in Symbols, p \in Prices : UpdatePrice(s, p)
  <2>1. op' = op /\ coins' = coins /\ direct' = direct /\ rows' = rows
    BY <1>8 DEF vars, UpdatePrice, books, notes
  <2>2. \A a \in Actors : ClosesWhole(op'[a])
    BY <1>1, <2>1 DEF ClosesAreWhole
  <2>3. \A a \in Actors, s \in Symbols : Pending(a, s)' = Pending(a, s)
    BY <2>1 DEF Pending
  <2>. QED
    BY <1>1, <2>1, <2>2, <2>3, QuietMatches
<1>. QED
  BY <1>2, <1>3, <1>4, <1>5, <1>6, <1>7, <1>8 DEF Next

LEMMA InitMatches == Init => MatchInv
<1>. SUFFICES ASSUME Init PROVE MatchInv
  OBVIOUS
<1>1. Inv /\ \A a \in Actors : op[a] = NoOp
  BY InitInv DEF Init
<1>2. IdsDiffer /\ ClosesAreWhole
  BY <1>1, NoOpType DEF Init, IdsDiffer, ClosesAreWhole, ClosesWhole
<1>3. ASSUME NEW s \in Symbols
      PROVE  \E h : RunningTotal(s, h) /\ coins[s] = direct[s] + Held(s) + h[Last]
  <2>. USE OrderType
  <2>. DEFINE h == [i \in 0 .. Last |-> 0]
  <2>1. \A a \in Actors : Pending(a, s) = 0
    BY <1>1, NoOpType DEF Pending
  <2>2. \A i \in 1 .. Last : Order[i] \in Actors
    OBVIOUS
  <2>3. \A i \in 1 .. Last : h[i] = h[i - 1] + Pending(Order[i], s)
    BY <2>1, <2>2
  <2>4. h \in [0 .. Last -> Int] /\ h[0] = 0 /\ h[Last] = 0
    OBVIOUS
  <2>5. coins[s] = 0 /\ direct[s] = 0 /\ Held(s) = 0
    BY DEF Init, Ledger!Init, Held
  <2>. QED
    BY <2>3, <2>4, <2>5 DEF RunningTotal
<1>. QED
  BY <1>1, <1>2, <1>3 DEF MatchInv, CoinsAccounted

(* The positions table says what is held on top of the direct orders: as    *)
(* long as nothing went wrong that `anomalies` names, a symbol on which no  *)
(* operation is between its fill and its row has exactly the coins of its   *)
(* row and its direct orders, for any number of coroutines and symbols.     *)
THEOREM PositionsCorrect == Spec => []PositionsMatchCoins
<1>1. MatchInv => PositionsMatchCoins
  <2>. SUFFICES ASSUME MatchInv, anomalies = {}, NEW s \in Symbols, Settled(s)
                PROVE  coins[s] = direct[s] + Held(s)
    BY DEF PositionsMatchCoins
  <2>1. PICK h : RunningTotal(s, h) /\ coins[s] = direct[s] + Held(s) + h[Last]
    BY DEF MatchInv, CoinsAccounted
  <2>2. \A a \in Actors : Pending(a, s) = 0
    BY DEF Settled, Pending
  <2>3. h[Last] = 0
    BY <2>1, <2>2, TotalOfNothing
  <2>4. Held(s) \in Int /\ direct[s] \in Int
    BY HeldType DEF MatchInv
  <2>. QED
    BY <2>1, <2>3, <2>4
<1>. QED
  BY <1>1, InitMatches, NextMatches, PTL DEF Spec
=============================================================================
