---------------------------- MODULE Orders_proofs ----------------------------
(***************************************************************************)
(* The orders and the stops of open positions, and what is remembered of   *)
(* trades, for every value of the constants.                               *)
(*                                                                         *)
(* AgentOrders implements RestingOrders. The detailed model keeps lists    *)
(* where the promise has sets: what makes the two agree is that no list    *)
(* names an order twice, that an order which was placed is never new       *)
(* again, and that an order a check filled is in no list of that check any *)
(* more and not in the book. LotsOutsideRow is a difference of             *)
(* cardinalities; LotsInv says which orders each of them counts, and what  *)
(* the tool and the closes hold between their transactions.                *)
(*                                                                         *)
(* TrailingStops: a stop never retreats, and an open position loses its    *)
(* stop for no cause but a price beyond it, a panic, or the late report    *)
(* that an earlier position of the symbol was closed.                      *)
(*                                                                         *)
(* TradeMemory: however the updates of a pattern overlap, it is called     *)
(* valid on observed trades only.                                          *)
(***************************************************************************)
EXTENDS AgentOrders, TrailingStops, TradeMemory, SequenceTheorems, FiniteSetTheorems, TLAPS

WalkState == [left : Seq(Tickets), now : Tickets \cup {Nothing}]

BookTypes ==
    /\ book \in Seq(Tickets)
    /\ orders \in [Tickets -> OrderState]
    /\ walks \in [Checks -> WalkState]
    /\ filledBy \subseteq Checks \X Tickets

Distinct(s) == \A i, j \in DOMAIN s : s[i] = s[j] => i = j

WalkOK(w) == Distinct(w.left) /\ \A i \in DOMAIN w.left : w.left[i] # w.now

(* What relates the lists to one another.                                   *)
ListsAgree ==
    /\ Distinct(book)
    /\ \A c \in Checks : WalkOK(walks[c])
    /\ \A t \in Resting : t \in Known
    /\ \A c \in Checks, t \in Tickets : Claimed(c, t) => t \in Known
    /\ \A c \in Checks, t \in Tickets : <<c, t>> \in filledBy =>
           t \in Known /\ t \notin Resting /\ ~Claimed(c, t)

OrdersInv == BookTypes /\ ListsAgree

(* The account, the row and what has been read of them; the order the tool  *)
(* is about to fill is still new.                                           *)
CloseState == [stage : {"new", "row", "sale", "removal", "ended"}, row : RowState, seen : Int]
AccountTypes ==
    /\ quote \in Quotes \cup {0}
    /\ saw \in [Checks -> Int]
    /\ closes \in [Exits -> CloseState]
    /\ tool \in ToolState
    /\ row \in RowState
    /\ coins \in Int /\ ledger \in Int /\ rowsMade \in Nat /\ quotesMade \in Nat
    /\ apart \in BOOLEAN

TicketIsNew ==
    tool.stage \in {"place", "placeFill"} =>
        tool.ticket \in Tickets /\ orders[tool.ticket].status = "new"

ToolInv == AccountTypes /\ TicketIsNew

LEMMA OrdersBounds ==
    Nothing \notin Tickets /\ \A p \in Quotes : p \in Nat
BY OrdersAssumption

LEMMA NothingTyped ==
    /\ NoRow \in RowState /\ NoTool \in ToolState /\ NewClose \in CloseState /\ EndedClose \in CloseState
    /\ NoRow.id = 0 /\ NoRow.qty = 0 /\ NoTool.stage = "idle"
    /\ NewClose.stage = "new" /\ EndedClose.stage = "ended"
<1>1. NoRow \in RowState /\ NoRow.id = 0 /\ NoRow.qty = 0
  BY DEF NoRow, RowState
<1> QED BY <1>1 DEF NoTool, ToolState, NewClose, EndedClose, CloseState

-----------------------------------------------------------------------------
(* Deleting an entry of a list without repetitions.                         *)
LEMMA WithoutType ==
    ASSUME NEW s \in Seq(Tickets), NEW t
    PROVE  Without(s, t) \in Seq(Tickets)
<1>1. CASE \A i \in DOMAIN s : s[i] # t
  BY <1>1 DEF Without
<1>2. CASE ~(\A i \in DOMAIN s : s[i] # t)
  <2> DEFINE k == CHOOSE i \in DOMAIN s : s[i] = t
             r == [i \in 1 .. Len(s) - 1 |-> IF i < k THEN s[i] ELSE s[i + 1]]
  <2>1. /\ Len(s) \in Nat /\ DOMAIN s = 1 .. Len(s)
        /\ \A i \in 1 .. Len(s) : s[i] \in Tickets
    BY LenProperties
  <2>2. k \in 1 .. Len(s) /\ Len(s) - 1 \in Nat
    BY <1>2, <2>1
  <2>3. \A i \in 1 .. Len(s) - 1 : r[i] \in Tickets
    BY <2>1, <2>2
  <2>4. r \in Seq(Tickets)
    BY <2>2, <2>3
  <2> QED BY <1>2, <2>4 DEF Without
<1> QED BY <1>1, <1>2

LEMMA WithoutEntries ==
    ASSUME NEW s \in Seq(Tickets), NEW t, Distinct(s)
    PROVE  /\ Distinct(Without(s, t))
           /\ \A u : (\E i \in DOMAIN Without(s, t) : Without(s, t)[i] = u)
                     <=> (u # t /\ \E i \in DOMAIN s : s[i] = u)
<1>1. CASE \A i \in DOMAIN s : s[i] # t
  BY <1>1 DEF Without
<1>2. CASE ~(\A i \in DOMAIN s : s[i] # t)
  <2> DEFINE n == Len(s)
             k == CHOOSE i \in DOMAIN s : s[i] = t
             r == [i \in 1 .. n - 1 |-> IF i < k THEN s[i] ELSE s[i + 1]]
  <2>1. n \in Nat /\ DOMAIN s = 1 .. n
    BY LenProperties
  <2>2. k \in 1 .. n /\ s[k] = t
    BY <1>2, <2>1
  <2>3. Without(s, t) = r
    BY <1>2 DEF Without
  <2> HIDE DEF k, n
  <2>4. \A i, j \in 1 .. n : s[i] = s[j] => i = j
    BY <2>1 DEF Distinct
  <2>5. DOMAIN r = 1 .. n - 1
    OBVIOUS
  <2>6. \A i \in 1 .. n - 1 : r[i] = IF i < k THEN s[i] ELSE s[i + 1]
    OBVIOUS
  <2> HIDE DEF r
  <2>7. Distinct(r)
    <3> SUFFICES ASSUME NEW i \in 1 .. n - 1, NEW j \in 1 .. n - 1, r[i] = r[j]
                 PROVE  i = j
      BY <2>5 DEF Distinct
    <3> DEFINE a == IF i < k THEN i ELSE i + 1
               b == IF j < k THEN j ELSE j + 1
    <3>1. a \in 1 .. n /\ b \in 1 .. n
      BY <2>1, <2>2
    <3>2. r[i] = s[a] /\ r[j] = s[b]
      BY <2>6
    <3>3. a = b
      BY <2>4, <3>1, <3>2
    <3> QED BY <2>2, <3>3
  <2>8. ASSUME NEW u, NEW i \in 1 .. n - 1, r[i] = u
        PROVE  u # t /\ \E j \in 1 .. n : s[j] = u
    <3> DEFINE a == IF i < k THEN i ELSE i + 1
    <3>1. a \in 1 .. n /\ a # k
      BY <2>1, <2>2
    <3>2. s[a] = u
      BY <2>6, <2>8
    <3> QED BY <2>2, <2>4, <3>1, <3>2
  <2>9. ASSUME NEW u, u # t, NEW j \in 1 .. n, s[j] = u
        PROVE  \E i \in 1 .. n - 1 : r[i] = u
    <3>1. j # k
      BY <2>2, <2>9
    <3>2. CASE j < k
      <4>1. j \in 1 .. n - 1 /\ r[j] = u
        BY <2>1, <2>2, <2>6, <2>9, <3>2
      <4> QED BY <4>1
    <3>3. CASE j > k
      <4>1. j - 1 \in 1 .. n - 1 /\ ~(j - 1 < k) /\ (j - 1) + 1 = j
        BY <2>1, <2>2, <3>3
      <4>2. r[j - 1] = u
        BY <2>6, <2>9, <4>1
      <4> QED BY <4>1, <4>2
    <3> QED BY <2>1, <2>2, <3>1, <3>2, <3>3
  <2> QED BY <2>1, <2>3, <2>5, <2>7, <2>8, <2>9
<1> QED BY <1>1, <1>2

LEMMA RestingWithout ==
    ASSUME BookTypes, Distinct(book), NEW t, book' = Without(book, t)
    PROVE  Resting' = Resting \ {t} /\ Distinct(book') /\ book' \in Seq(Tickets)
<1>0. book \in Seq(Tickets)
  BY DEF BookTypes
<1> DEFINE b == Without(book, t)
<1>1. /\ Distinct(b) /\ b \in Seq(Tickets)
      /\ \A u : (\E i \in DOMAIN b : b[i] = u)
                <=> (u # t /\ \E i \in DOMAIN book : book[i] = u)
  BY <1>0, WithoutEntries, WithoutType, Zenon
<1> HIDE DEF b
<1>3. book' = b
  BY DEF b
<1>2. Resting' = Resting \ {t}
  BY <1>1, <1>3 DEF Resting
<1> QED BY <1>1, <1>2, <1>3

-----------------------------------------------------------------------------
(* The steps of the other components, and those of the tool, which touch    *)
(* neither the book nor a check.                                            *)
LEMMA ElsewhereStep ==
    ASSUME OrdersInv, UNCHANGED <<book, orders, walks, filledBy>>
    PROVE  OrdersInv' /\ UNCHANGED Promise!restingVars
<1>1. /\ Known' = Known /\ Resting' = Resting /\ Claims' = Claims
      /\ \A c, t : Claimed(c, t)' <=> Claimed(c, t)
  BY DEF Known, Resting, Claims, Claimed
<1> QED BY <1>1 DEF OrdersInv, BookTypes, ListsAgree, Promise!restingVars

(* Placing an order gives it a status.                                      *)
LEMMA PlaceOrder ==
    ASSUME OrdersInv, NEW t \in Tickets, NEW o \in OrderState, o.status # "new",
           orders[t].status = "new", orders' = [orders EXCEPT ![t] = o],
           UNCHANGED <<walks, filledBy>>
    PROVE  /\ orders' \in [Tickets -> OrderState]
           /\ Known' = Known \cup {t} /\ t \notin Known /\ t \notin Resting
           /\ Claims' = Claims
           /\ \A c, u : Claimed(c, u)' <=> Claimed(c, u)
<1>1. orders \in [Tickets -> OrderState]
  BY DEF OrdersInv, BookTypes
<1>2. Known' = Known \cup {t} /\ t \notin Known
  BY <1>1 DEF Known
<1>3. Claims' = Claims /\ \A c, u : Claimed(c, u)' <=> Claimed(c, u)
  BY DEF Claims, Claimed
<1>4. t \notin Resting
  BY <1>2 DEF OrdersInv, ListsAgree
<1> QED BY <1>1, <1>2, <1>3, <1>4

LEMMA PlaceFilledStep ==
    ASSUME OrdersInv, ToolInv, PlaceFilled
    PROVE  OrdersInv' /\ tool.ticket \in Tickets /\ Promise!FillAtOnce(tool.ticket)
<1> DEFINE t == tool.ticket
           o == [buy |-> tool.buy, limit |-> tool.price, status |-> "filled"]
<1>1. o \in OrderState /\ o.status # "new"
  BY DEF ToolInv, AccountTypes, ToolState, OrderState
<1>2. /\ t \in Tickets /\ orders[t].status = "new" /\ orders' = [orders EXCEPT ![t] = o]
      /\ UNCHANGED <<walks, filledBy, book>>
  BY DEF PlaceFilled, ToolInv, TicketIsNew
<1> HIDE DEF o, t
<1>3. /\ orders' \in [Tickets -> OrderState]
      /\ Known' = Known \cup {t} /\ t \notin Known /\ Claims' = Claims
      /\ \A c, u : Claimed(c, u)' <=> Claimed(c, u)
  BY <1>1, <1>2, PlaceOrder
<1>4. Resting' = Resting
  BY <1>2 DEF Resting
<1>5. OrdersInv'
  BY <1>2, <1>3, <1>4 DEF OrdersInv, BookTypes, ListsAgree
<1> QED BY <1>2, <1>3, <1>4, <1>5 DEF Promise!FillAtOnce, t

LEMMA PlaceRestsStep ==
    ASSUME OrdersInv, NEW t \in Tickets, NEW buy \in BOOLEAN, NEW p \in Quotes,
           PlaceRests(t, buy, p)
    PROVE  OrdersInv' /\ Promise!Rest(t)
<1> DEFINE o == [buy |-> buy, limit |-> p, status |-> "open"]
<1>1. o \in OrderState /\ o.status # "new"
  BY OrdersBounds DEF OrderState
<1>2. /\ orders[t].status = "new" /\ orders' = [orders EXCEPT ![t] = o]
      /\ UNCHANGED <<walks, filledBy>> /\ book' = Append(book, t)
  BY DEF PlaceRests
<1> HIDE DEF o
<1>3. /\ orders' \in [Tickets -> OrderState]
      /\ Known' = Known \cup {t} /\ t \notin Known /\ t \notin Resting /\ Claims' = Claims
      /\ \A c, u : Claimed(c, u)' <=> Claimed(c, u)
  BY <1>1, <1>2, PlaceOrder
<1>4. /\ book \in Seq(Tickets) /\ Len(book) \in Nat /\ DOMAIN book = 1 .. Len(book)
      /\ book' \in Seq(Tickets) /\ DOMAIN book' = 1 .. Len(book) + 1
      /\ \A i \in 1 .. Len(book) : book'[i] = book[i]
      /\ book'[Len(book) + 1] = t
  BY <1>2, AppendProperties, LenProperties DEF OrdersInv, BookTypes
<1>5. Resting' = Resting \cup {t}
  BY <1>4 DEF Resting
<1>6. \A i \in 1 .. Len(book) : book[i] # t
  BY <1>3, <1>4 DEF Resting
<1>7. Distinct(book')
  BY <1>4, <1>6 DEF OrdersInv, ListsAgree, Distinct
<1>8. OrdersInv'
  BY <1>2, <1>3, <1>4, <1>5, <1>7 DEF OrdersInv, BookTypes, ListsAgree
<1> QED BY <1>2, <1>3, <1>5, <1>8 DEF Promise!Rest

LEMMA CancelStep ==
    ASSUME OrdersInv, NEW t \in Tickets, Cancel(t)
    PROVE  OrdersInv' /\ Promise!Withdraw(t)
<1>1. /\ t \in Resting /\ book' = Without(book, t)
      /\ UNCHANGED <<orders, walks, filledBy>>
  BY DEF Cancel
<1>2. Resting' = Resting \ {t} /\ Distinct(book') /\ book' \in Seq(Tickets)
  BY <1>1, RestingWithout DEF OrdersInv, ListsAgree
<1>3. /\ Known' = Known /\ Claims' = Claims
      /\ \A c, u : Claimed(c, u)' <=> Claimed(c, u)
  BY <1>1 DEF Known, Claims, Claimed
<1>4. OrdersInv'
  BY <1>1, <1>2, <1>3 DEF OrdersInv, BookTypes, ListsAgree
<1> QED BY <1>1, <1>2, <1>3, <1>4 DEF Promise!Withdraw

-----------------------------------------------------------------------------
(* A check that changes only what it has listed.                            *)
LEMMA WalkChanges ==
    ASSUME OrdersInv, NEW c \in Checks, NEW w \in WalkState, WalkOK(w),
           walks' = [walks EXCEPT ![c] = w]
    PROVE  /\ walks' \in [Checks -> WalkState] /\ \A d \in Checks : WalkOK(walks'[d])
           /\ \A d \in Checks : \A t : d # c => (Claimed(d, t)' <=> Claimed(d, t))
           /\ \A t : Claimed(c, t)' <=> w.now = t \/ \E i \in DOMAIN w.left : w.left[i] = t
<1>1. walks \in [Checks -> WalkState]
  BY DEF OrdersInv, BookTypes
<1>2. walks'[c] = w /\ \A d \in Checks : d # c => walks'[d] = walks[d]
  BY <1>1
<1>3. walks' \in [Checks -> WalkState]
  BY <1>1
<1>4. \A d \in Checks : WalkOK(walks'[d])
  BY <1>2 DEF OrdersInv, ListsAgree
<1>5. \A d \in Checks : \A t : d # c => (Claimed(d, t)' <=> Claimed(d, t))
  BY <1>2 DEF Claimed
<1>6. \A t : Claimed(c, t)' <=> w.now = t \/ \E i \in DOMAIN w.left : w.left[i] = t
  BY <1>2 DEF Claimed
<1> QED BY <1>3, <1>4, <1>5, <1>6

(* The parts of a list that is not empty.                                   *)
LEMMA ListParts ==
    ASSUME NEW s \in Seq(Tickets), s # <<>>, Distinct(s)
    PROVE  /\ Head(s) \in Tickets /\ Tail(s) \in Seq(Tickets) /\ Distinct(Tail(s))
           /\ \A t : (\E i \in DOMAIN s : s[i] = t)
                     <=> t = Head(s) \/ \E i \in DOMAIN Tail(s) : Tail(s)[i] = t
           /\ \A i \in DOMAIN Tail(s) : Tail(s)[i] # Head(s)
<1> DEFINE n == Len(s)  r == Tail(s)
<1>1. n \in Nat \ {0} /\ DOMAIN s = 1 .. n /\ Head(s) = s[1]
  BY LenProperties, EmptySeq, SMT
<1>2. /\ Head(s) \in Tickets /\ r \in Seq(Tickets) /\ Len(r) = n - 1
      /\ \A i \in 1 .. n - 1 : r[i] = s[i + 1]
  BY HeadTailProperties
<1>3. DOMAIN r = 1 .. n - 1
  BY <1>2, LenProperties
<1> HIDE DEF n, r
<1>4. \A i, j \in 1 .. n : s[i] = s[j] => i = j
  BY <1>1 DEF Distinct
<1>5. Distinct(r)
  BY <1>1, <1>2, <1>3, <1>4 DEF Distinct
<1>6. \A i \in DOMAIN r : r[i] # Head(s)
  BY <1>1, <1>2, <1>3, <1>4
<1>7. ASSUME NEW t, NEW i \in 1 .. n, s[i] = t
      PROVE  t = Head(s) \/ \E j \in DOMAIN r : r[j] = t
  <2>1. CASE i = 1
    BY <1>1, <1>7, <2>1
  <2>2. CASE i # 1
    <3>1. i - 1 \in 1 .. n - 1 /\ (i - 1) + 1 = i
      BY <1>1, <2>2
    <3>2. r[i - 1] = t
      BY <1>2, <1>7, <3>1
    <3> QED BY <1>3, <3>1, <3>2
  <2> QED BY <2>1, <2>2
<1>8. ASSUME NEW t, NEW j \in DOMAIN r, r[j] = t
      PROVE  \E i \in 1 .. n : s[i] = t
  <2>1. j + 1 \in 1 .. n /\ s[j + 1] = t
    BY <1>1, <1>2, <1>3, <1>8
  <2> QED BY <2>1
<1>9. 1 \in 1 .. n /\ s[1] = Head(s)
  BY <1>1
<1> QED BY <1>1, <1>2, <1>5, <1>6, <1>7, <1>8, <1>9 DEF r

LEMMA ClaimsRemoved ==
    ASSUME NEW c \in Checks, NEW t \in Tickets,
           \A d \in Checks, u \in Tickets :
               Claimed(d, u)' <=> Claimed(d, u) /\ <<d, u>> # <<c, t>>
    PROVE  Claims' = Claims \ {<<c, t>>}
BY DEF Claims

LEMMA ClaimsAre ==
    ASSUME NEW c \in Checks, NEW t \in Tickets
    PROVE  <<c, t>> \in Claims <=> Claimed(c, t)
BY DEF Claims

LEMMA WalkTypes ==
    ASSUME OrdersInv, NEW c \in Checks
    PROVE  /\ walks[c] \in WalkState /\ walks[c].left \in Seq(Tickets)
           /\ walks[c].now \in Tickets \cup {Nothing}
           /\ Distinct(walks[c].left)
           /\ \A i \in DOMAIN walks[c].left : walks[c].left[i] # walks[c].now
BY DEF OrdersInv, BookTypes, ListsAgree, WalkState, WalkOK

LEMMA BeginCheckStep ==
    ASSUME OrdersInv, NEW c \in Checks, BeginCheck(c)
    PROVE  OrdersInv' /\ Promise!Walk(c)
<1> DEFINE w == [left |-> book, now |-> Nothing]
<1>1. /\ walks[c] = AtRest /\ UNCHANGED <<book, orders, filledBy>>
      /\ book \in Seq(Tickets) /\ Distinct(book)
  BY DEF BeginCheck, OrdersInv, BookTypes, ListsAgree
<1>2. walks' = [walks EXCEPT ![c] = w]
  <2>1. [walks[c] EXCEPT !.left = book] = w
    BY <1>1 DEF AtRest
  <2>2. walks' = [walks EXCEPT ![c] = [walks[c] EXCEPT !.left = book]]
    BY DEF BeginCheck, OrdersInv, BookTypes
  <2> QED BY <2>1, <2>2
<1>3. /\ w \in WalkState /\ w.left = book /\ w.now = Nothing
      /\ \A i \in DOMAIN book : book[i] # Nothing
  BY <1>1, OrdersBounds, LenProperties DEF WalkState
<1>4. WalkOK(w)
  BY <1>1, <1>3 DEF WalkOK
<1> HIDE DEF w
<1>5. /\ walks' \in [Checks -> WalkState] /\ \A d \in Checks : WalkOK(walks'[d])
      /\ \A d \in Checks : \A t : d # c => (Claimed(d, t)' <=> Claimed(d, t))
      /\ \A t : Claimed(c, t)' <=> w.now = t \/ \E i \in DOMAIN w.left : w.left[i] = t
  BY <1>2, <1>3, <1>4, WalkChanges
<1>6. \A t \in Tickets : ~Claimed(c, t) /\ (Claimed(c, t)' <=> t \in Resting)
  <2> SUFFICES ASSUME NEW t \in Tickets
               PROVE  ~Claimed(c, t) /\ (Claimed(c, t)' <=> t \in Resting)
    OBVIOUS
  <2>1. walks[c].now = Nothing /\ walks[c].left = <<>> /\ t # Nothing
    BY <1>1, OrdersBounds DEF AtRest
  <2>2. ~\E i \in DOMAIN walks[c].left : walks[c].left[i] = t
    BY <2>1
  <2>3. ~Claimed(c, t)
    BY <2>1, <2>2 DEF Claimed
  <2>4. Claimed(c, t)' <=> t \in Resting
    BY <1>3, <1>5, <2>1 DEF Resting
  <2> QED BY <2>3, <2>4
<1>7. Known' = Known /\ Resting' = Resting /\ Resting \subseteq Tickets
  BY <1>1, LenProperties DEF Known, Resting
<1>8. Claims' = Claims \cup ({c} \X Resting)
  BY <1>5, <1>6, <1>7 DEF Claims
<1>9. \A t \in Tickets : <<c, t>> \notin Claims
  BY <1>6, ClaimsAre
<1>10. OrdersInv'
  BY <1>1, <1>5, <1>6, <1>7 DEF OrdersInv, BookTypes, ListsAgree
<1> QED BY <1>1, <1>7, <1>8, <1>9, <1>10 DEF Promise!Walk

LEMMA SkipStep ==
    ASSUME OrdersInv, NEW c \in Checks, SkipOrder(c)
    PROVE  OrdersInv' /\ \E t \in Tickets : Promise!PassOver(c, t)
<1> DEFINE l == walks[c].left  t == Head(l)
           w == [walks[c] EXCEPT !.left = Tail(l)]
<1>1. /\ walks[c] \in WalkState /\ l \in Seq(Tickets) /\ Distinct(l)
      /\ walks[c].now = Nothing /\ l # <<>> /\ UNCHANGED <<book, orders, filledBy>>
  BY WalkTypes DEF SkipOrder
<1>2. /\ t \in Tickets /\ Tail(l) \in Seq(Tickets) /\ Distinct(Tail(l))
      /\ \A u : (\E i \in DOMAIN l : l[i] = u)
                <=> u = t \/ \E i \in DOMAIN Tail(l) : Tail(l)[i] = u
      /\ \A i \in DOMAIN Tail(l) : Tail(l)[i] # t
  BY <1>1, ListParts
<1>3. walks' = [walks EXCEPT ![c] = w]
  BY DEF SkipOrder, OrdersInv, BookTypes
<1>4. /\ w \in WalkState /\ w.left = Tail(l) /\ w.now = Nothing
      /\ \A i \in DOMAIN Tail(l) : Tail(l)[i] # Nothing
  BY <1>1, <1>2, OrdersBounds, LenProperties DEF WalkState
<1>5. WalkOK(w)
  BY <1>2, <1>4 DEF WalkOK
<1> HIDE DEF w, t
<1>6. /\ walks' \in [Checks -> WalkState] /\ \A d \in Checks : WalkOK(walks'[d])
      /\ \A d \in Checks : \A u : d # c => (Claimed(d, u)' <=> Claimed(d, u))
      /\ \A u : Claimed(c, u)' <=> w.now = u \/ \E i \in DOMAIN w.left : w.left[i] = u
  BY <1>3, <1>4, <1>5, WalkChanges
<1>7. \A u \in Tickets : Claimed(c, u)' <=> Claimed(c, u) /\ u # t
  <2> SUFFICES ASSUME NEW u \in Tickets
               PROVE  Claimed(c, u)' <=> Claimed(c, u) /\ u # t
    OBVIOUS
  <2>1. u # Nothing
    BY OrdersBounds
  <2>2. Claimed(c, u) <=> \E i \in DOMAIN l : l[i] = u
    BY <1>1, <2>1 DEF Claimed
  <2>3. Claimed(c, u)' <=> \E i \in DOMAIN Tail(l) : Tail(l)[i] = u
    BY <1>4, <1>6, <2>1
  <2> QED BY <1>2, <2>2, <2>3, Zenon
<1>8. Known' = Known /\ Resting' = Resting
  BY <1>1 DEF Known, Resting
<1>9. \A d \in Checks, u \in Tickets :
          Claimed(d, u)' <=> Claimed(d, u) /\ <<d, u>> # <<c, t>>
  BY <1>6, <1>7
<1>10. Claims' = Claims \ {<<c, t>>}
  BY <1>2, <1>9, ClaimsRemoved
<1>11. Claimed(c, t)
  BY <1>1, <1>2 DEF Claimed
<1>12. <<c, t>> \in Claims
  BY <1>2, <1>11, ClaimsAre
<1>13. OrdersInv'
  BY <1>1, <1>6, <1>8, <1>9 DEF OrdersInv, BookTypes, ListsAgree
<1> QED BY <1>1, <1>2, <1>8, <1>10, <1>12, <1>13 DEF Promise!PassOver

LEMMA TakeStep ==
    ASSUME OrdersInv, NEW c \in Checks, TakeOrder(c)
    PROVE  OrdersInv' /\ UNCHANGED Promise!restingVars
<1> DEFINE l == walks[c].left  t == Head(l)
           w == [left |-> Tail(l), now |-> t]
<1>1. /\ walks[c] \in WalkState /\ l \in Seq(Tickets) /\ Distinct(l)
      /\ walks[c].now = Nothing /\ l # <<>> /\ UNCHANGED <<book, orders, filledBy>>
      /\ walks' = [walks EXCEPT ![c] = w]
  BY WalkTypes DEF TakeOrder, OrdersInv, BookTypes
<1>2. /\ t \in Tickets /\ Tail(l) \in Seq(Tickets) /\ Distinct(Tail(l))
      /\ \A u : (\E i \in DOMAIN l : l[i] = u)
                <=> u = t \/ \E i \in DOMAIN Tail(l) : Tail(l)[i] = u
      /\ \A i \in DOMAIN Tail(l) : Tail(l)[i] # t
  BY <1>1, ListParts
<1>3. w \in WalkState /\ w.left = Tail(l) /\ w.now = t
  BY <1>2 DEF WalkState
<1>4. WalkOK(w)
  BY <1>2, <1>3 DEF WalkOK
<1> HIDE DEF w, t
<1>5. /\ walks' \in [Checks -> WalkState] /\ \A d \in Checks : WalkOK(walks'[d])
      /\ \A d \in Checks : \A u : d # c => (Claimed(d, u)' <=> Claimed(d, u))
      /\ \A u : Claimed(c, u)' <=> w.now = u \/ \E i \in DOMAIN w.left : w.left[i] = u
  BY <1>1, <1>3, <1>4, WalkChanges
<1>6. \A u \in Tickets : Claimed(c, u)' <=> Claimed(c, u)
  <2> SUFFICES ASSUME NEW u \in Tickets PROVE Claimed(c, u)' <=> Claimed(c, u)
    OBVIOUS
  <2>1. u # Nothing
    BY OrdersBounds
  <2>2. Claimed(c, u) <=> \E i \in DOMAIN l : l[i] = u
    BY <1>1, <2>1 DEF Claimed
  <2>3. Claimed(c, u)' <=> u = t \/ \E i \in DOMAIN Tail(l) : Tail(l)[i] = u
    BY <1>3, <1>5, <2>1
  <2> QED BY <1>2, <2>2, <2>3, Zenon
<1>7. \A d \in Checks, u \in Tickets : Claimed(d, u)' <=> Claimed(d, u)
  BY <1>5, <1>6
<1>8. Known' = Known /\ Resting' = Resting /\ Claims' = Claims
  BY <1>1, <1>7 DEF Known, Resting, Claims
<1>9. OrdersInv'
  BY <1>1, <1>5, <1>7, <1>8 DEF OrdersInv, BookTypes, ListsAgree
<1> QED BY <1>1, <1>8, <1>9 DEF Promise!restingVars

(* A check is done with the order it executes, filled or not.               *)
LEMMA DoneStep ==
    ASSUME OrdersInv, NEW c \in Checks, walks[c].now # Nothing,
           walks' = [walks EXCEPT ![c].now = Nothing]
    PROVE  LET t == walks[c].now IN
           /\ t \in Tickets /\ Claimed(c, t)
           /\ walks' \in [Checks -> WalkState] /\ \A d \in Checks : WalkOK(walks'[d])
           /\ \A d \in Checks, u \in Tickets :
                  Claimed(d, u)' <=> Claimed(d, u) /\ <<d, u>> # <<c, t>>
           /\ Claims' = Claims \ {<<c, t>>} /\ <<c, t>> \in Claims
<1> DEFINE t == walks[c].now  l == walks[c].left
           w == [walks[c] EXCEPT !.now = Nothing]
<1>1. /\ walks[c] \in WalkState /\ l \in Seq(Tickets) /\ Distinct(l) /\ t \in Tickets
      /\ \A i \in DOMAIN l : l[i] # t
  BY WalkTypes
<1>2. walks' = [walks EXCEPT ![c] = w]
  BY DEF OrdersInv, BookTypes
<1>3. /\ w \in WalkState /\ w.left = l /\ w.now = Nothing
      /\ \A i \in DOMAIN l : l[i] # Nothing
  BY <1>1, OrdersBounds, LenProperties DEF WalkState
<1>4. WalkOK(w)
  BY <1>1, <1>3 DEF WalkOK
<1>5. Claimed(c, t)
  BY DEF Claimed
<1> HIDE DEF w
<1>6. /\ walks' \in [Checks -> WalkState] /\ \A d \in Checks : WalkOK(walks'[d])
      /\ \A d \in Checks : \A u : d # c => (Claimed(d, u)' <=> Claimed(d, u))
      /\ \A u : Claimed(c, u)' <=> w.now = u \/ \E i \in DOMAIN w.left : w.left[i] = u
  BY <1>2, <1>3, <1>4, WalkChanges
<1>7. ASSUME NEW u \in Tickets
      PROVE  Claimed(c, u)' <=> Claimed(c, u) /\ u # t
  <2>1. u # Nothing
    BY OrdersBounds
  <2>2. Claimed(c, u) <=> u = t \/ \E i \in DOMAIN l : l[i] = u
    BY DEF Claimed
  <2>3. Claimed(c, u)' <=> \E i \in DOMAIN l : l[i] = u
    BY <1>3, <1>6, <2>1
  <2> QED BY <1>1, <2>2, <2>3, Zenon
<1>8. \A d \in Checks, u \in Tickets :
          Claimed(d, u)' <=> Claimed(d, u) /\ <<d, u>> # <<c, t>>
  BY <1>6, <1>7
<1>9. Claims' = Claims \ {<<c, t>>}
  BY <1>1, <1>8, ClaimsRemoved
<1>10. <<c, t>> \in Claims
  BY <1>1, <1>5, ClaimsAre
<1> QED BY <1>1, <1>5, <1>6, <1>8, <1>9, <1>10

LEMMA FillFailsStep ==
    ASSUME OrdersInv, NEW c \in Checks, FillFails(c)
    PROVE  OrdersInv' /\ \E t \in Tickets : Promise!PassOver(c, t)
<1> DEFINE t == walks[c].now
<1>1. /\ walks[c].now # Nothing /\ walks' = [walks EXCEPT ![c].now = Nothing]
      /\ UNCHANGED <<book, orders, filledBy>>
  BY DEF FillFails
<1>2. /\ t \in Tickets
      /\ walks' \in [Checks -> WalkState] /\ \A d \in Checks : WalkOK(walks'[d])
      /\ \A d \in Checks, u \in Tickets :
             Claimed(d, u)' <=> Claimed(d, u) /\ <<d, u>> # <<c, t>>
      /\ Claims' = Claims \ {<<c, t>>} /\ <<c, t>> \in Claims
  BY <1>1, DoneStep
<1>3. Known' = Known /\ Resting' = Resting
  BY <1>1 DEF Known, Resting
<1>4. OrdersInv'
  BY <1>1, <1>2, <1>3 DEF OrdersInv, BookTypes, ListsAgree
<1> QED BY <1>1, <1>2, <1>3, <1>4 DEF Promise!PassOver

LEMMA FillStep ==
    ASSUME OrdersInv, NEW c \in Checks, FillOrder(c)
    PROVE  OrdersInv' /\ \E t \in Tickets : Promise!Fill(c, t)
<1> DEFINE t == walks[c].now
<1>1. /\ walks[c].now # Nothing /\ walks' = [walks EXCEPT ![c].now = Nothing]
      /\ orders' = [orders EXCEPT ![t].status = "filled"]
      /\ book' = Without(book, t) /\ filledBy' = filledBy \cup {<<c, t>>}
  BY DEF FillOrder
<1>2. /\ t \in Tickets /\ Claimed(c, t)
      /\ walks' \in [Checks -> WalkState] /\ \A d \in Checks : WalkOK(walks'[d])
      /\ \A d \in Checks, u \in Tickets :
             Claimed(d, u)' <=> Claimed(d, u) /\ <<d, u>> # <<c, t>>
      /\ Claims' = Claims \ {<<c, t>>} /\ <<c, t>> \in Claims
  BY <1>1, DoneStep
<1> HIDE DEF t
<1>3. /\ Resting' = Resting \ {t} /\ Distinct(book') /\ book' \in Seq(Tickets)
  BY <1>1, RestingWithout DEF OrdersInv, ListsAgree
<1>4. /\ t \in Known /\ <<c, t>> \notin filledBy
      /\ orders \in [Tickets -> OrderState] /\ filledBy \subseteq Checks \X Tickets
  BY <1>2 DEF OrdersInv, BookTypes, ListsAgree
<1>5. orders' \in [Tickets -> OrderState]
  BY <1>1, <1>2, <1>4 DEF OrderState
<1>6. Known' = Known
  <2>1. orders'[t].status = "filled" /\ \A u \in Tickets : u # t => orders'[u] = orders[u]
    BY <1>1, <1>2, <1>4 DEF OrderState
  <2>2. orders[t].status # "new"
    BY <1>4 DEF Known
  <2> QED BY <2>1, <2>2 DEF Known
<1>7. ListsAgree'
  BY <1>1, <1>2, <1>3, <1>4, <1>6 DEF OrdersInv, ListsAgree
<1>8. OrdersInv'
  BY <1>1, <1>2, <1>3, <1>4, <1>5, <1>7 DEF OrdersInv, BookTypes
<1> QED BY <1>1, <1>2, <1>3, <1>4, <1>6, <1>8 DEF Promise!Fill

-----------------------------------------------------------------------------
LEMMA OrdersStart == OrdersInit => OrdersInv /\ Promise!Init
<1> SUFFICES ASSUME OrdersInit PROVE OrdersInv /\ Promise!Init
  OBVIOUS
<1>1. /\ book = <<>> /\ filledBy = {} /\ orders = [t \in Tickets |-> NewTicket]
      /\ walks = [c \in Checks |-> AtRest]
  BY DEF OrdersInit
<1>2. NewTicket \in OrderState /\ NewTicket.status = "new"
  BY DEF NewTicket, OrderState
<1>3. AtRest \in WalkState /\ WalkOK(AtRest) /\ AtRest.left = <<>> /\ AtRest.now = Nothing
  BY DEF AtRest, WalkState, WalkOK, Distinct
<1>4. Known = {} /\ Resting = {} /\ Distinct(book)
  BY <1>1, <1>2 DEF Known, Resting, Distinct
<1>5. \A c \in Checks, t \in Tickets : ~Claimed(c, t)
  BY <1>1, <1>3, OrdersBounds DEF Claimed
<1>6. Claims = {}
  BY <1>5 DEF Claims
<1>7. OrdersInv
  BY <1>1, <1>2, <1>3, <1>4, <1>5 DEF OrdersInv, BookTypes, ListsAgree
<1> QED BY <1>1, <1>4, <1>6, <1>7 DEF Promise!Init

(* The steps of the tool, of the closes and of the price.                   *)
TradeSteps ==
    \/ ReadsBalance \/ OpenFilled \/ OpenReadsRow \/ ToolFails \/ SetLevelWrites
    \/ \E s \in Quotes \cup {0} : OpenInserts(s) \/ OpenAverages(s)
    \/ \E p \in Quotes : SetStopChecks(p) \/ SetTakeChecks(p)
    \/ \E t \in Tickets, buy \in BOOLEAN, p \in Quotes : PlaceMeets(t, buy, p)
ExitSteps ==
    \E e \in Exits : \/ CloseReadsRow(e) \/ CloseReadsBalance(e) \/ CloseFilled(e)
                     \/ CloseRow(e) \/ CloseRaises(e)
BookSteps ==
    \/ \E t \in Tickets : Cancel(t)
    \/ \E c \in Checks : BeginCheck(c) \/ SkipOrder(c) \/ TakeOrder(c) \/ FillOrder(c) \/ FillFails(c)
    \/ \E t \in Tickets, buy \in BOOLEAN, p \in Quotes : PlaceRests(t, buy, p)

LEMMA OrdersSteps ==
    ASSUME [OrdersNext]_ordersVars
    PROVE  \/ TradeSteps \/ ExitSteps \/ BookSteps \/ PlaceFilled
           \/ (\E p \in Quotes : MovePrice(p)) \/ UNCHANGED ordersVars
BY Zenon DEF OrdersNext, OrdersStep, TradeSteps, ExitSteps, BookSteps

LEMMA QuietSteps ==
    /\ TradeSteps => UNCHANGED <<book, orders, walks, saw, closes, filledBy, quote, quotesMade>>
    /\ ExitSteps => UNCHANGED <<book, orders, walks, saw, tool, filledBy, quote, rowsMade, quotesMade>>
    /\ BookSteps => UNCHANGED <<tool, closes, row, quote, rowsMade, quotesMade, apart>>
    /\ PlaceFilled => UNCHANGED <<book, walks, saw, closes, row, filledBy, quote, rowsMade, quotesMade, apart>>
    /\ \A p \in Quotes : MovePrice(p) =>
           UNCHANGED <<book, orders, walks, saw, tool, closes, row, coins, ledger, rowsMade, filledBy, apart>>
<1>1. TradeSteps => UNCHANGED <<book, orders, walks, saw, closes, filledBy, quote, quotesMade>>
  BY Zenon DEF TradeSteps, ReadsBalance, OpenFilled, OpenReadsRow, ToolFails, SetLevelWrites, OpenInserts,
         OpenAverages, SetStopChecks, SetTakeChecks, PlaceMeets, bounds
<1>2. ExitSteps => UNCHANGED <<book, orders, walks, saw, tool, filledBy, quote, rowsMade, quotesMade>>
  BY Zenon DEF ExitSteps, CloseReadsRow, CloseReadsBalance, CloseFilled, CloseRow, CloseRaises, bounds
<1>3. BookSteps => UNCHANGED <<tool, closes, row, quote, rowsMade, quotesMade, apart>>
  BY Zenon DEF BookSteps, Cancel, BeginCheck, SkipOrder, TakeOrder, FillOrder, FillFails, PlaceRests, bounds
<1>4. PlaceFilled => UNCHANGED <<book, walks, saw, closes, row, filledBy, quote, rowsMade, quotesMade, apart>>
  BY DEF PlaceFilled, bounds
<1>5. \A p \in Quotes : MovePrice(p) =>
          UNCHANGED <<book, orders, walks, saw, tool, closes, row, coins, ledger, rowsMade, filledBy, apart>>
  BY DEF MovePrice, account
<1> QED BY <1>1, <1>2, <1>3, <1>4, <1>5

(* What an execution makes of the account.                                  *)
LEMMA ExecutesTypes ==
    ASSUME coins \in Int, ledger \in Int, NEW buy, NEW q \in Nat, NEW n \in Int, Executes(buy, q, n)
    PROVE  coins' \in Int /\ ledger' \in Int
BY DEF Executes

LEMMA SeesType == ASSUME coins \in Int, NEW buy PROVE Sees(buy) \in Int
BY DEF Sees

(* The average price of a row is a price.                                   *)
LEMMA AveragePrice ==
    ASSUME NEW e \in Nat, NEW q \in Nat, NEW p \in Nat
    PROVE  (e * q + p) \div (q + 1) \in Nat
<1>1. e * q \in Nat
  OBVIOUS
<1>2. \A x \in Nat, n \in Nat \ {0} : x \div n \in Nat
  OBVIOUS
<1> QED BY <1>1, <1>2

LEMMA AveragedRow ==
    ASSUME AccountTypes, NEW s \in Quotes \cup {0}, OpenAverages(s)
    PROVE  /\ row' \in RowState
           /\ row.id = tool.row.id =>
                  row'.id = row.id /\ row'.long = row.long /\ row'.qty = tool.row.qty + 1
           /\ row.id # tool.row.id => row' = row
<1> DEFINE old == tool.row
           average == (old.entry * old.qty + tool.price) \div (old.qty + 1)
           stop == IF s = 0 THEN row.stop ELSE s
<1>1. row \in RowState /\ old \in RowState /\ tool.price \in Nat /\ s \in Nat
  BY OrdersBounds DEF AccountTypes, ToolState
<1>2. average \in Nat /\ stop \in Nat /\ old.qty + 1 \in Nat
  <2>1. old.entry \in Nat /\ old.qty \in Nat /\ row.stop \in Nat
    BY <1>1 DEF RowState
  <2>2. average \in Nat
    BY <1>1, <2>1, AveragePrice
  <2> QED BY <1>1, <2>1, <2>2
<1>3. \/ row.id = old.id /\ row' = [row EXCEPT !.qty = old.qty + 1, !.stop = stop, !.entry = average]
      \/ row.id # old.id /\ row' = row
  BY DEF OpenAverages
<1> HIDE DEF average, stop, old
<1>4. /\ row' \in RowState
      /\ row.id = old.id => row'.id = row.id /\ row'.long = row.long /\ row'.qty = old.qty + 1
      /\ row.id # old.id => row' = row
  BY <1>1, <1>2, <1>3 DEF RowState
<1> QED BY <1>4 DEF old

(* The tool whose fill is written.                                          *)
LEMMA ToolAfterFill ==
    ASSUME NEW x \in ToolState, NEW s \in {"open", "filled"}
    PROVE  [x EXCEPT !.stage = s, !.seen = 0] \in ToolState
<1> DEFINE y == [x EXCEPT !.stage = s]
<1>1. y \in ToolState
  BY DEF ToolState
<1>2. [x EXCEPT !.stage = s, !.seen = 0] = [y EXCEPT !.seen = 0]
  OBVIOUS
<1> HIDE DEF y
<1>3. [y EXCEPT !.seen = 0] \in ToolState
  BY <1>1 DEF ToolState
<1> QED BY <1>2, <1>3

LEMMA TradeStepsTyped == ASSUME AccountTypes, TradeSteps PROVE AccountTypes'
<1>1. /\ tool \in ToolState /\ row \in RowState /\ coins \in Int /\ ledger \in Int /\ rowsMade \in Nat
      /\ apart \in BOOLEAN /\ quote \in Quotes \cup {0} /\ quote \in Nat
  BY OrdersBounds DEF AccountTypes
<1>2. UNCHANGED <<quote, saw, closes, quotesMade>>
  BY QuietSteps
<1>3. tool' \in ToolState
  <2>1. CASE ReadsBalance
    <3>1. Sees(tool.buy) \in Int
      BY <1>1, SeesType
    <3> QED BY <1>1, <2>1, <3>1 DEF ReadsBalance, ToolState
  <2>2. CASE OpenFilled
    <3>1. tool' = [tool EXCEPT !.stage = "filled", !.seen = 0]
      BY <2>2 DEF OpenFilled
    <3> QED BY <1>1, <3>1, ToolAfterFill
  <2>3. CASE OpenReadsRow
    BY <1>1, <2>3 DEF OpenReadsRow, ToolState
  <2>4. CASE tool' = NoTool
    BY <2>4, NothingTyped
  <2>5. ASSUME NEW p \in Quotes, SetStopChecks(p) \/ SetTakeChecks(p) PROVE tool' \in ToolState
    <3>1. p \in Nat
      BY OrdersBounds
    <3>2. tool' \in {[NoTool EXCEPT !.stage = "stop", !.price = p],
                     [NoTool EXCEPT !.stage = "take", !.price = p]}
      BY <2>5 DEF SetStopChecks, SetTakeChecks
    <3> QED BY <3>1, <3>2, NothingTyped DEF ToolState
  <2>6. ASSUME NEW t \in Tickets, NEW buy \in BOOLEAN, NEW p \in Quotes, PlaceMeets(t, buy, p)
        PROVE  tool' \in ToolState
    <3>1. tool' = [NoTool EXCEPT !.stage = "place", !.ticket = t, !.buy = buy]
      BY <2>6 DEF PlaceMeets
    <3> QED BY <3>1, NothingTyped DEF ToolState
  <2> QED BY <2>1, <2>2, <2>3, <2>4, <2>5, <2>6
          DEF TradeSteps, ToolFails, SetLevelWrites, OpenInserts, OpenAverages
<1>4. coins' \in Int /\ ledger' \in Int
  <2>1. CASE OpenFilled
    <3>1. tool.seen \in Int
      BY <1>1 DEF ToolState
    <3> QED BY <1>1, <2>1, <3>1, ExecutesTypes DEF OpenFilled
  <2>2. CASE UNCHANGED <<coins, ledger>>
    BY <1>1, <2>2
  <2> QED BY <2>1, <2>2, Zenon
          DEF TradeSteps, ReadsBalance, OpenReadsRow, ToolFails, SetLevelWrites, OpenInserts,
              OpenAverages, SetStopChecks, SetTakeChecks, PlaceMeets, account
<1>5. row' \in RowState
  <2>1. ASSUME NEW s \in Quotes \cup {0}, OpenInserts(s) PROVE row' \in RowState
    <3>1. s \in Nat /\ tool.buy \in BOOLEAN /\ tool.price \in Nat
      BY <1>1, OrdersBounds DEF ToolState
    <3> QED BY <2>1, <3>1 DEF OpenInserts, RowState
  <2>2. ASSUME NEW s \in Quotes \cup {0}, OpenAverages(s) PROVE row' \in RowState
    BY <2>2, AveragedRow
  <2>3. CASE SetLevelWrites
    <3>1. tool.price \in Nat
      BY <1>1 DEF ToolState
    <3> QED BY <1>1, <2>3, <3>1 DEF SetLevelWrites, RowState
  <2>4. CASE row' = row
    BY <1>1, <2>4
  <2> QED BY <2>1, <2>2, <2>3, <2>4, Zenon
          DEF TradeSteps, ReadsBalance, OpenFilled, OpenReadsRow, ToolFails, SetStopChecks,
              SetTakeChecks, PlaceMeets
<1>6. rowsMade' \in Nat
  <2>1. rowsMade' \in {rowsMade, rowsMade + 1}
    BY Zenon DEF TradeSteps, ReadsBalance, OpenFilled, OpenReadsRow, ToolFails, SetLevelWrites,
       OpenInserts, OpenAverages, SetStopChecks, SetTakeChecks, PlaceMeets, bounds
  <2> QED BY <1>1, <2>1
<1>7. apart' \in BOOLEAN
  <2>1. \A d \in BOOLEAN : (apart \/ d) \in BOOLEAN
    OBVIOUS
  <2> QED BY <1>1, <2>1, Zenon
          DEF TradeSteps, ReadsBalance, OpenFilled, OpenReadsRow, ToolFails, SetLevelWrites,
              OpenInserts, OpenAverages, SetStopChecks, SetTakeChecks, PlaceMeets
<1>8. quote' \in Quotes \cup {0} /\ saw' \in [Checks -> Int] /\ closes' \in [Exits -> CloseState]
      /\ quotesMade' \in Nat
  BY <1>2 DEF AccountTypes
<1> QED BY <1>3, <1>4, <1>5, <1>6, <1>7, <1>8 DEF AccountTypes

LEMMA ExitStepsTyped ==
    ASSUME AccountTypes, NEW e \in Exits,
           CloseReadsRow(e) \/ CloseReadsBalance(e) \/ CloseFilled(e) \/ CloseRow(e) \/ CloseRaises(e)
    PROVE  /\ AccountTypes'
           /\ \A f \in Exits \ {e} : closes'[f] = closes[f]
           /\ closes[e].row \in RowState /\ closes[e].row.qty \in Nat /\ closes[e].row.long \in BOOLEAN
<1>1. /\ row \in RowState /\ coins \in Int /\ ledger \in Int /\ apart \in BOOLEAN
      /\ closes \in [Exits -> CloseState] /\ closes[e] \in CloseState
  BY DEF AccountTypes
<1>2. closes[e].row \in RowState /\ closes[e].row.qty \in Nat /\ closes[e].row.long \in BOOLEAN
      /\ closes[e].seen \in Int
  BY <1>1 DEF CloseState, RowState
<1>3. Sees(~closes[e].row.long) \in Int
  BY <1>1, SeesType
<1>4. PICK x \in CloseState : closes' = [closes EXCEPT ![e] = x]
  <2>1. CASE CloseReadsRow(e)
    <3> DEFINE x == [stage |-> "row", row |-> row, seen |-> 0]
    <3>1. x \in CloseState
      BY <1>1 DEF CloseState
    <3> QED BY <2>1, <3>1 DEF CloseReadsRow
  <2>2. CASE CloseReadsBalance(e)
    <3> DEFINE x == [stage |-> "sale", row |-> closes[e].row, seen |-> Sees(~closes[e].row.long)]
    <3>1. x \in CloseState
      BY <1>2, <1>3 DEF CloseState
    <3> QED BY <2>2, <3>1 DEF CloseReadsBalance
  <2>3. CASE CloseFilled(e)
    <3> DEFINE x == [stage |-> "removal", row |-> closes[e].row, seen |-> 0]
    <3>1. x \in CloseState
      BY <1>2 DEF CloseState
    <3> QED BY <2>3, <3>1 DEF CloseFilled
  <2>4. CASE CloseRow(e) \/ CloseRaises(e)
    BY <2>4, NothingTyped DEF CloseRow, CloseRaises
  <2> QED BY <2>1, <2>2, <2>3, <2>4
<1>5. closes' \in [Exits -> CloseState] /\ \A f \in Exits \ {e} : closes'[f] = closes[f]
  BY <1>1, <1>4
<1>6. coins' \in Int /\ ledger' \in Int
  <2>1. CASE CloseFilled(e)
    BY <1>1, <1>2, <2>1, ExecutesTypes DEF CloseFilled
  <2>2. CASE UNCHANGED <<coins, ledger>>
    BY <1>1, <2>2
  <2> QED BY <2>1, <2>2 DEF CloseReadsRow, CloseReadsBalance, CloseRow, CloseRaises, account
<1>7. row' \in RowState
  BY <1>1, NothingTyped, Zenon DEF CloseReadsRow, CloseReadsBalance, CloseFilled, CloseRow, CloseRaises
<1>8. apart' \in BOOLEAN
  <2>1. \A d : (apart \/ d) \in BOOLEAN
    OBVIOUS
  <2> QED BY <1>1, <2>1, Zenon DEF CloseReadsRow, CloseReadsBalance, CloseFilled, CloseRow, CloseRaises
<1>9. UNCHANGED <<quote, saw, tool, rowsMade, quotesMade>>
  BY QuietSteps DEF ExitSteps
<1> QED BY <1>2, <1>5, <1>6, <1>7, <1>8, <1>9 DEF AccountTypes

LEMMA BookStepsTyped == ASSUME AccountTypes, BookSteps PROVE AccountTypes'
<1>1. coins \in Int /\ ledger \in Int /\ saw \in [Checks -> Int]
  BY DEF AccountTypes
<1>2. UNCHANGED <<tool, closes, row, quote, rowsMade, quotesMade, apart>>
  BY QuietSteps
<1>3. coins' \in Int /\ ledger' \in Int /\ saw' \in [Checks -> Int]
  <2>1. ASSUME NEW c \in Checks, FillOrder(c)
        PROVE  coins' \in Int /\ ledger' \in Int /\ saw' \in [Checks -> Int]
    <3>1. saw[c] \in Int /\ saw' = [saw EXCEPT ![c] = 0]
      BY <1>1, <2>1 DEF FillOrder
    <3>2. Executes(orders[walks[c].now].buy, 1, saw[c])
      BY <2>1 DEF FillOrder
    <3> QED BY <1>1, <3>1, <3>2, ExecutesTypes
  <2>2. ASSUME NEW c \in Checks, TakeOrder(c) \/ FillFails(c)
        PROVE  UNCHANGED <<coins, ledger>> /\ saw' \in [Checks -> Int]
    <3>1. UNCHANGED <<coins, ledger>>
          /\ saw' \in {[saw EXCEPT ![c] = 0],
                       [saw EXCEPT ![c] = Sees(orders[Head(walks[c].left)].buy)]}
      BY <2>2 DEF TakeOrder, FillFails, account
    <3>2. Sees(orders[Head(walks[c].left)].buy) \in Int
      BY <1>1, SeesType
    <3> QED BY <1>1, <3>1, <3>2
  <2>3. CASE UNCHANGED <<coins, ledger, saw>>
    BY <1>1, <2>3
  <2> QED BY <1>1, <2>1, <2>2, <2>3 DEF BookSteps, Cancel, BeginCheck, SkipOrder, PlaceRests, account
<1> QED BY <1>2, <1>3 DEF AccountTypes

LEMMA OrdersAccountTyped ==
    ASSUME AccountTypes, [OrdersNext]_ordersVars
    PROVE  AccountTypes'
<1>1. CASE PlaceFilled
  <2>1. tool \in ToolState /\ tool.seen \in Int /\ coins \in Int /\ ledger \in Int
    BY DEF AccountTypes, ToolState
  <2>2. coins' \in Int /\ ledger' \in Int
    BY <1>1, <2>1, ExecutesTypes DEF PlaceFilled
  <2>3. tool' \in ToolState
    <3>1. tool' = [tool EXCEPT !.stage = "open", !.seen = 0]
      BY <1>1 DEF PlaceFilled
    <3> QED BY <2>1, <3>1, ToolAfterFill
  <2> QED BY <1>1, <2>2, <2>3, QuietSteps DEF AccountTypes
<1>2. ASSUME NEW p \in Quotes, MovePrice(p) PROVE AccountTypes'
  <2>1. quote' = p /\ quotesMade' = quotesMade + 1
    BY <1>2 DEF MovePrice
  <2> QED BY <1>2, <2>1, QuietSteps DEF AccountTypes
<1>3. CASE UNCHANGED ordersVars
  BY <1>3 DEF ordersVars, AccountTypes
<1>4. CASE ExitSteps
  BY <1>4, ExitStepsTyped, Zenon DEF ExitSteps
<1> QED BY <1>1, <1>2, <1>3, <1>4, OrdersSteps, TradeStepsTyped, BookStepsTyped

LEMMA TicketStaysNew ==
    ASSUME OrdersInv, ToolInv, [OrdersNext]_ordersVars
    PROVE  TicketIsNew'
<1>1. tool \in ToolState
  BY DEF ToolInv, AccountTypes
<1>2. ASSUME UNCHANGED <<tool, orders>> PROVE TicketIsNew'
  BY <1>2 DEF ToolInv, TicketIsNew
<1>3. CASE TradeSteps
  <2>1. orders' = orders
    BY <1>3, QuietSteps
  <2>2. ASSUME NEW t \in Tickets, NEW buy \in BOOLEAN, NEW p \in Quotes, PlaceMeets(t, buy, p)
        PROVE  TicketIsNew'
    <3>1. tool'.ticket = t /\ orders[t].status = "new"
      BY <2>2 DEF PlaceMeets, NoTool
    <3> QED BY <2>1, <3>1 DEF TicketIsNew
  <2>3. CASE ReadsBalance
    <3>1. tool.stage = "place" \/ tool.stage = "open"
      BY <2>3 DEF ReadsBalance
    <3>2. /\ tool'.ticket = tool.ticket
          /\ tool'.stage = IF tool.stage = "place" THEN "placeFill" ELSE "openFill"
      BY <1>1, <2>3 DEF ReadsBalance, ToolState
    <3> QED BY <2>1, <3>1, <3>2 DEF ToolInv, TicketIsNew
  <2>4. CASE OpenFilled
    BY <1>1, <2>4 DEF OpenFilled, ToolState, TicketIsNew
  <2>5. CASE OpenReadsRow
    BY <1>1, <2>5 DEF OpenReadsRow, ToolState, TicketIsNew
  <2>6. CASE tool' = NoTool
    BY <2>6, NothingTyped DEF TicketIsNew
  <2>7. ASSUME NEW p \in Quotes, SetStopChecks(p) \/ SetTakeChecks(p) PROVE TicketIsNew'
    BY <2>7 DEF SetStopChecks, SetTakeChecks, NoTool, TicketIsNew
  <2> QED BY <1>3, <2>2, <2>3, <2>4, <2>5, <2>6, <2>7
          DEF TradeSteps, ToolFails, SetLevelWrites, OpenInserts, OpenAverages
<1>4. CASE PlaceFilled
  BY <1>1, <1>4 DEF PlaceFilled, ToolState, TicketIsNew
<1>5. CASE BookSteps
  <2>1. tool' = tool
    BY <1>5, QuietSteps
  <2>2. ASSUME NEW t \in Tickets, NEW buy \in BOOLEAN, NEW p \in Quotes, PlaceRests(t, buy, p)
        PROVE  TicketIsNew'
    BY <2>1, <2>2, NothingTyped DEF PlaceRests, TicketIsNew
  <2>3. ASSUME NEW c \in Checks, FillOrder(c) PROVE TicketIsNew'
    <3> DEFINE t == walks[c].now
    <3>1. /\ t \in Tickets /\ Claimed(c, t) /\ orders' = [orders EXCEPT ![t].status = "filled"]
          /\ orders \in [Tickets -> OrderState]
      BY <2>3, WalkTypes DEF FillOrder, Claimed, OrdersInv, BookTypes
    <3>2. t \in Known
      BY <3>1, Zenon DEF OrdersInv, ListsAgree
    <3>3. orders[t].status # "new"
      BY <3>2 DEF Known
    <3> HIDE DEF t
    <3> QED BY <2>1, <3>1, <3>3 DEF ToolInv, TicketIsNew
  <2>4. CASE orders' = orders
    BY <1>2, <2>1, <2>4
  <2> QED BY <1>5, <2>2, <2>3, <2>4, Zenon
          DEF BookSteps, Cancel, BeginCheck, SkipOrder, TakeOrder, FillFails
<1>6. ExitSteps \/ (\E p \in Quotes : MovePrice(p)) \/ UNCHANGED ordersVars
          => UNCHANGED <<tool, orders>>
  BY QuietSteps, Zenon DEF ordersVars
<1> QED BY <1>2, <1>3, <1>4, <1>5, <1>6, OrdersSteps

LEMMA OrdersStepKeeps ==
    ASSUME OrdersInv, ToolInv, [OrdersNext]_ordersVars
    PROVE  OrdersInv' /\ [Promise!Next]_(Promise!restingVars)
<1>1. CASE PlaceFilled
  BY <1>1, PlaceFilledStep DEF Promise!Next
<1>2. CASE BookSteps
  BY <1>2, PlaceRestsStep, CancelStep, BeginCheckStep, SkipStep, TakeStep, FillStep, FillFailsStep
     DEF BookSteps, Promise!Next
<1>3. CASE UNCHANGED <<book, orders, walks, filledBy>>
  BY <1>3, ElsewhereStep
<1>4. TradeSteps \/ ExitSteps \/ (\E p \in Quotes : MovePrice(p)) \/ UNCHANGED ordersVars
          => UNCHANGED <<book, orders, walks, filledBy>>
  BY QuietSteps, Zenon DEF ordersVars
<1> QED BY <1>1, <1>2, <1>3, <1>4, OrdersSteps

LEMMA ToolStart == OrdersInit => ToolInv
<1> SUFFICES ASSUME OrdersInit PROVE ToolInv
  OBVIOUS
<1>1. /\ quote = 0 /\ coins = 0 /\ ledger = 0 /\ rowsMade = 0 /\ quotesMade = 0 /\ apart = FALSE
      /\ tool = NoTool /\ row = NoRow /\ saw = [c \in Checks |-> 0]
      /\ closes = [e \in Exits |-> NewClose]
  BY DEF OrdersInit
<1>2. apart \in BOOLEAN
  BY <1>1, Zenon
<1> QED BY <1>1, <1>2, NothingTyped DEF ToolInv, AccountTypes, TicketIsNew

(* No list names an order twice, a placed order is never new again, and an  *)
(* order that a check filled is in none of its lists and not in the book    *)
(* (orders.py:315, 336): for every set of orders and of checks.             *)
THEOREM OrdersInvariant == OrdersSpec => [](OrdersInv /\ ToolInv)
<1>1. OrdersInit => OrdersInv /\ ToolInv
  BY OrdersStart, ToolStart
<1>2. OrdersInv /\ ToolInv /\ [OrdersNext]_ordersVars => (OrdersInv /\ ToolInv)'
  BY OrdersStepKeeps, OrdersAccountTyped, TicketStaysNew DEF ToolInv
<1> QED BY <1>1, <1>2, PTL DEF OrdersSpec

(* The order manager implements RestingOrders: whatever happens between two *)
(* orders of a check, an order is filled only by a check that found it      *)
(* resting, at most once by each, and it never rests again.                 *)
THEOREM OrderManagerKeepsPromise == OrdersSpec => KeepsOrderPromise
<1>1. OrdersInit => Promise!Init
  BY OrdersStart
<1>2. OrdersInv /\ ToolInv /\ [OrdersNext]_ordersVars => [Promise!Next]_(Promise!restingVars)
  BY OrdersStepKeeps
<1> QED BY <1>1, <1>2, OrdersInvariant, PTL DEF OrdersSpec, KeepsOrderPromise, Promise!Spec

-----------------------------------------------------------------------------
(* LotsOutsideRow.  The lots no position shows are counted order by order:  *)
(* those filled at once and the executions by checks.  An order that rests  *)
(* or is on a list of a check was not filled at once, so each execution is  *)
(* counted once.                                                            *)
Extra == Balance(FilledAtOnce, [t \in Tickets |-> orders[t].buy])
         + Balance(filledBy, [x \in Checks \X Tickets |-> orders[x[2]].buy])

Counted ==
    /\ IsFiniteSet(FilledAtOnce) /\ IsFiniteSet(filledBy)
    /\ \A x \in filledBy : orders[x[2]].status = "filled"
    /\ \A t \in Tickets : t \in Resting \/ (\E c \in Checks : <<c, t>> \in Claims)
                              => t \notin FilledAtOnce

(* What the row shows, and the lot of an open_position() that has been      *)
(* filled and is not in the row yet.                                        *)
Shown == row.qty * Lots(row.long)
InHand == IF tool.stage \in {"filled", "write"} THEN Lots(tool.buy) ELSE 0
Sold(e) == closes[e].row.qty * Lots(closes[e].row.long)

(* What the tool and the closes have read of the row.                       *)
CopiesOK ==
    /\ tool.stage = "write" /\ row.id = tool.row.id => SameLots(row, tool.row)
    /\ tool.stage = "write" /\ tool.row = NoRow => row = NoRow
    /\ row.id = 0 => row = NoRow
    /\ tool.row.id = 0 => tool.row = NoRow
    /\ \A e \in Exits : closes[e].stage \in {"row", "sale", "removal"} => closes[e].row.id # 0

(* Until something is apart, one close at most has sold a row it has not    *)
(* deleted, that row is still there, and the trades are the lots of the     *)
(* row, those on their way to it or from it, and those counted.             *)
Accounted ==
    ~apart =>
        /\ \A e, f \in Selling : e = f
        /\ \A e \in Selling : /\ row.id = closes[e].row.id /\ row.long = closes[e].row.long
                              /\ ledger = Shown + Extra + InHand - Sold(e)
        /\ Selling = {} => ledger = Shown + Extra + InHand

LotsInv == OrdersInv /\ ToolInv /\ Counted /\ CopiesOK /\ Accounted

LEMMA BalanceType ==
    ASSUME NEW S, IsFiniteSet(S), NEW f
    PROVE  Balance(S, f) \in Int
<1>1. {x \in S : f[x]} \in SUBSET S /\ {x \in S : ~f[x]} \in SUBSET S
  OBVIOUS
<1>2. /\ Cardinality({x \in S : f[x]}) \in Nat /\ Cardinality({x \in S : ~f[x]}) \in Nat
  BY <1>1, FS_Subset, FS_CardinalityType
<1> QED BY <1>2 DEF Balance

(* One more lot counts for one.                                             *)
LEMMA BalanceAdds ==
    ASSUME NEW S, IsFiniteSet(S), NEW u, u \notin S, NEW f, NEW g, g[u] \in BOOLEAN,
           \A x \in S : g[x] = f[x]
    PROVE  Balance(S \cup {u}, g) = Balance(S, f) + Lots(g[u])
<1> DEFINE B == {x \in S : f[x]}
           N == {x \in S : ~f[x]}
           B1 == {x \in S \cup {u} : g[x]}
           N1 == {x \in S \cup {u} : ~g[x]}
<1>1. B \in SUBSET S /\ N \in SUBSET S /\ u \notin B /\ u \notin N
  OBVIOUS
<1>2. /\ IsFiniteSet(B) /\ IsFiniteSet(N)
      /\ Cardinality(B) \in Nat /\ Cardinality(N) \in Nat
  BY <1>1, FS_Subset, FS_CardinalityType
<1>3. /\ Cardinality(B \cup {u}) = Cardinality(B) + 1
      /\ Cardinality(N \cup {u}) = Cardinality(N) + 1
  BY <1>1, <1>2, FS_AddElement
<1>4. CASE g[u]
  <2>1. B1 = B \cup {u} /\ N1 = N
    BY <1>4, Zenon
  <2> HIDE DEF B, N, B1, N1
  <2>2. Cardinality(B1) - Cardinality(N1) = Cardinality(B) - Cardinality(N) + 1
    BY <1>2, <1>3, <2>1
  <2> QED BY <1>4, <2>2 DEF Balance, Lots, B, N, B1, N1
<1>5. CASE ~g[u]
  <2>1. B1 = B /\ N1 = N \cup {u}
    BY <1>5, Zenon
  <2> HIDE DEF B, N, B1, N1
  <2>2. Cardinality(B1) - Cardinality(N1) = Cardinality(B) - Cardinality(N) + (-1)
    BY <1>2, <1>3, <2>1
  <2> QED BY <1>5, <2>2 DEF Balance, Lots, B, N, B1, N1
<1> QED BY <1>4, <1>5

LEMMA BalanceSame ==
    ASSUME NEW S, NEW f, NEW g, \A x \in S : g[x] = f[x]
    PROVE  Balance(S, g) = Balance(S, f)
<1>1. {x \in S : g[x]} = {x \in S : f[x]} /\ {x \in S : ~g[x]} = {x \in S : ~f[x]}
  OBVIOUS
<1> QED BY <1>1 DEF Balance

(* Nothing is counted anew while the orders and the executions stay.        *)
LEMMA ExtraStays ==
    ASSUME Counted, UNCHANGED <<orders, filledBy>>, Resting' \subseteq Resting,
           \A c \in Checks, t \in Tickets : <<c, t>> \in Claims' =>
               <<c, t>> \in Claims \/ t \in Resting
    PROVE  Counted' /\ Extra' = Extra
<1>1. FilledAtOnce' = FilledAtOnce
  BY DEF FilledAtOnce
<1>2. Extra' = Extra
  BY <1>1 DEF Extra
<1>3. \A t \in Tickets : t \in Resting' \/ (\E c \in Checks : <<c, t>> \in Claims')
                              => t \notin FilledAtOnce'
  BY <1>1 DEF Counted
<1> QED BY <1>1, <1>2, <1>3 DEF Counted

(* An order that rests counts for nothing ...                               *)
LEMMA RestsCounted ==
    ASSUME LotsInv, NEW t \in Tickets, NEW buy \in BOOLEAN, NEW p \in Quotes,
           PlaceRests(t, buy, p)
    PROVE  Counted' /\ Extra' = Extra
<1>1. /\ Resting' = Resting \cup {t} /\ Claims' = Claims /\ filledBy' = filledBy
      /\ t \notin Known
  BY PlaceRestsStep DEF LotsInv, Promise!Rest
<1>2. /\ orders' = [orders EXCEPT ![t] = [buy |-> buy, limit |-> p, status |-> "open"]]
      /\ orders \in [Tickets -> OrderState] /\ filledBy \subseteq Checks \X Tickets
  BY DEF PlaceRests, LotsInv, OrdersInv, BookTypes
<1>3. orders'[t].status = "open" /\ orders[t].status = "new"
  BY <1>1, <1>2 DEF Known
<1>4. \A u \in Tickets \ {t} : orders'[u] = orders[u]
  BY <1>2
<1>5. FilledAtOnce' = FilledAtOnce /\ t \notin FilledAtOnce
  BY <1>1, <1>3, <1>4 DEF FilledAtOnce
<1>6. \A x \in filledBy : x[2] \in Tickets \ {t}
  BY <1>2, <1>3 DEF LotsInv, Counted
<1>7. Counted'
  BY <1>1, <1>4, <1>5, <1>6 DEF LotsInv, Counted
<1>8. Extra' = Extra
  <2> DEFINE f == [u \in Tickets |-> orders[u].buy]
             g == [x \in Checks \X Tickets |-> orders[x[2]].buy]
  <2>1. \A u \in FilledAtOnce : f'[u] = f[u]
    BY <1>4, <1>5 DEF FilledAtOnce
  <2>2. \A x \in filledBy : g'[x] = g[x]
    BY <1>2, <1>4, <1>6
  <2> HIDE DEF f, g
  <2>3. Balance(FilledAtOnce, f') = Balance(FilledAtOnce, f)
    BY <2>1, BalanceSame
  <2>4. Balance(filledBy, g') = Balance(filledBy, g)
    BY <2>2, BalanceSame
  <2> QED BY <1>1, <1>5, <2>3, <2>4 DEF Extra, f, g
<1> QED BY <1>7, <1>8

(* ... one filled at once for a lot ...                                     *)
LEMMA FilledCounted ==
    ASSUME LotsInv, PlaceFilled
    PROVE  Counted' /\ Extra' = Extra + Lots(tool.buy)
<1> DEFINE t == tool.ticket  buy == tool.buy  p == tool.price
<1>0. tool \in ToolState /\ buy \in BOOLEAN
  BY DEF LotsInv, ToolInv, AccountTypes, ToolState
<1>1. /\ Resting' = Resting /\ Claims' = Claims /\ filledBy' = filledBy
      /\ t \notin Known /\ t \in Tickets
  BY PlaceFilledStep DEF LotsInv, Promise!FillAtOnce
<1>2. /\ orders' = [orders EXCEPT ![t] = [buy |-> buy, limit |-> p, status |-> "filled"]]
      /\ orders \in [Tickets -> OrderState] /\ filledBy \subseteq Checks \X Tickets
  BY DEF PlaceFilled, LotsInv, OrdersInv, BookTypes
<1> HIDE DEF t, buy, p
<1>3. /\ orders'[t].status = "filled" /\ orders'[t].buy = buy /\ orders[t].status = "new"
  BY <1>1, <1>2 DEF Known
<1>4. \A u \in Tickets \ {t} : orders'[u] = orders[u]
  BY <1>2
<1>5. \A x \in filledBy : x[2] \in Tickets \ {t}
  BY <1>2, <1>3 DEF LotsInv, Counted
<1>6. FilledAtOnce' = FilledAtOnce \cup {t} /\ t \notin FilledAtOnce
  <2>1. \A c \in Checks : <<c, t>> \notin filledBy
    BY <1>5
  <2> QED BY <1>1, <1>3, <1>4, <2>1 DEF FilledAtOnce
<1>7. IsFiniteSet(FilledAtOnce) /\ IsFiniteSet(filledBy)
  BY DEF LotsInv, Counted
<1>8. IsFiniteSet(FilledAtOnce')
  BY <1>6, <1>7, FS_AddElement
<1>9. Counted'
  <2>1. t \notin Resting /\ \A c \in Checks : <<c, t>> \notin Claims
    BY <1>1, ClaimsAre DEF LotsInv, OrdersInv, ListsAgree
  <2> QED BY <1>1, <1>4, <1>5, <1>6, <1>7, <1>8, <2>1 DEF LotsInv, Counted
<1>10. Extra' = Extra + Lots(buy)
  <2> DEFINE f == [u \in Tickets |-> orders[u].buy]
             g == [x \in Checks \X Tickets |-> orders[x[2]].buy]
  <2>1. (\A u \in FilledAtOnce : f'[u] = f[u]) /\ f'[t] = buy
    BY <1>3, <1>4, <1>6 DEF FilledAtOnce
  <2>2. \A x \in filledBy : g'[x] = g[x]
    BY <1>2, <1>4, <1>5
  <2> HIDE DEF f, g
  <2>3. Balance(FilledAtOnce \cup {t}, f') = Balance(FilledAtOnce, f) + Lots(buy)
    BY <1>0, <1>6, <1>7, <2>1, BalanceAdds
  <2>4. Balance(filledBy, g') = Balance(filledBy, g)
    BY <2>2, BalanceSame
  <2>5. /\ Balance(FilledAtOnce, f) \in Int /\ Balance(filledBy, g) \in Int
        /\ Lots(buy) \in Int
    BY <1>0, <1>7, BalanceType DEF Lots
  <2>6. /\ Extra = Balance(FilledAtOnce, f) + Balance(filledBy, g)
        /\ Extra' = Balance(FilledAtOnce \cup {t}, f') + Balance(filledBy, g')
    BY <1>1, <1>6 DEF Extra, f, g
  <2> QED BY <2>3, <2>4, <2>5, <2>6
<1> QED BY <1>9, <1>10 DEF buy

(* ... and an execution by a check for another.                             *)
LEMMA ExecutionCounted ==
    ASSUME LotsInv, NEW c \in Checks, FillOrder(c)
    PROVE  /\ Counted' /\ walks[c].now \in Tickets
           /\ Extra' = Extra + Lots(orders[walks[c].now].buy)
<1> DEFINE t == walks[c].now
<1>1. /\ t \in Tickets /\ Claimed(c, t) /\ Claims' = Claims \ {<<c, t>>}
      /\ <<c, t>> \in Claims
  BY DoneStep DEF LotsInv, FillOrder
<1>2. /\ orders' = [orders EXCEPT ![t].status = "filled"]
      /\ book' = Without(book, t) /\ filledBy' = filledBy \cup {<<c, t>>}
      /\ orders \in [Tickets -> OrderState] /\ filledBy \subseteq Checks \X Tickets
  BY DEF FillOrder, LotsInv, OrdersInv, BookTypes
<1> HIDE DEF t
<1>3. /\ <<c, t>> \notin filledBy /\ Resting' = Resting \ {t}
  BY <1>1, <1>2, RestingWithout DEF LotsInv, OrdersInv, BookTypes, ListsAgree
<1>4. /\ orders'[t].status = "filled"
      /\ \A u \in Tickets : orders'[u].buy = orders[u].buy
      /\ \A u \in Tickets \ {t} : orders'[u] = orders[u]
  BY <1>1, <1>2 DEF OrderState
<1>5. t \notin FilledAtOnce
  BY <1>1 DEF LotsInv, Counted
<1>6. FilledAtOnce' = FilledAtOnce
  <2>1. t \notin FilledAtOnce'
    BY <1>2 DEF FilledAtOnce
  <2>2. ASSUME NEW u \in Tickets \ {t} PROVE u \in FilledAtOnce' <=> u \in FilledAtOnce
    <3>1. \A d \in Checks : <<d, u>> \in filledBy' <=> <<d, u>> \in filledBy
      BY <1>2
    <3> QED BY <1>4, <3>1 DEF FilledAtOnce
  <2> QED BY <1>5, <2>1, <2>2 DEF FilledAtOnce
<1>7. IsFiniteSet(FilledAtOnce) /\ IsFiniteSet(filledBy)
  BY DEF LotsInv, Counted
<1>8. IsFiniteSet(filledBy')
  BY <1>2, <1>7, FS_AddElement
<1>9. Counted'
  <2>1. ASSUME NEW x \in filledBy' PROVE orders'[x[2]].status = "filled"
    <3>1. CASE x = <<c, t>>
      BY <1>4, <3>1
    <3>2. CASE x \in filledBy
      <4>1. x[2] \in Tickets /\ orders[x[2]].status = "filled"
        BY <1>2, <3>2 DEF LotsInv, Counted
      <4> QED BY <1>4, <4>1
    <3> QED BY <1>2, <3>1, <3>2
  <2>2. \A u \in Tickets : u \in Resting' \/ (\E d \in Checks : <<d, u>> \in Claims')
                               => u \notin FilledAtOnce'
    BY <1>1, <1>3, <1>6 DEF LotsInv, Counted
  <2> QED BY <1>6, <1>7, <1>8, <2>1, <2>2 DEF Counted
<1>10. Extra' = Extra + Lots(orders[t].buy)
  <2> DEFINE f == [u \in Tickets |-> orders[u].buy]
             g == [x \in Checks \X Tickets |-> orders[x[2]].buy]
             pair == <<c, t>>
  <2>1. \A u \in FilledAtOnce : f'[u] = f[u]
    BY <1>4 DEF FilledAtOnce
  <2>2. \A x \in filledBy : g'[x] = g[x]
    BY <1>2, <1>4
  <2>3. pair \in Checks \X Tickets /\ pair[2] = t
    BY <1>1
  <2>4. g'[pair] = orders[t].buy /\ orders[t].buy \in BOOLEAN
    BY <1>1, <1>2, <1>4, <2>3 DEF OrderState
  <2>5. pair \notin filledBy /\ filledBy' = filledBy \cup {pair}
    BY <1>2, <1>3
  <2> HIDE DEF f, g, pair
  <2>6. Balance(FilledAtOnce, f') = Balance(FilledAtOnce, f)
    BY <2>1, BalanceSame
  <2>7. Balance(filledBy \cup {pair}, g') = Balance(filledBy, g) + Lots(orders[t].buy)
    BY <1>7, <2>2, <2>4, <2>5, BalanceAdds
  <2>8. /\ Balance(FilledAtOnce, f) \in Int /\ Balance(filledBy, g) \in Int
        /\ Lots(orders[t].buy) \in Int
    BY <1>7, BalanceType DEF Lots
  <2>9. /\ Extra = Balance(FilledAtOnce, f) + Balance(filledBy, g)
        /\ Extra' = Balance(FilledAtOnce, f') + Balance(filledBy \cup {pair}, g')
    BY <1>6, <2>5 DEF Extra, f, g
  <2> QED BY <2>6, <2>7, <2>8, <2>9
<1> QED BY <1>1, <1>9, <1>10 DEF t

LEMMA LotsTypes ==
    ASSUME AccountTypes, Counted
    PROVE  /\ ledger \in Int /\ Extra \in Int /\ Shown \in Int /\ InHand \in Int
           /\ row \in RowState /\ tool \in ToolState /\ tool.row \in RowState
           /\ tool.buy \in BOOLEAN
           /\ \A e \in Exits : Sold(e) \in Int
<1>1. /\ ledger \in Int /\ row \in RowState /\ tool \in ToolState /\ tool.row \in RowState
      /\ tool.buy \in BOOLEAN
  BY DEF AccountTypes, ToolState
<1>2. Shown \in Int
  BY <1>1 DEF Shown, Lots, RowState
<1>3. Extra \in Int
  BY BalanceType DEF Counted, Extra
<1>4. InHand \in Int
  BY <1>1 DEF InHand, Lots
<1>5. ASSUME NEW e \in Exits PROVE Sold(e) \in Int
  <2>1. closes[e].row.qty \in Nat /\ closes[e].row.long \in BOOLEAN
    BY DEF AccountTypes, CloseState, RowState
  <2> QED BY <2>1 DEF Sold, Lots
<1> QED BY <1>1, <1>2, <1>3, <1>4, <1>5

(* A step of the tool or of the book: the trades, what the row shows, what  *)
(* is counted and what is on its way move together.                         *)
LEMMA AccountedStep ==
    ASSUME LotsInv, AccountTypes', Counted', closes' = closes, NEW d \in Int,
           ~apart' => /\ ~apart
                      /\ Selling = {} \/ (row'.long = row.long /\ row'.id = row.id)
                      /\ Shown' + Extra' + InHand' = Shown + Extra + InHand + d,
           ledger' = ledger + d
    PROVE  Accounted'
<1>1. Selling' = Selling /\ \A e \in Exits : Sold(e)' = Sold(e)
  BY DEF Selling, Sold
<1>2. /\ ledger \in Int /\ Extra \in Int /\ Shown \in Int /\ InHand \in Int
      /\ \A e \in Exits : Sold(e) \in Int
  BY LotsTypes DEF LotsInv, ToolInv
<1>3. /\ Extra' \in Int /\ Shown' \in Int /\ InHand' \in Int
  <2>1. row' \in RowState /\ tool'.buy \in BOOLEAN
    BY DEF AccountTypes, ToolState
  <2>2. Shown' \in Int /\ InHand' \in Int
    BY <2>1 DEF Shown, InHand, Lots, RowState
  <2>3. Extra' \in Int
    BY BalanceType DEF Counted, Extra
  <2> QED BY <2>2, <2>3
<1> SUFFICES ASSUME ~apart'
             PROVE  /\ \A e, f \in Selling : e = f
                    /\ \A e \in Selling : /\ row'.id = closes[e].row.id
                                          /\ row'.long = closes[e].row.long
                                          /\ ledger' = Shown' + Extra' + InHand' - Sold(e)
                    /\ Selling = {} => ledger' = Shown' + Extra' + InHand'
  <2> DEFINE G == /\ \A e, f \in Selling : e = f
                  /\ \A e \in Selling : /\ row'.id = closes[e].row.id
                                        /\ row'.long = closes[e].row.long
                                        /\ ledger' = Shown' + Extra' + InHand' - Sold(e)
                  /\ Selling = {} => ledger' = Shown' + Extra' + InHand'
  <2>1. (~apart' => G) => Accounted'
    <3>1. Selling \subseteq Exits
      BY DEF Selling
    <3> QED BY <1>1, <3>1 DEF Accounted
  <2> QED BY <2>1
<1>4. /\ ~apart
      /\ \A e, f \in Selling : e = f
      /\ \A e \in Selling : /\ row.id = closes[e].row.id /\ row.long = closes[e].row.long
                            /\ ledger = Shown + Extra + InHand - Sold(e)
      /\ Selling = {} => ledger = Shown + Extra + InHand
  BY DEF LotsInv, Accounted
<1>5. ASSUME NEW e \in Selling
      PROVE  /\ row'.id = closes[e].row.id /\ row'.long = closes[e].row.long
             /\ ledger' = Shown' + Extra' + InHand' - Sold(e)
  <2>1. row'.id = row.id /\ row'.long = row.long
    OBVIOUS
  <2>2. Sold(e) \in Int
    BY <1>2 DEF Selling
  <2>3. /\ row.id = closes[e].row.id /\ row.long = closes[e].row.long
        /\ ledger = Shown + Extra + InHand - Sold(e)
    BY <1>4
  <2>4. Shown' + Extra' + InHand' = Shown + Extra + InHand + d /\ ledger' = ledger + d
    OBVIOUS
  <2> DEFINE now == Shown + Extra + InHand
             next == Shown' + Extra' + InHand'
             sold == Sold(e)
  <2>5. now \in Int /\ next \in Int /\ sold \in Int
    BY <1>2, <1>3, <2>2
  <2>6. next = now + d
    BY <2>4
  <2>7. ledger = now - sold
    BY <1>2, <2>2, <2>3
  <2> HIDE DEF now, next, sold
  <2>8. ledger' = next - sold
    BY <2>4, <2>5, <2>6, <2>7
  <2>9. ledger' = Shown' + Extra' + InHand' - Sold(e)
    BY <1>3, <2>2, <2>8 DEF next, sold
  <2> QED BY <2>1, <2>3, <2>9
<1>6. Selling = {} => ledger' = Shown' + Extra' + InHand'
  BY <1>2, <1>3, <1>4
<1> QED BY <1>4, <1>5, <1>6

(* Executions of one lot.                                                   *)
LEMMA OneLot ==
    ASSUME ledger \in Int, NEW buy \in BOOLEAN, NEW n, Executes(buy, 1, n)
    PROVE  Lots(buy) \in Int /\ ledger' = ledger + Lots(buy)
BY DEF Executes, Lots

(* The tool.                                                                *)
LEMMA ToolLots ==
    ASSUME LotsInv, TradeSteps, AccountTypes'
    PROVE  Counted' /\ CopiesOK' /\ Accounted'
<1>1. UNCHANGED <<book, orders, walks, saw, closes, filledBy>>
  BY QuietSteps
<1>2. Counted' /\ Extra' = Extra
  <2>1. Resting' = Resting /\ Claims' = Claims
    BY <1>1 DEF Resting, Claims, Claimed
  <2> QED BY <1>1, <2>1, ExtraStays DEF LotsInv
<1>3. /\ ledger \in Int /\ Extra \in Int /\ Shown \in Int /\ InHand \in Int
      /\ row \in RowState /\ tool \in ToolState /\ tool.row \in RowState /\ tool.buy \in BOOLEAN
  BY LotsTypes DEF LotsInv, ToolInv
<1>4. /\ tool.stage = "write" /\ row.id = tool.row.id => SameLots(row, tool.row)
      /\ tool.stage = "write" /\ tool.row = NoRow => row = NoRow
      /\ row.id = 0 => row = NoRow
      /\ tool.row.id = 0 => tool.row = NoRow
  BY DEF LotsInv, CopiesOK
<1>5. ASSUME /\ tool'.stage = "write" /\ row'.id = tool'.row.id => SameLots(row', tool'.row)
             /\ tool'.stage = "write" /\ tool'.row = NoRow => row' = NoRow
             /\ row'.id = 0 => row' = NoRow
             /\ tool'.row.id = 0 => tool'.row = NoRow
      PROVE  CopiesOK'
  BY <1>1, <1>5 DEF LotsInv, CopiesOK, SameLots
<1>6. ASSUME UNCHANGED <<row, ledger, apart>>, InHand' = InHand PROVE Accounted'
  <2>1. Shown' = Shown /\ ledger' = ledger + 0
    BY <1>3, <1>6 DEF Shown
  <2> QED BY <1>1, <1>2, <1>3, <1>6, <2>1, AccountedStep
<1>7. CASE ReadsBalance
  <2>1. /\ tool'.stage \in {"placeFill", "openFill"} /\ tool'.row = tool.row /\ row' = row
        /\ tool.stage \in {"place", "open"}
    BY <1>3, <1>7 DEF ReadsBalance, ToolState
  <2>2. InHand' = 0 /\ InHand = 0
    BY <2>1 DEF InHand
  <2> QED BY <1>2, <1>4, <1>5, <1>6, <1>7, <2>1, <2>2 DEF ReadsBalance, account
<1>8. CASE OpenFilled
  <2>1. /\ tool'.stage = "filled" /\ tool'.row = tool.row /\ tool'.buy = tool.buy
        /\ tool.stage = "openFill" /\ row' = row /\ apart' = apart
        /\ Executes(tool.buy, 1, tool.seen)
    BY <1>3, <1>8 DEF OpenFilled, ToolState
  <2>2. InHand = 0 /\ InHand' = Lots(tool.buy) /\ Shown' = Shown
    BY <2>1 DEF InHand, Shown
  <2>3. ledger' = ledger + Lots(tool.buy) /\ Lots(tool.buy) \in Int
    BY <1>3, <2>1, OneLot
  <2>4. Accounted'
    BY <1>1, <1>2, <1>3, <2>1, <2>2, <2>3, AccountedStep
  <2> QED BY <1>2, <1>4, <1>5, <2>1, <2>4
<1>9. CASE OpenReadsRow
  <2>1. /\ tool'.stage = "write" /\ tool'.row = row /\ tool'.buy = tool.buy
        /\ tool.stage = "filled" /\ row' = row
    BY <1>3, <1>9 DEF OpenReadsRow, ToolState
  <2>2. InHand' = InHand
    BY <2>1 DEF InHand
  <2> QED BY <1>2, <1>4, <1>5, <1>6, <1>9, <2>1, <2>2 DEF OpenReadsRow, account, SameLots
<1>10. ASSUME tool' = NoTool, row'.id = 0 => row' = NoRow
       PROVE  CopiesOK' /\ InHand' = 0
  <2>1. NoTool.row = NoRow /\ NoTool.stage = "idle"
    BY DEF NoTool
  <2> QED BY <1>5, <1>10, <2>1 DEF InHand
<1>11. CASE ToolFails
  <2>1. /\ tool' = NoTool /\ UNCHANGED <<row, ledger>>
        /\ ~apart' => ~apart /\ tool.stage \notin {"filled", "write"}
    BY <1>11, Zenon DEF ToolFails, account
  <2>2. CopiesOK' /\ InHand' = 0 /\ Shown' = Shown
    BY <1>4, <1>10, <2>1 DEF Shown
  <2>3. ~apart' => InHand = 0
    BY <2>1 DEF InHand
  <2>4. Accounted'
    <3>1. ledger' = ledger + 0
      BY <1>3, <2>1
    <3> QED BY <1>1, <1>2, <1>3, <2>1, <2>2, <2>3, <3>1, AccountedStep
  <2> QED BY <1>2, <2>2, <2>4
<1>12. CASE SetLevelWrites
  <2>1. /\ tool' = NoTool /\ UNCHANGED <<ledger, apart>> /\ tool.stage \in {"stop", "take"}
    BY <1>12 DEF SetLevelWrites, account
  <2>2. row'.qty = row.qty /\ row'.long = row.long /\ row'.id = row.id
        /\ (row = NoRow => row' = NoRow)
    BY <1>3, <1>12 DEF SetLevelWrites, RowState
  <2>3. CopiesOK' /\ InHand' = 0 /\ Shown' = Shown /\ InHand = 0
    BY <1>4, <1>10, <2>1, <2>2 DEF Shown, InHand
  <2>4. Accounted'
    <3>1. ledger' = ledger + 0
      BY <1>3, <2>1
    <3> QED BY <1>1, <1>2, <1>3, <2>1, <2>2, <2>3, <3>1, AccountedStep
  <2> QED BY <1>2, <2>3, <2>4
<1>13. ASSUME NEW s \in Quotes \cup {0}, OpenInserts(s)
       PROVE  Counted' /\ CopiesOK' /\ Accounted'
  <2>1. /\ tool' = NoTool /\ row = NoRow /\ UNCHANGED <<ledger, apart>> /\ tool.stage = "write"
    BY <1>4, <1>13 DEF OpenInserts, account
  <2>2. row'.qty = 1 /\ row'.long = tool.buy /\ row'.id # 0
    BY <1>13 DEF OpenInserts
  <2>3. CopiesOK' /\ InHand' = 0
    BY <1>10, <2>1, <2>2
  <2>4. Shown = 0 /\ Shown' = Lots(tool.buy) /\ InHand = Lots(tool.buy) /\ Lots(tool.buy) \in Int
    BY <1>3, <2>1, <2>2, NothingTyped DEF Shown, InHand, Lots
  <2>5. ~apart => Selling = {}
    <3> SUFFICES ASSUME ~apart, NEW e \in Selling PROVE FALSE
      OBVIOUS
    <3>1. e \in Exits /\ closes[e].stage = "removal" /\ row.id = closes[e].row.id
      BY DEF LotsInv, Accounted, Selling
    <3> QED BY <2>1, <3>1, NothingTyped DEF LotsInv, CopiesOK
  <2>6. Accounted'
    <3>1. ledger' = ledger + 0
      BY <1>3, <2>1
    <3> QED BY <1>1, <1>2, <1>3, <2>1, <2>3, <2>4, <2>5, <3>1, AccountedStep
  <2> QED BY <1>2, <2>3, <2>6
<1>14. ASSUME NEW s \in Quotes \cup {0}, OpenAverages(s)
       PROVE  Counted' /\ CopiesOK' /\ Accounted'
  <2>1. /\ tool' = NoTool /\ ledger' = ledger /\ tool.stage = "write"
        /\ ~apart' => ~apart /\ row.id = tool.row.id /\ tool.buy = tool.row.long
    BY <1>14, Zenon DEF OpenAverages, account
  <2>2. /\ row.id = tool.row.id => row'.id = row.id /\ row'.long = row.long
                                   /\ row'.qty = tool.row.qty + 1
        /\ row.id # tool.row.id => row' = row
    BY <1>14, AveragedRow DEF LotsInv, ToolInv
  <2>3. row.id = tool.row.id => row.id # 0
    BY <1>4, <1>14 DEF OpenAverages
  <2>4. CopiesOK' /\ InHand' = 0
    BY <1>4, <1>10, <2>1, <2>2, <2>3
  <2>5. ~apart' => Shown' = Shown + InHand
    <3> SUFFICES ASSUME ~apart' PROVE Shown' = Shown + InHand
      OBVIOUS
    <3>1. row.qty = tool.row.qty /\ row.long = tool.row.long /\ row.qty \in Nat
      BY <1>3, <1>4, <2>1 DEF SameLots, RowState
    <3>2. InHand = Lots(row.long) /\ row.long \in BOOLEAN
      BY <1>3, <2>1, <3>1 DEF InHand
    <3>3. row'.qty = row.qty + 1 /\ row'.long = row.long
      BY <2>1, <2>2, <3>1
    <3> QED BY <3>1, <3>2, <3>3 DEF Shown, Lots
  <2>6. Accounted'
    <3>1. ledger' = ledger + 0
      BY <1>3, <2>1
    <3> QED BY <1>1, <1>2, <1>3, <2>1, <2>2, <2>4, <2>5, <3>1, AccountedStep
  <2> QED BY <1>2, <2>4, <2>6
<1>15. ASSUME NEW p \in Quotes, SetStopChecks(p) \/ SetTakeChecks(p)
       PROVE  Counted' /\ CopiesOK' /\ Accounted'
  <2>1. /\ tool.stage = "idle" /\ tool'.stage \in {"stop", "take"} /\ tool'.row = NoRow
        /\ UNCHANGED <<row, ledger, apart>>
    BY <1>15, NothingTyped DEF SetStopChecks, SetTakeChecks, NoTool, account
  <2>2. InHand' = InHand
    BY <2>1 DEF InHand
  <2> QED BY <1>2, <1>4, <1>5, <1>6, <2>1, <2>2
<1>16. ASSUME NEW t \in Tickets, NEW buy \in BOOLEAN, NEW p \in Quotes, PlaceMeets(t, buy, p)
       PROVE  Counted' /\ CopiesOK' /\ Accounted'
  <2>1. /\ tool.stage = "idle" /\ tool'.stage = "place" /\ tool'.row = NoRow
        /\ UNCHANGED <<row, ledger, apart>>
    BY <1>16, NothingTyped DEF PlaceMeets, NoTool, account
  <2>2. InHand' = InHand
    BY <2>1 DEF InHand
  <2> QED BY <1>2, <1>4, <1>5, <1>6, <2>1, <2>2
<1> QED BY <1>7, <1>8, <1>9, <1>11, <1>12, <1>13, <1>14, <1>15, <1>16 DEF TradeSteps

(* A close: it reads, it sells, it deletes.                                 *)
LEMMA ExitLots ==
    ASSUME LotsInv, ExitSteps, AccountTypes'
    PROVE  Counted' /\ CopiesOK' /\ Accounted'
<1>1. UNCHANGED <<book, orders, walks, tool, filledBy>>
  BY QuietSteps
<1>2. Counted' /\ Extra' = Extra /\ InHand' = InHand
  <2>1. Resting' = Resting /\ Claims' = Claims
    BY <1>1 DEF Resting, Claims, Claimed
  <2>2. Counted' /\ Extra' = Extra
    BY <1>1, <2>1, ExtraStays DEF LotsInv
  <2> QED BY <1>1, <2>2 DEF InHand
<1>3. PICK e \in Exits : CloseReadsRow(e) \/ CloseReadsBalance(e) \/ CloseFilled(e) \/ CloseRow(e)
                         \/ CloseRaises(e)
  BY DEF ExitSteps
<1>4. /\ \A f \in Exits \ {e} : closes'[f] = closes[f]
      /\ closes \in [Exits -> CloseState]
      /\ closes[e].row \in RowState /\ closes[e].row.qty \in Nat /\ closes[e].row.long \in BOOLEAN
  BY <1>3, ExitStepsTyped DEF LotsInv, ToolInv, AccountTypes
<1>5. /\ ledger \in Int /\ Extra \in Int /\ Shown \in Int /\ InHand \in Int
      /\ row \in RowState /\ tool.row \in RowState /\ \A f \in Exits : Sold(f) \in Int
  BY LotsTypes DEF LotsInv, ToolInv
<1>6. /\ tool.stage = "write" /\ row.id = tool.row.id => SameLots(row, tool.row)
      /\ tool.stage = "write" /\ tool.row = NoRow => row = NoRow
      /\ row.id = 0 => row = NoRow
      /\ tool.row.id = 0 => tool.row = NoRow
      /\ \A f \in Exits : closes[f].stage \in {"row", "sale", "removal"} => closes[f].row.id # 0
  BY DEF LotsInv, CopiesOK
<1>7. ~apart => /\ \A f, g \in Selling : f = g
                /\ \A f \in Selling : /\ row.id = closes[f].row.id /\ row.long = closes[f].row.long
                                      /\ ledger = Shown + Extra + InHand - Sold(f)
                /\ Selling = {} => ledger = Shown + Extra + InHand
  BY DEF LotsInv, Accounted
<1>8. ASSUME row' \in {row, NoRow}, closes'[e].stage \in {"row", "sale", "removal"} => closes'[e].row.id # 0
      PROVE  CopiesOK'
  <2>1. \A f \in Exits : closes'[f].stage \in {"row", "sale", "removal"} => closes'[f].row.id # 0
    BY <1>4, <1>6, <1>8
  <2>2. tool.stage = "write" /\ row'.id = tool.row.id => SameLots(row', tool.row)
    BY <1>6, <1>8, NothingTyped DEF SameLots
  <2> QED BY <1>1, <1>6, <1>8, <2>1, <2>2, NothingTyped DEF CopiesOK, SameLots
<1>9. ASSUME UNCHANGED <<row, ledger, apart>>, closes[e].stage # "removal",
             closes'[e].stage # "removal"
      PROVE  Accounted'
  <2>1. Selling' = Selling /\ e \notin Selling
    BY <1>4, <1>9 DEF Selling
  <2>2. \A f \in Selling : closes'[f] = closes[f] /\ Sold(f)' = Sold(f)
    BY <1>4, <2>1 DEF Selling, Sold
  <2>3. Shown' = Shown
    BY <1>9 DEF Shown
  <2> QED BY <1>2, <1>7, <1>9, <2>1, <2>2, <2>3 DEF Accounted
<1>10. CASE CloseReadsRow(e)
  <2>1. /\ closes[e].stage = "new" /\ closes'[e].stage = "row" /\ closes'[e].row = row
        /\ row # NoRow /\ UNCHANGED <<row, ledger, apart>>
    BY <1>4, <1>10 DEF CloseReadsRow, account
  <2> QED BY <1>2, <1>6, <1>8, <1>9, <2>1
<1>11. CASE CloseReadsBalance(e)
  <2>1. /\ closes[e].stage = "row" /\ closes'[e].stage = "sale" /\ closes'[e].row = closes[e].row
        /\ UNCHANGED <<row, ledger, apart>>
    BY <1>4, <1>11 DEF CloseReadsBalance, account
  <2> QED BY <1>2, <1>6, <1>8, <1>9, <2>1
<1>12. CASE CloseFilled(e)
  <2>1. /\ closes[e].stage = "sale" /\ closes'[e].stage = "removal"
        /\ closes'[e].row = closes[e].row /\ row' = row
        /\ Executes(~closes[e].row.long, closes[e].row.qty, closes[e].seen)
        /\ ~apart' => ~apart /\ SameLots(row, closes[e].row) /\ Selling = {}
    BY <1>4, <1>12, Zenon DEF CloseFilled
  <2>2. CopiesOK'
    BY <1>6, <1>8, <2>1
  <2>3. Sold(e)' = Sold(e) /\ Shown' = Shown /\ ledger' = ledger - Sold(e)
    BY <1>4, <1>5, <2>1 DEF Sold, Shown, Executes, Lots
  <2>4. ASSUME ~apart' PROVE Selling' = {e} /\ row'.id = closes'[e].row.id
                             /\ row'.long = closes'[e].row.long
                             /\ ledger' = Shown' + Extra' + InHand' - Sold(e)'
    <3>1. Selling' = {e}
      BY <1>4, <2>1, <2>4 DEF Selling
    <3>2. ledger = Shown + Extra + InHand
      BY <1>7, <2>1, <2>4
    <3>3. ledger' = Shown' + Extra' + InHand' - Sold(e)'
      BY <1>2, <1>5, <2>3, <3>2
    <3> QED BY <2>1, <2>4, <3>1, <3>3 DEF SameLots
  <2> QED BY <1>2, <2>2, <2>4 DEF Accounted
<1>13. CASE CloseRow(e)
  <2>1. /\ closes[e].stage = "removal" /\ closes'[e] = EndedClose /\ ledger' = ledger
        /\ row' = IF row.id = closes[e].row.id THEN NoRow ELSE row
        /\ ~apart' => ~apart /\ SameLots(row, closes[e].row)
    BY <1>4, <1>13, Zenon DEF CloseRow, account
  <2>2. CopiesOK'
    BY <1>8, <2>1, NothingTyped
  <2>3. ASSUME ~apart' PROVE Selling' = {} /\ ledger' = Shown' + Extra' + InHand'
    <3>1. e \in Selling
      BY <2>1 DEF Selling
    <3>2. Selling' = {}
      BY <1>4, <1>7, <2>1, <2>3, <3>1, NothingTyped DEF Selling
    <3>3. ledger = Shown + Extra + InHand - Sold(e) /\ Sold(e) = Shown
      BY <1>7, <2>1, <2>3, <3>1 DEF SameLots, Sold, Shown
    <3>4. Shown' = 0
      BY <2>1, <2>3, NothingTyped DEF SameLots, Shown, Lots, NoRow
    <3> QED BY <1>2, <1>5, <2>1, <3>2, <3>3, <3>4
  <2> QED BY <1>2, <2>2, <2>3 DEF Accounted
<1>14. CASE CloseRaises(e)
  <2>1. /\ closes'[e] = EndedClose /\ UNCHANGED <<row, ledger>>
        /\ ~apart' => ~apart /\ closes[e].stage # "removal"
    <3>1. apart' = (apart \/ closes[e].stage = "removal")
      BY <1>14 DEF CloseRaises
    <3>2. ~apart' => ~apart /\ closes[e].stage # "removal"
      BY <3>1, Zenon
    <3> QED BY <1>4, <1>14, <3>2 DEF CloseRaises, account
  <2>2. CopiesOK'
    BY <1>8, <2>1, NothingTyped
  <2>3. CASE ~apart'
    <3>1. apart' = apart
      BY <2>1, <2>3 DEF LotsInv, ToolInv, AccountTypes
    <3> QED BY <1>2, <1>9, <2>1, <2>2, <2>3, <3>1, NothingTyped
  <2>4. CASE apart'
    BY <1>2, <2>2, <2>4 DEF Accounted
  <2> QED BY <2>3, <2>4
<1> QED BY <1>3, <1>10, <1>11, <1>12, <1>13, <1>14

(* The book, and the fill of an order that the price met.                   *)
LEMMA BookLots ==
    ASSUME LotsInv, BookSteps \/ PlaceFilled \/ (\E p \in Quotes : MovePrice(p)) \/ UNCHANGED ordersVars,
           AccountTypes'
    PROVE  Counted' /\ CopiesOK' /\ Accounted'
<1>1. /\ ledger \in Int /\ Extra \in Int /\ Shown \in Int /\ InHand \in Int
      /\ tool \in ToolState /\ tool.buy \in BOOLEAN /\ orders \in [Tickets -> OrderState]
  BY LotsTypes DEF LotsInv, ToolInv, OrdersInv, BookTypes
<1>2. UNCHANGED <<closes, row, apart>>
  BY QuietSteps DEF ordersVars
<1>3. ASSUME UNCHANGED tool PROVE CopiesOK' /\ InHand' = InHand
  BY <1>2, <1>3 DEF LotsInv, CopiesOK, InHand, SameLots
<1>4. Shown' = Shown
  BY <1>2 DEF Shown
<1>5. ASSUME UNCHANGED <<tool, ledger>>, Counted', Extra' = Extra PROVE Accounted'
  <2>1. ledger' = ledger + 0 /\ Shown' + Extra' + InHand' = Shown + Extra + InHand + 0
    BY <1>1, <1>3, <1>4, <1>5
  <2> QED BY <1>2, <1>5, <2>1, AccountedStep
<1>6. CASE PlaceFilled
  <2>1. /\ tool'.stage = "open" /\ tool'.row = tool.row /\ tool.stage = "placeFill"
        /\ Executes(tool.buy, 1, tool.seen)
    BY <1>1, <1>6 DEF PlaceFilled, ToolState
  <2>2. Counted' /\ Extra' = Extra + Lots(tool.buy)
    BY <1>6, FilledCounted
  <2>3. InHand = 0 /\ InHand' = 0
    BY <2>1 DEF InHand
  <2>4. ledger' = ledger + Lots(tool.buy) /\ Lots(tool.buy) \in Int
    BY <1>1, <2>1, OneLot
  <2>5. Accounted'
    BY <1>1, <1>2, <1>4, <2>2, <2>3, <2>4, AccountedStep
  <2>6. CopiesOK'
    BY <1>2, <2>1 DEF LotsInv, CopiesOK
  <2> QED BY <2>2, <2>5, <2>6
<1>7. ASSUME NEW c \in Checks, FillOrder(c)
      PROVE  Counted' /\ CopiesOK' /\ Accounted'
  <2> DEFINE buy == orders[walks[c].now].buy
  <2>1. Counted' /\ Extra' = Extra + Lots(buy) /\ walks[c].now \in Tickets
    BY <1>7, ExecutionCounted
  <2>2. buy \in BOOLEAN
    BY <1>1, <2>1 DEF OrderState
  <2>3. Executes(buy, 1, saw[c]) /\ tool' = tool
    BY <1>7 DEF FillOrder
  <2> HIDE DEF buy
  <2>4. ledger' = ledger + Lots(buy) /\ Lots(buy) \in Int
    BY <1>1, <2>2, <2>3, OneLot
  <2>5. Shown' + Extra' + InHand' = Shown + Extra + InHand + Lots(buy)
    BY <1>1, <1>3, <1>4, <2>1, <2>3, <2>4
  <2>6. Accounted'
    BY <1>2, <2>1, <2>4, <2>5, AccountedStep
  <2> QED BY <1>3, <2>1, <2>3, <2>6
<1>8. ASSUME NEW t \in Tickets, NEW buy \in BOOLEAN, NEW p \in Quotes, PlaceRests(t, buy, p)
      PROVE  Counted' /\ CopiesOK' /\ Accounted'
  <2>1. Counted' /\ Extra' = Extra
    BY <1>8, RestsCounted
  <2>2. UNCHANGED <<tool, ledger>>
    BY <1>8 DEF PlaceRests, account
  <2> QED BY <1>3, <1>5, <2>1, <2>2
<1>9. ASSUME UNCHANGED <<orders, filledBy, tool, ledger>>, Resting' \subseteq Resting,
             \A c \in Checks, t \in Tickets : <<c, t>> \in Claims' =>
                 <<c, t>> \in Claims \/ t \in Resting
      PROVE  Counted' /\ CopiesOK' /\ Accounted'
  <2>1. Counted' /\ Extra' = Extra
    BY <1>9, ExtraStays DEF LotsInv
  <2> QED BY <1>3, <1>5, <1>9, <2>1
<1>10. ASSUME NEW t \in Tickets, Cancel(t)
       PROVE  Counted' /\ CopiesOK' /\ Accounted'
  <2>1. UNCHANGED <<orders, filledBy, tool, ledger>>
    BY <1>10 DEF Cancel, account
  <2>2. Resting' = Resting \ {t} /\ Claims' = Claims
    BY <1>10, CancelStep DEF Promise!Withdraw, LotsInv
  <2> QED BY <1>9, <2>1, <2>2
<1>11. ASSUME NEW c \in Checks, BeginCheck(c)
       PROVE  Counted' /\ CopiesOK' /\ Accounted'
  <2>1. UNCHANGED <<orders, filledBy, tool, ledger>>
    BY <1>11 DEF BeginCheck, account
  <2>2. Resting' = Resting /\ Claims' = Claims \cup ({c} \X Resting)
    BY <1>11, BeginCheckStep DEF Promise!Walk, LotsInv
  <2> QED BY <1>9, <2>1, <2>2
<1>12. ASSUME NEW c \in Checks, SkipOrder(c) \/ TakeOrder(c) \/ FillFails(c)
       PROVE  Counted' /\ CopiesOK' /\ Accounted'
  <2>1. UNCHANGED <<book, orders, filledBy, tool, ledger>>
    BY <1>12 DEF SkipOrder, TakeOrder, FillFails, account
  <2>2. Resting' = Resting
    BY <2>1 DEF Resting
  <2>3. Claims' \subseteq Claims
    BY <1>12, SkipStep, TakeStep, FillFailsStep DEF Promise!PassOver, Promise!restingVars, LotsInv
  <2> QED BY <1>9, <2>1, <2>2, <2>3
<1>13. CASE (\E p \in Quotes : MovePrice(p)) \/ UNCHANGED ordersVars
  <2>1. UNCHANGED <<book, orders, walks, filledBy, tool, ledger>>
    BY <1>13, QuietSteps DEF ordersVars
  <2>2. Resting' = Resting /\ Claims' = Claims
    BY <2>1 DEF Resting, Claims, Claimed
  <2> QED BY <1>9, <2>1, <2>2
<1> QED BY <1>6, <1>7, <1>8, <1>10, <1>11, <1>12, <1>13 DEF BookSteps

LEMMA LotsNext == LotsInv /\ [OrdersNext]_ordersVars => LotsInv'
<1> SUFFICES ASSUME LotsInv, [OrdersNext]_ordersVars PROVE LotsInv'
  OBVIOUS
<1>1. OrdersInv' /\ AccountTypes' /\ TicketIsNew'
  BY OrdersStepKeeps, OrdersAccountTyped, TicketStaysNew DEF LotsInv, ToolInv
<1>2. Counted' /\ CopiesOK' /\ Accounted'
  BY <1>1, OrdersSteps, ToolLots, ExitLots, BookLots
<1> QED BY <1>1, <1>2 DEF LotsInv, ToolInv

LEMMA LotsStart == OrdersInit => LotsInv
<1> SUFFICES ASSUME OrdersInit PROVE LotsInv
  OBVIOUS
<1>1. OrdersInv /\ ToolInv /\ Resting = {} /\ Claims = {}
  BY OrdersStart, ToolStart DEF Promise!Init
<1>2. /\ ledger = 0 /\ apart = FALSE /\ tool = NoTool /\ row = NoRow /\ filledBy = {}
      /\ orders = [t \in Tickets |-> NewTicket] /\ closes = [e \in Exits |-> NewClose]
  BY DEF OrdersInit
<1>3. FilledAtOnce = {}
  BY <1>2 DEF FilledAtOnce, NewTicket
<1>4. Counted
  BY <1>1, <1>2, <1>3, FS_EmptySet DEF Counted
<1>5. \A f : Balance({}, f) = 0
  <2>1. \A f : {x \in {} : f[x]} = {} /\ {x \in {} : ~f[x]} = {}
    OBVIOUS
  <2> QED BY <2>1, FS_EmptySet DEF Balance
<1>6. Extra = 0
  BY <1>2, <1>3, <1>5 DEF Extra
<1>7. Shown = 0 /\ InHand = 0 /\ Selling = {}
  BY <1>2, NothingTyped DEF Shown, Lots, NoRow, InHand, Selling
<1>8. CopiesOK
  <2>1. NoTool.row = NoRow
    BY DEF NoTool
  <2> QED BY <1>2, <2>1, NothingTyped DEF CopiesOK
<1>9. Accounted
  BY <1>2, <1>6, <1>7 DEF Accounted
<1> QED BY <1>1, <1>4, <1>8, <1>9 DEF LotsInv

(* However the transactions of the tools, the checks and the closes fall:   *)
(* unless one was torn, raced or averaged the two sides, the trades are the *)
(* lots of the row and, besides, one for every order filled at once and one *)
(* for every execution by a check (execution_tools.py:215, 233).            *)
THEOREM LotsAddUp == OrdersSpec => []LotsOutsideRow
<1>1. LotsInv => LotsOutsideRow
  <2> SUFFICES ASSUME LotsInv, ~apart, ~BetweenWrites
               PROVE  ledger = Shown + Extra
    BY Zenon DEF LotsOutsideRow, Shown, Extra
  <2>1. Selling = {} /\ InHand = 0
    BY DEF BetweenWrites, InHand
  <2>2. Shown \in Int /\ Extra \in Int
    BY LotsTypes DEF LotsInv, ToolInv
  <2>3. ledger = Shown + Extra + InHand
    BY <2>1 DEF LotsInv, Accounted
  <2> QED BY <2>1, <2>2, <2>3
<1> QED BY <1>1, LotsStart, LotsNext, PTL DEF OrdersSpec

(* The variables of the orders keep their types.                            *)
THEOREM OrdersTypes == OrdersSpec => []OrdersTypeOK
<1>1. LotsInv => OrdersTypeOK
  BY DEF LotsInv, OrdersInv, BookTypes, WalkState, ToolInv, AccountTypes, CloseState, OrdersTypeOK
<1> QED BY <1>1, LotsStart, LotsNext, PTL DEF OrdersSpec

-----------------------------------------------------------------------------

Event == [kind : {"opened", "closed", "price", "panic", "resume"},
          sym : Markets \cup {"none"}, price : Nat, of : PositionState]

StopOK(k, n) ==
    /\ k.id <= n
    /\ k.id = 0 => k = NoStop
    /\ ~k.active => k.peak = k.entry

(* A report that a position was closed is older than the position that is   *)
(* open now; the report that one was opened is newer than every stop.       *)
Older(id, pos) == pos.id = 0 \/ id < pos.id

EventOK(e, n, st, pos) ==
    /\ e.kind \in {"opened", "closed", "price"} => e.sym \in Markets
    /\ e.kind = "price" => e.price > 0
    /\ e.kind = "opened" =>
           e.of.id >= 1 /\ e.of.id <= n /\ \A s \in Markets : st[s].id < e.of.id
    /\ e.kind = "closed" => e.of.id <= n /\ Older(e.of.id, pos[e.sym])

ClosingOK(c, n, pos) ==
    /\ c.stage \in {"close", "report"} => c.sym \in Markets /\ c.id <= n
    /\ c.stage = "report" => Older(c.id, pos[c.sym])

OpenedInOrder(q) ==
    \A i, j \in DOMAIN q :
        i < j /\ q[i].kind = "opened" /\ q[j].kind = "opened" => q[i].of.id < q[j].of.id

TrailingInv ==
    /\ TrailingTypeOK
    /\ \A s \in Markets : StopOK(stops[s], opens)
    /\ \A i \in DOMAIN inbox : EventOK(inbox[i], opens, stops, position)
    /\ OpenedInOrder(inbox) /\ ClosingOK(closing, opens, position)

LEMMA TrailingBounds ==
    /\ \A p \in StopPrices : p \in Nat /\ p > 0
    /\ TrailPct \in Nat /\ TrailPct >= 1 /\ TrailPct <= 100 /\ ActivationPct \in Nat
    /\ MaxOpens \in Nat /\ MaxTicks \in Nat
BY TrailingAssumption

-----------------------------------------------------------------------------
(* What a price does to a stop.                                             *)
LEMMA MovedIs ==
    ASSUME NEW k \in StopState, NEW p \in Nat
    PROVE  /\ Moved(k, p) \in StopState
           /\ Moved(k, p).id = k.id /\ Moved(k, p).long = k.long
           /\ Moved(k, p).entry = k.entry
           /\ k.active => Moved(k, p).active
           /\ Moved(k, p).active /\ ~k.active => 100 * Gain(k, p) >= ActivationPct * k.entry
           /\ Moved(k, p).peak =
                IF Moved(k, p).active /\ Better(k, p) THEN p ELSE k.peak
<1> DEFINE now == k.active \/ 100 * Gain(k, p) >= ActivationPct * k.entry
           m == [k EXCEPT !.active = now, !.peak = IF now /\ Better(k, p) THEN p ELSE @]
<1>1. Moved(k, p) = m
  BY DEF Moved
<1>2. now \in BOOLEAN
  OBVIOUS
<1> HIDE DEF now
<1>3. m \in StopState
  BY <1>2 DEF StopState
<1>4. m.id = k.id /\ m.long = k.long /\ m.entry = k.entry
  BY DEF StopState
<1>5. m.active = now
  BY DEF StopState
<1>6. m.peak = IF now /\ Better(k, p) THEN p ELSE k.peak
  BY DEF StopState
<1> QED BY <1>1, <1>3, <1>4, <1>5, <1>6 DEF now

LEMMA Products ==
    ASSUME NEW a \in Nat, NEW b \in Nat, NEW c \in Nat, a >= b
    PROVE  a * c >= b * c /\ a * c \in Nat /\ b * c \in Nat
BY SMT

LEMMA BelowItself ==
    ASSUME NEW p \in Nat, p > 0
    PROVE  p * (100 - TrailPct) < 100 * p /\ p * (100 + TrailPct) > 100 * p
<1>1. TrailPct \in Nat /\ TrailPct >= 1
  BY TrailingBounds
<1>2. p * TrailPct \in Nat /\ p * TrailPct > 0
  BY <1>1, SMT
<1>3. p * (100 - TrailPct) = 100 * p - p * TrailPct
  BY <1>1, SMT
<1>4. p * (100 + TrailPct) = 100 * p + p * TrailPct
  BY <1>1, SMT
<1> QED BY <1>2, <1>3, <1>4, SMT

LEMMA MovedNoRetreat ==
    ASSUME NEW k \in StopState, NEW p \in Nat
    PROVE  NoRetreat(k, Moved(k, p))
<1> DEFINE m == Moved(k, p)
<1>1. /\ m \in StopState /\ m.long = k.long
      /\ k.active => m.active
      /\ m.peak = IF m.active /\ Better(k, p) THEN p ELSE k.peak
  BY MovedIs
<1>2. TrailPct \in Nat /\ 100 - TrailPct \in Nat /\ 100 + TrailPct \in Nat
  BY TrailingBounds
<1>3. k.peak \in Nat /\ m.peak \in Nat
  BY <1>1, MovedIs DEF StopState
<1>4. CASE k.long
  <2>1. m.peak >= k.peak
    BY <1>1, <1>3, <1>4, MovedIs DEF Better
  <2>2. StopLevel(m) >= StopLevel(k)
    BY <1>2, <1>3, <1>4, <2>1, MovedIs, Products DEF StopLevel
  <2> QED BY <1>4, <2>2, MovedIs DEF NoRetreat
<1>5. CASE ~k.long
  <2>1. k.peak >= m.peak
    BY <1>1, <1>3, <1>5, MovedIs DEF Better
  <2>2. k.peak * (100 + TrailPct) >= m.peak * (100 + TrailPct)
    BY <1>2, <1>3, <2>1, Products
  <2>3. StopLevel(m) <= StopLevel(k)
    BY <1>1, <1>2, <1>3, <1>5, <2>2 DEF StopLevel
  <2> QED BY <1>1, <1>5, <2>3 DEF NoRetreat
<1> QED BY <1>4, <1>5

(* A stop that a price triggers was active before, and the price is beyond  *)
(* its level: a price that moves the peak, or makes the stop active, is on  *)
(* the profitable side of it.                                               *)
LEMMA TriggerCause ==
    ASSUME NEW k \in StopState, NEW p \in Nat, p > 0, NEW n, StopOK(k, n),
           Triggers(Moved(k, p), p)
    PROVE  PastStop(k, p)
<1> DEFINE m == Moved(k, p)
<1>1. /\ m \in StopState /\ m.long = k.long /\ m.active
      /\ ~k.active => 100 * Gain(k, p) >= ActivationPct * k.entry
      /\ m.peak = IF Better(k, p) THEN p ELSE k.peak
      /\ IF k.long THEN 100 * p <= StopLevel(m) ELSE 100 * p >= StopLevel(m)
  BY MovedIs DEF Triggers
<1>2. k.peak \in Nat /\ k.entry \in Nat /\ m.peak \in Nat
  BY <1>1 DEF StopState
<1>3. m.peak # p
  <2> SUFFICES ASSUME m.peak = p PROVE FALSE
    OBVIOUS
  <2>1. p * (100 - TrailPct) < 100 * p /\ p * (100 + TrailPct) > 100 * p
    BY BelowItself
  <2>2. p * (100 - TrailPct) \in Int /\ p * (100 + TrailPct) \in Int
    BY TrailingBounds, SMT
  <2>3. StopLevel(m) = IF k.long THEN p * (100 - TrailPct) ELSE p * (100 + TrailPct)
    BY <1>1 DEF StopLevel
  <2>4. CASE k.long
    <3>1. 100 * p <= p * (100 - TrailPct)
      BY <1>1, <2>3, <2>4
    <3> QED BY <2>1, <2>2, <3>1
  <2>5. CASE ~k.long
    <3>1. 100 * p >= p * (100 + TrailPct)
      BY <1>1, <2>3, <2>5
    <3> QED BY <2>1, <2>2, <3>1
  <2> QED BY <2>4, <2>5
<1>4. ~Better(k, p) /\ m.peak = k.peak
  BY <1>1, <1>3
<1>5. k.active
  <2> SUFFICES ASSUME ~k.active PROVE FALSE
    OBVIOUS
  <2>1. k.peak = k.entry
    BY DEF StopOK
  <2>2. ActivationPct * k.entry \in Nat
    BY <1>2, TrailingBounds, SMT
  <2>3. 100 * Gain(k, p) >= 0
    BY <1>1, <1>2, <2>2 DEF Gain
  <2>4. p = k.peak
    BY <1>2, <1>4, <2>1, <2>3 DEF Gain, Better
  <2> QED BY <1>3, <1>4, <2>4
<1> QED BY <1>1, <1>4, <1>5 DEF PastStop, StopLevel

-----------------------------------------------------------------------------
(* The inbox.                                                               *)
LEMMA Inbox ==
    ASSUME TrailingInv
    PROVE  /\ inbox \in Seq(Event) /\ Len(inbox) \in Nat /\ DOMAIN inbox = 1 .. Len(inbox)
           /\ \A i \in DOMAIN inbox : inbox[i] \in Event
<1>1. inbox \in Seq(Event)
  BY DEF TrailingInv, TrailingTypeOK, Event
<1> QED BY <1>1, LenProperties

LEMMA TakesOne ==
    ASSUME TrailingInv, NEW kind, Takes(kind)
    PROVE  /\ closing = NotClosing /\ inbox # <<>>
           /\ Head(inbox) \in Event /\ Head(inbox).kind = kind
           /\ EventOK(Head(inbox), opens, stops, position)
           /\ inbox' \in Seq(Event) /\ OpenedInOrder(inbox')
           /\ \A i \in DOMAIN inbox' :
                /\ inbox'[i] \in Event /\ EventOK(inbox'[i], opens, stops, position)
                /\ kind = "opened" /\ inbox'[i].kind = "opened"
                   => Head(inbox).of.id < inbox'[i].of.id
<1> DEFINE n == Len(inbox)  r == Tail(inbox)
<1>1. /\ closing = NotClosing /\ inbox # <<>> /\ Head(inbox).kind = kind
      /\ inbox \in Seq(Event) /\ inbox' = r
  BY Inbox DEF Takes
<1>2. n \in Nat \ {0} /\ DOMAIN inbox = 1 .. n /\ Head(inbox) = inbox[1]
  BY <1>1, LenProperties, EmptySeq, SMT
<1>3. /\ Head(inbox) \in Event /\ r \in Seq(Event) /\ Len(r) = n - 1
      /\ \A i \in 1 .. n - 1 : r[i] = inbox[i + 1]
  BY <1>1, HeadTailProperties
<1>4. DOMAIN r = 1 .. n - 1
  BY <1>3, LenProperties
<1> HIDE DEF n, r
<1>5. /\ \A i \in 1 .. n : inbox[i] \in Event /\ EventOK(inbox[i], opens, stops, position)
      /\ \A i, j \in 1 .. n : i < j /\ inbox[i].kind = "opened" /\ inbox[j].kind = "opened"
                              => inbox[i].of.id < inbox[j].of.id
  BY <1>2, Inbox DEF TrailingInv, OpenedInOrder
<1>6. \A i \in 1 .. n - 1 : i + 1 \in 1 .. n
  BY <1>2
<1>7. OpenedInOrder(r)
  <2> SUFFICES ASSUME NEW i \in 1 .. n - 1, NEW j \in 1 .. n - 1, i < j,
                      r[i].kind = "opened", r[j].kind = "opened"
               PROVE  r[i].of.id < r[j].of.id
    BY <1>4 DEF OpenedInOrder
  <2>1. i + 1 < j + 1 /\ r[i] = inbox[i + 1] /\ r[j] = inbox[j + 1]
    BY <1>2, <1>3
  <2> QED BY <1>5, <1>6, <2>1
<1>8. ASSUME NEW i \in 1 .. n - 1
      PROVE  /\ r[i] \in Event /\ EventOK(r[i], opens, stops, position)
             /\ Head(inbox).kind = "opened" /\ r[i].kind = "opened"
                => Head(inbox).of.id < r[i].of.id
  <2>1. r[i] = inbox[i + 1] /\ i + 1 \in 1 .. n /\ 1 \in 1 .. n /\ 1 < i + 1
    BY <1>2, <1>3, <1>6
  <2> QED BY <1>2, <1>5, <2>1
<1>9. EventOK(Head(inbox), opens, stops, position)
  <2>1. 1 \in 1 .. n
    BY <1>2
  <2> QED BY <1>2, <1>5, <2>1
<1> QED BY <1>1, <1>3, <1>4, <1>7, <1>8, <1>9

LEMMA PublishesOne ==
    ASSUME TrailingInv, NEW e \in Event, inbox' = Append(inbox, e),
           e.kind = "opened" => \A i \in DOMAIN inbox :
               inbox[i].kind = "opened" => inbox[i].of.id < e.of.id
    PROVE  /\ inbox' \in Seq(Event) /\ OpenedInOrder(inbox')
           /\ \A i \in DOMAIN inbox' : inbox'[i] = e \/
                \E j \in DOMAIN inbox : inbox'[i] = inbox[j]
<1>1. inbox \in Seq(Event) /\ Len(inbox) \in Nat /\ DOMAIN inbox = 1 .. Len(inbox)
  BY Inbox
<1>2. /\ inbox' \in Seq(Event) /\ DOMAIN inbox' = 1 .. Len(inbox) + 1
      /\ \A i \in 1 .. Len(inbox) : inbox'[i] = inbox[i]
      /\ inbox'[Len(inbox) + 1] = e
  BY <1>1, AppendProperties, LenProperties
<1>3. OpenedInOrder(inbox)
  BY DEF TrailingInv
<1>4. OpenedInOrder(inbox')
  BY <1>1, <1>2, <1>3 DEF OpenedInOrder
<1> QED BY <1>1, <1>2, <1>4

(* An event stays what it is when no position becomes newer.                *)
LEMMA EventStays ==
    ASSUME NEW e \in Event, NEW n, NEW st, NEW st2, NEW pos, NEW pos2,
           e.kind = "opened" => \A s \in Markets : st2[s].id < e.of.id,
           \A s \in Markets : pos2[s].id = 0 \/ pos2[s] = pos[s],
           EventOK(e, n, st, pos)
    PROVE  EventOK(e, n, st2, pos2)
BY DEF EventOK, Older

ClosingState == [stage : {"idle", "close", "report", "panic"},
                 sym : Markets \cup {"none"}, id : Nat]

LEMMA ConstantTypes ==
    ASSUME TrailingInv
    PROVE  /\ position \in [Markets -> PositionState] /\ stops \in [Markets -> StopState]
           /\ closing \in ClosingState /\ opens \in Nat /\ ticks \in Nat
           /\ \A s \in Markets : /\ stops[s] \in StopState /\ stops[s].id \in Nat
                                 /\ StopOK(stops[s], opens)
                                 /\ position[s] \in PositionState /\ position[s].id \in Nat
BY DEF TrailingInv, TrailingTypeOK, ClosingState, StopState, PositionState

LEMMA NoneTypes ==
    /\ NoStop \in StopState /\ NoStop.id = 0 /\ NotClosing \in ClosingState
    /\ NoPosition \in PositionState /\ NoPosition.id = 0
    /\ NotClosing.stage = "idle" /\ ~NoStop.active
    /\ \A n \in Nat : StopOK(NoStop, n)
BY DEF NoStop, StopState, NotClosing, ClosingState, NoPosition, PositionState, StopOK

LEMMA InvariantFrom ==
    ASSUME TrailingTypeOK', \A s \in Markets : StopOK(stops'[s], opens'),
           \A i \in DOMAIN inbox' : EventOK(inbox'[i], opens', stops', position'),
           OpenedInOrder(inbox'), ClosingOK(closing', opens', position')
    PROVE  TrailingInv'
BY DEF TrailingInv

(* A handler of the engine, up to what it does to the stops and to its own  *)
(* state.                                                                   *)
LEMMA HandlerStep ==
    ASSUME TrailingInv, NEW kind, Takes(kind), UNCHANGED <<position, opens, ticks>>,
           halted' \in BOOLEAN, stops' \in [Markets -> StopState],
           \A s \in Markets : StopOK(stops'[s], opens),
           \A s \in Markets : \/ stops'[s].id <= stops[s].id
                              \/ kind = "opened" /\ stops'[s].id <= Head(inbox).of.id,
           closing' \in ClosingState, ClosingOK(closing', opens, position)
    PROVE  TrailingInv'
<1>1. /\ Head(inbox) \in Event /\ Head(inbox).kind = kind
      /\ inbox' \in Seq(Event) /\ OpenedInOrder(inbox')
      /\ \A i \in DOMAIN inbox' :
           /\ inbox'[i] \in Event /\ EventOK(inbox'[i], opens, stops, position)
           /\ kind = "opened" /\ inbox'[i].kind = "opened"
              => Head(inbox).of.id < inbox'[i].of.id
  BY TakesOne
<1>2. \A e \in Event : e.of.id \in Nat
  BY DEF Event, PositionState
<1>3. \A s \in Markets : stops'[s].id \in Nat /\ stops[s].id \in Nat
  BY ConstantTypes DEF StopState
<1>4. TrailingTypeOK'
  BY <1>1 DEF TrailingInv, TrailingTypeOK, Event, ClosingState
<1>5. ASSUME NEW i \in DOMAIN inbox'
      PROVE  EventOK(inbox'[i], opens', stops', position')
  <2> DEFINE e == inbox'[i]
  <2>1. e \in Event /\ EventOK(e, opens, stops, position)
    BY <1>1, <1>5
  <2>2. ASSUME e.kind = "opened", NEW s \in Markets PROVE stops'[s].id < e.of.id
    <3>1. stops[s].id < e.of.id
      BY <2>1, <2>2 DEF EventOK
    <3>2. CASE stops'[s].id <= stops[s].id
      BY <1>2, <1>3, <2>1, <3>1, <3>2
    <3>3. CASE kind = "opened" /\ stops'[s].id <= Head(inbox).of.id
      <4>1. Head(inbox).of.id < e.of.id
        BY <1>1, <1>5, <2>2, <3>3
      <4> QED BY <1>1, <1>2, <1>3, <2>1, <3>3, <4>1
    <3> QED BY <3>2, <3>3
  <2> HIDE DEF e
  <2>3. EventOK(e, opens, stops', position)
    BY <2>1, <2>2 DEF EventOK
  <2> QED BY <2>3 DEF e
<1>6. OpenedInOrder(inbox') /\ ClosingOK(closing', opens', position')
      /\ \A s \in Markets : StopOK(stops'[s], opens')
  BY <1>1
<1> QED BY <1>4, <1>5, <1>6, InvariantFrom

LEMMA OpenedStep ==
    ASSUME TrailingInv, TakeOpened
    PROVE  TrailingInv'
<1> DEFINE s == Head(inbox).sym  k == StartTracking(Head(inbox).of)
<1>1. /\ Takes("opened") /\ stops' = [stops EXCEPT ![s] = k]
      /\ UNCHANGED <<position, closing, halted, opens, ticks>>
  BY DEF TakeOpened
<1>2. /\ Head(inbox) \in Event /\ EventOK(Head(inbox), opens, stops, position)
      /\ Head(inbox).kind = "opened"
  BY <1>1, TakesOne
<1>3. /\ k \in StopState /\ k.id = Head(inbox).of.id /\ k.peak = k.entry
  BY <1>2 DEF Event, PositionState, StopState, StartTracking
<1>4. k.id >= 1 /\ k.id <= opens
  BY <1>2, <1>3 DEF EventOK
<1> HIDE DEF s, k
<1>5. StopOK(k, opens)
  BY <1>3, <1>4 DEF StopOK, StopState
<1>6. stops' \in [Markets -> StopState]
  BY <1>1, <1>3, ConstantTypes
<1>7. ASSUME NEW m \in Markets
      PROVE  StopOK(stops'[m], opens)
             /\ (stops'[m].id <= stops[m].id \/ stops'[m].id <= Head(inbox).of.id)
  <2>1. CASE m = s
    BY <1>1, <1>2, <1>3, <1>5, <2>1, ConstantTypes DEF Event, PositionState
  <2>2. CASE m # s
    BY <1>1, <2>2, ConstantTypes
  <2> QED BY <2>1, <2>2
<1>8. closing' \in ClosingState /\ ClosingOK(closing', opens, position) /\ halted' \in BOOLEAN
  BY <1>1, ConstantTypes DEF TrailingInv, TrailingTypeOK
<1> QED BY <1>1, <1>6, <1>7, <1>8, HandlerStep

(* Forgetting a stop, or none.                                              *)
LEMMA ForgetStep ==
    ASSUME TrailingInv, NEW kind, Takes(kind), UNCHANGED <<position, opens, ticks>>,
           halted' \in BOOLEAN, stops' \in [Markets -> StopState],
           \A s \in Markets : stops'[s] = stops[s] \/ stops'[s] = NoStop,
           closing' \in ClosingState, ClosingOK(closing', opens, position)
    PROVE  TrailingInv'
<1>1. \A s \in Markets : StopOK(stops'[s], opens) /\ stops'[s].id <= stops[s].id
  BY ConstantTypes, NoneTypes
<1> QED BY <1>1, HandlerStep

LEMMA ForgettingSteps ==
    ASSUME TrailingInv, TakeClosed \/ IgnorePrice \/ TakePanic \/ TakeResume
    PROVE  TrailingInv'
<1> USE NoneTypes
<1>1. CASE TakeClosed
  <2> DEFINE s == Head(inbox).sym
  <2>1. /\ Takes("closed") /\ stops' = [stops EXCEPT ![s] = NoStop]
        /\ UNCHANGED <<position, closing, halted, opens, ticks>>
    BY <1>1 DEF TakeClosed
  <2> HIDE DEF s
  <2>2. /\ stops' \in [Markets -> StopState]
        /\ \A m \in Markets : stops'[m] = stops[m] \/ stops'[m] = NoStop
    BY <2>1, ConstantTypes
  <2>3. closing' \in ClosingState /\ ClosingOK(closing', opens, position)
        /\ halted' \in BOOLEAN
    BY <2>1, ConstantTypes DEF TrailingInv, TrailingTypeOK
  <2> QED BY <2>1, <2>2, <2>3, ForgetStep
<1>2. CASE IgnorePrice \/ TakeResume
  <2>1. /\ \E kind : Takes(kind)
        /\ UNCHANGED <<position, stops, closing, opens, ticks>>
        /\ halted' = halted \/ halted' = FALSE
    BY <1>2, Zenon DEF IgnorePrice, TakeResume
  <2>2. halted' \in BOOLEAN
    BY <2>1 DEF TrailingInv, TrailingTypeOK
  <2>3. closing' \in ClosingState /\ ClosingOK(closing', opens, position)
    BY <2>1, ConstantTypes DEF TrailingInv
  <2> QED BY <2>1, <2>2, <2>3, ConstantTypes, ForgetStep
<1>3. CASE TakePanic
  <2>1. /\ Takes("panic") /\ halted' = TRUE /\ stops' = [s \in Markets |-> NoStop]
        /\ closing' = [NotClosing EXCEPT !.stage = "panic"]
        /\ UNCHANGED <<position, opens, ticks>>
    BY <1>3 DEF TakePanic
  <2>2. closing' \in ClosingState /\ closing'.stage = "panic"
    BY <2>1 DEF NotClosing, ClosingState
  <2>3. ClosingOK(closing', opens, position)
    BY <2>2 DEF ClosingOK
  <2>4. halted' \in BOOLEAN
    BY <2>1
  <2>5. /\ stops' \in [Markets -> StopState]
        /\ \A m \in Markets : stops'[m] = stops[m] \/ stops'[m] = NoStop
    BY <2>1
  <2> QED BY <2>1, <2>2, <2>3, <2>4, <2>5, ForgetStep
<1> QED BY <1>1, <1>2, <1>3

(* What a price event lets the engine assume of the stop it moves.          *)
LEMMA PriceEvent ==
    ASSUME TrailingInv, Takes("price")
    PROVE  LET e == Head(inbox) IN
           /\ e.sym \in Markets /\ e.price \in Nat /\ e.price > 0
           /\ stops[e.sym] \in StopState /\ StopOK(stops[e.sym], opens)
           /\ closing = NotClosing
<1>1. /\ Head(inbox) \in Event /\ Head(inbox).kind = "price" /\ closing = NotClosing
      /\ EventOK(Head(inbox), opens, stops, position)
  BY TakesOne
<1>2. Head(inbox).sym \in Markets /\ Head(inbox).price > 0
  BY <1>1 DEF EventOK
<1> QED BY <1>1, <1>2, ConstantTypes DEF Event

LEMMA MoveStep ==
    ASSUME TrailingInv, MoveStop
    PROVE  TrailingInv'
<1> DEFINE s == Head(inbox).sym  p == Head(inbox).price  k == Moved(stops[s], p)
<1>1. /\ Takes("price") /\ stops[s] # NoStop /\ stops' = [stops EXCEPT ![s] = k]
      /\ UNCHANGED <<position, closing, halted, opens, ticks>>
  BY DEF MoveStop
<1>2. /\ s \in Markets /\ p \in Nat /\ stops[s] \in StopState /\ StopOK(stops[s], opens)
  BY <1>1, PriceEvent
<1>3. /\ k \in StopState /\ k.id = stops[s].id /\ k.entry = stops[s].entry
      /\ stops[s].active => k.active
      /\ k.peak = IF k.active /\ Better(stops[s], p) THEN p ELSE stops[s].peak
  BY <1>2, MovedIs
<1> HIDE DEF k, s, p
<1>4. StopOK(k, opens)
  BY <1>1, <1>2, <1>3 DEF StopOK
<1>5. stops' \in [Markets -> StopState]
  BY <1>1, <1>3, ConstantTypes
<1>6. \A m \in Markets : StopOK(stops'[m], opens) /\ stops'[m].id <= stops[m].id
  BY <1>1, <1>2, <1>3, <1>4, ConstantTypes
<1>7. closing' \in ClosingState /\ ClosingOK(closing', opens, position) /\ halted' \in BOOLEAN
  BY <1>1, ConstantTypes DEF TrailingInv, TrailingTypeOK
<1> QED BY <1>1, <1>5, <1>6, <1>7, HandlerStep

LEMMA TriggerStep ==
    ASSUME TrailingInv, TriggerStop
    PROVE  TrailingInv'
<1> DEFINE s == Head(inbox).sym
<1>1. /\ Takes("price") /\ stops' = [stops EXCEPT ![s] = NoStop]
      /\ closing' = [stage |-> "close", sym |-> s, id |-> stops[s].id]
      /\ UNCHANGED <<position, halted, opens, ticks>>
  BY DEF TriggerStop
<1>2. s \in Markets /\ stops[s].id \in Nat /\ stops[s].id <= opens
  BY <1>1, PriceEvent DEF StopOK, StopState
<1> HIDE DEF s
<1>3. /\ stops' \in [Markets -> StopState]
      /\ \A m \in Markets : stops'[m] = stops[m] \/ stops'[m] = NoStop
  BY <1>1, ConstantTypes, NoneTypes
<1>4. closing' \in ClosingState /\ ClosingOK(closing', opens, position)
  BY <1>1, <1>2 DEF ClosingState, ClosingOK
<1>5. halted' \in BOOLEAN
  BY <1>1 DEF TrailingInv, TrailingTypeOK
<1> QED BY <1>1, <1>3, <1>4, <1>5, ForgetStep

-----------------------------------------------------------------------------
(* Removing a position, and ending a handler.                               *)
LEMMA RemovalStep ==
    ASSUME TrailingInv, UNCHANGED <<stops, inbox, halted, opens, ticks>>,
           position' \in [Markets -> PositionState],
           \A m \in Markets : position'[m].id = 0 \/ position'[m] = position[m],
           closing' \in ClosingState, ClosingOK(closing', opens, position')
    PROVE  TrailingInv'
<1>1. TrailingTypeOK'
  BY DEF TrailingInv, TrailingTypeOK, ClosingState
<1>2. ASSUME NEW i \in DOMAIN inbox
      PROVE  EventOK(inbox[i], opens, stops, position')
  <2> DEFINE e == inbox[i]
  <2>1. e \in Event /\ EventOK(e, opens, stops, position)
    BY <1>2, Inbox DEF TrailingInv
  <2> HIDE DEF e
  <2>2. EventOK(e, opens, stops, position')
    BY <2>1 DEF EventOK, Older
  <2> QED BY <2>2 DEF e
<1> QED BY <1>1, <1>2, InvariantFrom DEF TrailingInv

LEMMA RemovingSteps ==
    ASSUME TrailingInv,
           \/ \E s \in Markets : ClosesSilently(s) \/ PanicRemoves(s)
           \/ CloseRemoves \/ CloseFindsNothing \/ CloseFails \/ PanicReturns
    PROVE  TrailingInv'
<1> USE NoneTypes
<1>1. closing \in ClosingState /\ ClosingOK(closing, opens, position)
  BY ConstantTypes DEF TrailingInv
<1>2. ASSUME NEW s \in Markets, ClosesSilently(s) \/ PanicRemoves(s)
      PROVE  TrailingInv'
  <2>1. /\ position' = [position EXCEPT ![s] = NoPosition]
        /\ UNCHANGED <<stops, inbox, closing, halted, opens, ticks>>
    BY <1>2 DEF ClosesSilently, PanicRemoves
  <2>2. /\ position' \in [Markets -> PositionState]
        /\ \A m \in Markets : position'[m].id = 0 \/ position'[m] = position[m]
    BY <2>1, ConstantTypes
  <2>3. closing' \in ClosingState /\ ClosingOK(closing', opens, position')
    BY <1>1, <2>1, <2>2 DEF ClosingOK, Older
  <2> QED BY <2>1, <2>2, <2>3, RemovalStep
<1>3. CASE CloseRemoves
  <2> DEFINE s == closing.sym
  <2>1. /\ closing.stage = "close" /\ position' = [position EXCEPT ![s] = NoPosition]
        /\ closing' = [closing EXCEPT !.stage = "report"]
        /\ UNCHANGED <<stops, inbox, halted, opens, ticks>>
    BY <1>3 DEF CloseRemoves
  <2>2. s \in Markets /\ closing.id <= opens
    BY <1>1, <2>1 DEF ClosingOK
  <2>3. /\ closing' \in ClosingState /\ closing'.sym = s /\ closing'.id = closing.id
    BY <1>1, <2>1 DEF ClosingState
  <2> HIDE DEF s
  <2>4. /\ position' \in [Markets -> PositionState] /\ position'[s].id = 0
        /\ \A m \in Markets : position'[m].id = 0 \/ position'[m] = position[m]
    BY <2>1, <2>2, ConstantTypes
  <2>5. ClosingOK(closing', opens, position')
    BY <2>2, <2>3, <2>4 DEF ClosingOK, Older
  <2> QED BY <2>1, <2>3, <2>4, <2>5, RemovalStep
<1>4. CASE CloseFindsNothing \/ CloseFails \/ PanicReturns
  <2>1. closing' = NotClosing /\ UNCHANGED <<position, stops, inbox, halted, opens, ticks>>
    BY <1>4 DEF CloseFindsNothing, CloseFails, PanicReturns
  <2>2. ClosingOK(closing', opens, position')
    BY <2>1 DEF ClosingOK
  <2> QED BY <2>1, <2>2, ConstantTypes, RemovalStep
<1> QED BY <1>2, <1>3, <1>4

(* Publishing what is not the report of an opened position.                 *)
LEMMA StopPublishStep ==
    ASSUME TrailingInv, NEW e \in Event, inbox' = Append(inbox, e), e.kind # "opened",
           EventOK(e, opens, stops, position),
           UNCHANGED <<position, stops, halted, opens>>, ticks' \in Nat,
           closing' \in ClosingState, ClosingOK(closing', opens, position)
    PROVE  TrailingInv'
<1>1. /\ inbox' \in Seq(Event) /\ OpenedInOrder(inbox')
      /\ \A i \in DOMAIN inbox' : inbox'[i] = e \/
           \E j \in DOMAIN inbox : inbox'[i] = inbox[j]
  BY PublishesOne
<1>2. TrailingTypeOK'
  BY <1>1 DEF TrailingInv, TrailingTypeOK, ClosingState, Event
<1>3. \A i \in DOMAIN inbox' : EventOK(inbox'[i], opens, stops, position)
  BY <1>1 DEF TrailingInv
<1>4. \A s \in Markets : StopOK(stops'[s], opens')
  BY ConstantTypes
<1> QED BY <1>1, <1>2, <1>3, <1>4, InvariantFrom

LEMMA PublishingSteps ==
    ASSUME TrailingInv,
           \/ \E s \in Markets, p \in StopPrices : Ticks(s, p)
           \/ \E kind \in {"panic", "resume"} : Presses(kind)
           \/ CloseReports
    PROVE  TrailingInv'
<1> USE NoneTypes
<1>1. closing \in ClosingState /\ ClosingOK(closing, opens, position)
  BY ConstantTypes DEF TrailingInv
<1>2. ASSUME NEW s \in Markets, NEW p \in StopPrices, Ticks(s, p)
      PROVE  TrailingInv'
  <2> DEFINE e == Note("price", s, p, NoPosition)
  <2>1. e \in Event /\ e.kind = "price" /\ e.sym = s /\ e.price = p
    BY TrailingBounds DEF Event, Note
  <2>2. /\ inbox' = Append(inbox, e) /\ ticks' = ticks + 1
        /\ UNCHANGED <<position, stops, closing, halted, opens>>
    BY <1>2 DEF Ticks, Publishes
  <2> HIDE DEF e
  <2>3. EventOK(e, opens, stops, position)
    BY <2>1, TrailingBounds DEF EventOK
  <2> QED BY <1>1, <2>1, <2>2, <2>3, ConstantTypes, StopPublishStep
<1>3. ASSUME NEW kind \in {"panic", "resume"}, Presses(kind)
      PROVE  TrailingInv'
  <2> DEFINE e == Note(kind, "none", 0, NoPosition)
  <2>1. e \in Event /\ e.kind = kind
    BY DEF Event, Note
  <2>2. /\ inbox' = Append(inbox, e) /\ ticks' = ticks + 1
        /\ UNCHANGED <<position, stops, closing, halted, opens>>
    BY <1>3 DEF Presses, Publishes
  <2> HIDE DEF e
  <2>3. e.kind # "opened" /\ EventOK(e, opens, stops, position)
    BY <2>1 DEF EventOK
  <2> QED BY <1>1, <2>1, <2>2, <2>3, ConstantTypes, StopPublishStep
<1>4. CASE CloseReports
  <2> DEFINE pos == [NoPosition EXCEPT !.id = closing.id]
             e == Note("closed", closing.sym, 0, pos)
  <2>1. /\ closing.stage = "report" /\ inbox' = Append(inbox, e) /\ closing' = NotClosing
        /\ UNCHANGED <<position, stops, halted, opens, ticks>>
    BY <1>4 DEF CloseReports, Publishes
  <2>2. /\ closing.sym \in Markets /\ closing.id \in Nat /\ closing.id <= opens
        /\ Older(closing.id, position[closing.sym])
    BY <1>1, <2>1 DEF ClosingOK, ClosingState
  <2>3. pos \in PositionState /\ pos.id = closing.id
    BY <2>2 DEF NoPosition, PositionState
  <2> HIDE DEF pos
  <2>4. e \in Event /\ e.kind = "closed" /\ e.sym = closing.sym /\ e.of = pos
    BY <2>2, <2>3 DEF Event, Note
  <2> HIDE DEF e
  <2>5. EventOK(e, opens, stops, position)
    BY <2>2, <2>3, <2>4 DEF EventOK
  <2>6. ClosingOK(closing', opens, position)
    BY <2>1 DEF ClosingOK
  <2> QED BY <2>1, <2>4, <2>5, <2>6, ConstantTypes, StopPublishStep
<1> QED BY <1>2, <1>3, <1>4

(* A position that is opened is newer than whatever is on its way.          *)
LEMMA OpensStep ==
    ASSUME TrailingInv, NEW s \in Markets, NEW p \in StopPrices, NEW long \in BOOLEAN,
           Opens(s, long, p)
    PROVE  TrailingInv'
<1> DEFINE pos == [id |-> opens + 1, long |-> long, entry |-> p]
           e == Note("opened", s, p, pos)
<1>1. /\ opens' = opens + 1 /\ position' = [position EXCEPT ![s] = pos]
      /\ UNCHANGED <<stops, closing, halted, ticks>>
  BY DEF Opens
<1>2. opens \in Nat /\ opens' \in Nat /\ pos \in PositionState /\ pos.id = opens + 1
  BY <1>1, ConstantTypes, TrailingBounds DEF PositionState
<1>3. position'[s] = pos /\ position' \in [Markets -> PositionState]
      /\ \A m \in Markets : position'[m] = position[m] \/ position'[m].id = opens + 1
  BY <1>1, <1>2, ConstantTypes
<1>4. inbox' = Append(inbox, e)
  BY <1>3 DEF Opens, Publishes
<1> HIDE DEF pos
<1>5. e \in Event /\ e.kind = "opened" /\ e.sym = s /\ e.of = pos
  BY <1>2, TrailingBounds DEF Event, Note
<1> HIDE DEF e
<1>6. \A i \in DOMAIN inbox : /\ inbox[i] \in Event /\ inbox[i].of.id \in Nat
                              /\ EventOK(inbox[i], opens, stops, position)
  BY Inbox DEF TrailingInv, Event, PositionState
<1>7. /\ inbox' \in Seq(Event) /\ OpenedInOrder(inbox')
      /\ \A i \in DOMAIN inbox' : inbox'[i] = e \/
           \E j \in DOMAIN inbox : inbox'[i] = inbox[j]
  <2>1. \A i \in DOMAIN inbox : inbox[i].kind = "opened" => inbox[i].of.id < e.of.id
    BY <1>2, <1>5, <1>6 DEF EventOK
  <2> QED BY <1>4, <1>5, <2>1, PublishesOne
<1>8. TrailingTypeOK'
  BY <1>1, <1>2, <1>3, <1>7 DEF TrailingInv, TrailingTypeOK, Event
<1>9. EventOK(e, opens', stops', position')
  BY <1>1, <1>2, <1>5, ConstantTypes DEF EventOK, StopOK
<1>10. ASSUME NEW j \in DOMAIN inbox
       PROVE  EventOK(inbox[j], opens', stops', position')
  <2> DEFINE d == inbox[j]
  <2>1. d.of.id \in Nat /\ EventOK(d, opens, stops, position)
    BY <1>6, <1>10
  <2> HIDE DEF d
  <2>2. EventOK(d, opens', stops', position')
    BY <1>1, <1>2, <1>3, <2>1 DEF EventOK, Older
  <2> QED BY <2>2 DEF d
<1>11. \A i \in DOMAIN inbox' : EventOK(inbox'[i], opens', stops', position')
  BY <1>7, <1>9, <1>10
<1>12. \A m \in Markets : StopOK(stops'[m], opens')
  BY <1>1, <1>2, ConstantTypes DEF StopOK
<1>13. ClosingOK(closing', opens', position')
  BY <1>1, <1>2, <1>3, ConstantTypes DEF TrailingInv, ClosingOK, Older, ClosingState
<1> QED BY <1>7, <1>8, <1>11, <1>12, <1>13, InvariantFrom

-----------------------------------------------------------------------------
LEMMA TrailingStart == TrailingInit => TrailingInv
<1> SUFFICES ASSUME TrailingInit PROVE TrailingInv
  OBVIOUS
<1> USE NoneTypes
<1>1. /\ position = [s \in Markets |-> NoPosition] /\ stops = [s \in Markets |-> NoStop]
      /\ inbox = <<>> /\ closing = NotClosing /\ opens = 0 /\ ticks = 0 /\ halted = FALSE
  BY DEF TrailingInit
<1>2. inbox \in Seq(Event) /\ DOMAIN inbox = {} /\ halted \in BOOLEAN
  <2>1. inbox \in Seq(Event) /\ Len(inbox) = 0
    BY <1>1
  <2>2. DOMAIN inbox = 1 .. 0
    BY <2>1, LenProperties
  <2>3. DOMAIN inbox = {}
    BY <2>2
  <2>4. halted \in BOOLEAN
    BY <1>1
  <2> QED BY <2>1, <2>3, <2>4
<1>3. TrailingTypeOK
  BY <1>1, <1>2 DEF TrailingTypeOK, Event, ClosingState
<1>4. OpenedInOrder(inbox) /\ ClosingOK(closing, opens, position)
  BY <1>1, <1>2 DEF OpenedInOrder, ClosingOK
<1> QED BY <1>1, <1>2, <1>3, <1>4 DEF TrailingInv

LEMMA TrailingStep ==
    ASSUME TrailingInv, [TrailingNext]_trailingVars
    PROVE  TrailingInv'
<1>1. CASE \E s \in Markets, p \in StopPrices, long \in BOOLEAN : Opens(s, long, p)
  BY <1>1, OpensStep
<1>2. CASE TakeOpened
  BY <1>2, OpenedStep
<1>3. CASE TakeClosed \/ IgnorePrice \/ TakePanic \/ TakeResume
  BY <1>3, ForgettingSteps
<1>4. CASE MoveStop \/ TriggerStop
  BY <1>4, MoveStep, TriggerStep
<1>5. CASE \/ \E s \in Markets : ClosesSilently(s) \/ PanicRemoves(s)
           \/ CloseRemoves \/ CloseFindsNothing \/ CloseFails \/ PanicReturns
  BY <1>5, RemovingSteps
<1>6. CASE \/ \E s \in Markets, p \in StopPrices : Ticks(s, p)
           \/ \E kind \in {"panic", "resume"} : Presses(kind)
           \/ CloseReports
  BY <1>6, PublishingSteps
<1>7. CASE UNCHANGED trailingVars
  BY <1>7 DEF TrailingInv, TrailingTypeOK, trailingVars
<1> QED BY <1>1, <1>2, <1>3, <1>4, <1>5, <1>6, <1>7, Zenon DEF TrailingNext

(* The stops, the events on their way and the close in progress belong      *)
(* together: no report of an opened position is older than a stop, and no   *)
(* report of a closed one is newer than the position that is open.          *)
THEOREM TrailingInvariant == TrailingSpec => []TrailingInv
BY TrailingStart, TrailingStep, PTL DEF TrailingSpec

(* Only five actions touch a stop.                                          *)
LEMMA StopsTouched ==
    ASSUME [TrailingNext]_trailingVars
    PROVE  \/ stops' = stops
           \/ TakeOpened \/ TakeClosed \/ MoveStop \/ TriggerStop \/ TakePanic
BY Zenon DEF TrailingNext, trailingVars, Opens, ClosesSilently, PanicRemoves, Ticks, Presses,
   IgnorePrice, TakeResume, CloseRemoves, CloseReports, CloseFindsNothing, CloseFails,
   PanicReturns

LEMMA StoppedNoRetreat ==
    ASSUME NEW k \in StopState, NEW n \in Nat, StopOK(k, n)
    PROVE  NoRetreat(k, NoStop) /\ NoRetreat(k, k)
<1>1. k.id = 0 => ~k.active
  BY NoneTypes DEF StopOK
<1>2. NoRetreat(k, NoStop)
  BY <1>1, NoneTypes DEF NoRetreat
<1>3. StopLevel(k) \in Int
  <2>1. k.peak \in Nat /\ 100 - TrailPct \in Nat /\ 100 + TrailPct \in Nat
    BY TrailingBounds DEF StopState
  <2> QED BY <2>1, SMT DEF StopLevel
<1> QED BY <1>2, <1>3 DEF NoRetreat

LEMMA NoRetreatStep ==
    ASSUME TrailingInv, [TrailingNext]_trailingVars, NEW s \in Markets
    PROVE  NoRetreat(stops[s], stops'[s])
<1>1. /\ stops[s] \in StopState /\ opens \in Nat /\ StopOK(stops[s], opens)
      /\ stops \in [Markets -> StopState]
  BY ConstantTypes
<1>2. NoRetreat(stops[s], NoStop) /\ NoRetreat(stops[s], stops[s])
  BY <1>1, StoppedNoRetreat
<1>3. CASE stops' = stops \/ TakeClosed \/ TriggerStop \/ TakePanic
  <2>1. stops'[s] = stops[s] \/ stops'[s] = NoStop
    BY <1>1, <1>3 DEF TakeClosed, TriggerStop, TakePanic
  <2> QED BY <1>2, <2>1
<1>4. CASE TakeOpened
  <2> DEFINE e == Head(inbox)  k == StartTracking(e.of)
  <2>1. Takes("opened") /\ stops' = [stops EXCEPT ![e.sym] = k]
    BY <1>4 DEF TakeOpened
  <2>2. e \in Event /\ EventOK(e, opens, stops, position) /\ e.kind = "opened"
    BY <2>1, TakesOne
  <2>3. k.id = e.of.id /\ stops[s].id < e.of.id
    BY <2>2 DEF StartTracking, EventOK
  <2>4. stops[s].id # k.id
    BY <1>1, <2>2, <2>3 DEF Event, PositionState, StopState
  <2> HIDE DEF k, e
  <2>5. NoRetreat(stops[s], k)
    BY <2>4 DEF NoRetreat
  <2>6. stops'[s] = stops[s] \/ stops'[s] = k
    BY <1>1, <2>1
  <2> QED BY <1>2, <2>5, <2>6
<1>5. CASE MoveStop
  <2> DEFINE e == Head(inbox)  k == Moved(stops[e.sym], e.price)
  <2>1. Takes("price") /\ stops' = [stops EXCEPT ![e.sym] = k]
    BY <1>5 DEF MoveStop
  <2>2. e.sym \in Markets /\ e.price \in Nat /\ stops[e.sym] \in StopState
    BY <2>1, PriceEvent
  <2>3. NoRetreat(stops[e.sym], k)
    BY <2>2, MovedNoRetreat
  <2> HIDE DEF k
  <2>4. CASE s = e.sym
    BY <1>1, <2>1, <2>2, <2>3, <2>4
  <2>5. CASE s # e.sym
    BY <1>1, <1>2, <2>1, <2>5
  <2> QED BY <2>4, <2>5
<1> QED BY <1>3, <1>4, <1>5, StopsTouched

(* While one position is tracked, its stop never moves away from profit and *)
(* stays active once it is (trailing.py:118), whatever the order of prices, *)
(* opens, closes, panics and late reports.                                  *)
THEOREM TrailingStopNeverRetreats == TrailingSpec => StopNeverRetreats
<1>1. TrailingInv /\ [TrailingNext]_trailingVars
      => [\A s \in Markets : NoRetreat(stops[s], stops'[s])]_trailingVars
  BY NoRetreatStep
<1> QED BY <1>1, TrailingInvariant, PTL DEF TrailingSpec, StopNeverRetreats

LEMMA DropStep ==
    ASSUME TrailingInv, [TrailingNext]_trailingVars, NEW s \in Markets,
           position[s].id = position'[s].id, stops[s].id = position[s].id,
           stops[s] # NoStop, stops'[s] = NoStop
    PROVE  DropCause(s)
<1>1. /\ stops[s] \in StopState /\ opens \in Nat /\ StopOK(stops[s], opens)
      /\ stops \in [Markets -> StopState] /\ position[s].id \in Nat
  BY ConstantTypes
<1>2. stops[s].id # 0
  BY <1>1 DEF StopOK
<1>3. CASE TakePanic
  <2>1. inbox # <<>> /\ Head(inbox).kind = "panic"
    BY <1>3 DEF TakePanic, Takes
  <2> QED BY <2>1 DEF DropCause
<1>4. CASE TakeClosed
  <2> DEFINE e == Head(inbox)
  <2>1. Takes("closed") /\ stops' = [stops EXCEPT ![e.sym] = NoStop] /\ inbox # <<>>
    BY <1>4 DEF TakeClosed, Takes
  <2>2. e \in Event /\ EventOK(e, opens, stops, position) /\ e.kind = "closed"
    BY <2>1, TakesOne
  <2> HIDE DEF e
  <2>3. s = e.sym
    BY <1>1, <2>1
  <2>4. e.of.id < position[s].id
    BY <1>2, <2>2, <2>3 DEF EventOK, Older
  <2> QED BY <2>1, <2>2, <2>3, <2>4 DEF DropCause, e
<1>5. CASE TriggerStop
  <2> DEFINE e == Head(inbox)
  <2>1. /\ Takes("price") /\ stops' = [stops EXCEPT ![e.sym] = NoStop] /\ inbox # <<>>
        /\ Triggers(Moved(stops[e.sym], e.price), e.price) /\ e.kind = "price"
    BY <1>5 DEF TriggerStop, Takes
  <2>2. e.sym \in Markets /\ e.price \in Nat /\ e.price > 0
    BY <2>1, PriceEvent
  <2> HIDE DEF e
  <2>3. s = e.sym
    BY <1>1, <2>1
  <2>4. PastStop(stops[s], e.price)
    BY <1>1, <2>1, <2>2, <2>3, TriggerCause
  <2> QED BY <2>1, <2>3, <2>4 DEF DropCause, e
<1>6. CASE TakeOpened
  <2> DEFINE e == Head(inbox)  k == StartTracking(e.of)
  <2>1. Takes("opened") /\ stops' = [stops EXCEPT ![e.sym] = k]
    BY <1>6 DEF TakeOpened
  <2>2. e \in Event /\ EventOK(e, opens, stops, position) /\ e.kind = "opened"
    BY <2>1, TakesOne
  <2>3. k.id = e.of.id /\ e.of.id >= 1 /\ e.of.id \in Nat
    BY <2>2 DEF StartTracking, EventOK, Event, PositionState
  <2>4. k # NoStop
    BY <2>3, NoneTypes
  <2> HIDE DEF k
  <2> QED BY <1>1, <2>1, <2>4
<1>7. CASE MoveStop
  <2> DEFINE e == Head(inbox)  k == Moved(stops[e.sym], e.price)
  <2>1. Takes("price") /\ stops' = [stops EXCEPT ![e.sym] = k]
    BY <1>7 DEF MoveStop
  <2>2. e.sym \in Markets /\ e.price \in Nat /\ stops[e.sym] \in StopState
    BY <2>1, PriceEvent
  <2>3. k.id = stops[e.sym].id
    BY <2>2, MovedIs
  <2> HIDE DEF k
  <2>4. s # e.sym
    BY <1>1, <1>2, <2>1, <2>2, <2>3, NoneTypes
  <2> QED BY <1>1, <2>1, <2>4
<1>8. CASE stops' = stops
  BY <1>8
<1> QED BY <1>3, <1>4, <1>5, <1>6, <1>7, <1>8, StopsTouched

(* A position that stays open loses its stop only to a price beyond it, to  *)
(* a panic, or to the late report that an earlier position of its symbol    *)
(* was closed (engine.py:1006, 1026, 1094).                                 *)
THEOREM TrailingStopDroppedForCause == TrailingSpec => StopDroppedForCause
<1>1. TrailingInv /\ [TrailingNext]_trailingVars
      => [\A s \in Markets :
            (/\ position[s].id = position'[s].id /\ stops[s].id = position[s].id
             /\ stops[s] # NoStop /\ stops'[s] = NoStop) => DropCause(s)]_trailingVars
  BY DropStep
<1> QED BY <1>1, TrailingInvariant, PTL DEF TrailingSpec, StopDroppedForCause


-----------------------------------------------------------------------------
(* The statistics of a pattern.                                            *)
Active(c) == exits[c].stage # "idle"
BeforePattern == {"episode", "rule", "ruleWrite", "pattern"}
WinsIn(S) == {x \in S : x[3]}

(* An order is linked once and for all, so a closer never begins a second   *)
(* update of the pattern for the same order: every update that was begun    *)
(* counts.                                                                  *)
OrdersLinkedOnce ==
    /\ \A o \in linked : entered[o] = "linked"
    /\ \A c \in Closers : Active(c) => exits[c].order \in Filled /\ entered[exits[c].order] = "linked"
    /\ \A x \in seen : entered[x[2]] = "linked"
    /\ \A x \in seen : x[2] \in linked =>
           exits[x[1]].order = x[2] /\ exits[x[1]].stage \in {"patternWrite", "unlink"}
    /\ \A c \in Closers : exits[c].stage \in BeforePattern =>
           \A x \in seen : x[1] = c => x[2] # exits[c].order

(* What an update read is behind what was begun since, its own included.    *)
ReadsAreBehind ==
    \A c \in Closers : exits[c].stage = "patternWrite" =>
        /\ exits[c].n + 1 <= Cardinality(seen)
        /\ Wins(c) => exits[c].wins + 1 <= Cardinality(WinsIn(seen))

MemoryInv ==
    /\ MemoryTypeOK /\ IsFiniteSet(seen)
    /\ OrdersLinkedOnce /\ ReadsAreBehind /\ PatternEarnsValidity

LEMMA CountsOfUpdates ==
    ASSUME NEW S, IsFiniteSet(S)
    PROVE  /\ Cardinality(S) \in Nat
           /\ IsFiniteSet(WinsIn(S)) /\ Cardinality(WinsIn(S)) \in Nat
<1>1. WinsIn(S) \in SUBSET S
  BY DEF WinsIn
<1>2. IsFiniteSet(WinsIn(S))
  BY <1>1, FS_Subset
<1> QED BY <1>2, FS_CardinalityType

LEMMA UpdateCounts ==
    ASSUME NEW S, IsFiniteSet(S), NEW x, x \notin S, x[3] \in BOOLEAN
    PROVE  /\ IsFiniteSet(S \cup {x}) /\ Cardinality(S \cup {x}) = Cardinality(S) + 1
           /\ Cardinality(WinsIn(S \cup {x})) =
                 Cardinality(WinsIn(S)) + IF x[3] THEN 1 ELSE 0
<1>1. IsFiniteSet(S \cup {x}) /\ Cardinality(S \cup {x}) = Cardinality(S) + 1
  BY FS_AddElement
<1>2. CASE x[3]
  <2>1. WinsIn(S \cup {x}) = WinsIn(S) \cup {x} /\ x \notin WinsIn(S)
    BY <1>2 DEF WinsIn
  <2>2. IsFiniteSet(WinsIn(S))
    BY CountsOfUpdates
  <2>3. Cardinality(WinsIn(S) \cup {x}) = Cardinality(WinsIn(S)) + 1
    BY <2>1, <2>2, FS_AddElement
  <2> QED BY <1>1, <1>2, <2>1, <2>3
<1>3. CASE ~x[3]
  <2>1. WinsIn(S \cup {x}) = WinsIn(S)
    BY <1>3 DEF WinsIn
  <2>2. Cardinality(WinsIn(S)) \in Nat
    BY CountsOfUpdates
  <2> QED BY <1>1, <1>3, <2>1, <2>2
<1> QED BY <1>2, <1>3

LEMMA MemoryInitOK ==
    ASSUME MemoryInit
    PROVE  MemoryInv
<1> USE DEF MemoryInit
<1>1. MemoryTypeOK
  BY DEF MemoryTypeOK, NoExit, ExitState, Outcomes, NewRule, NewPattern
<1>2. IsFiniteSet(seen) /\ Cardinality(seen) = 0
  BY FS_EmptySet
<1>3. OrdersLinkedOnce /\ ReadsAreBehind
  BY DEF OrdersLinkedOnce, ReadsAreBehind, Active, BeforePattern, NoExit
<1>4. PatternEarnsValidity
  <2>1. {x \in seen : x[3]} = {}
    OBVIOUS
  <2> QED BY <1>2, <2>1, FS_EmptySet DEF PatternEarnsValidity, NewPattern
<1> QED BY <1>1, <1>2, <1>3, <1>4 DEF MemoryInv

(* Steps that begin no update of the pattern and write none.                *)
LEMMA MemoryCountsKept ==
    ASSUME MemoryInv, seen' = seen, pattern' = pattern,
           \A c \in Closers : exits'[c].stage = "patternWrite" => exits'[c] = exits[c]
    PROVE  IsFiniteSet(seen)' /\ ReadsAreBehind' /\ PatternEarnsValidity'
BY DEF MemoryInv, ReadsAreBehind, PatternEarnsValidity, Wins

LEMMA EntryKeeps ==
    ASSUME MemoryInv, NEW o \in Filled,
           EntryStored(o) \/ EntryLinked(o) \/ EntryFails(o) \/ TrailingExit(o)
    PROVE  MemoryInv'
<1>1. /\ UNCHANGED <<outcome, exits, rule, pattern, seen>>
      /\ \/ entered' = entered
         \/ /\ entered[o] \in {"no", "stored"}
            /\ \E e \in {"stored", "linked", "failed"} : entered' = [entered EXCEPT ![o] = e]
      /\ \/ linked' = linked
         \/ linked' = linked \cup {o} /\ entered[o] = "stored"
               /\ entered' = [entered EXCEPT ![o] = "linked"]
      /\ \/ trailed' = trailed
         \/ trailed' = trailed \cup {o}
  BY DEF EntryStored, EntryLinked, EntryFails, TrailingExit
<1>2. MemoryTypeOK
  BY DEF MemoryInv
<1>3. MemoryTypeOK'
  BY <1>1, <1>2 DEF MemoryTypeOK
<1>4. /\ \A p \in Filled : entered[p] = "linked" => entered'[p] = "linked"
      /\ \A p \in linked' : p \in linked \/ (entered[p] = "stored" /\ entered'[p] = "linked")
  <2>1. CASE entered' = entered
    <3>1. \A p \in linked' : p \in linked \/ (entered[p] = "stored" /\ entered'[p] = "linked")
      BY <1>1, <1>2, <2>1 DEF MemoryTypeOK
    <3> QED BY <2>1, <3>1
  <2>2. ASSUME NEW e \in {"stored", "linked", "failed"}, entered[o] \in {"no", "stored"},
               entered' = [entered EXCEPT ![o] = e]
        PROVE  \A p \in Filled : entered[p] = "linked" => entered'[p] = "linked"
    BY <1>2, <2>2 DEF MemoryTypeOK
  <2>3. ASSUME NEW p \in linked', p \notin linked
        PROVE  entered[p] = "stored" /\ entered'[p] = "linked"
    BY <1>1, <1>2, <2>3 DEF MemoryTypeOK
  <2> QED BY <1>1, <2>1, <2>2, <2>3
<1>5. OrdersLinkedOnce'
  <2>1. \A p \in linked' : entered'[p] = "linked"
    BY <1>2, <1>4 DEF MemoryInv, OrdersLinkedOnce, MemoryTypeOK
  <2>2. \A c \in Closers : Active(c)' =>
            exits'[c].order \in Filled /\ entered'[exits'[c].order] = "linked"
    BY <1>1, <1>4 DEF MemoryInv, OrdersLinkedOnce, Active
  <2>3. \A x \in seen : x[2] \in Filled
    BY <1>2 DEF MemoryTypeOK
  <2>4. \A x \in seen' : entered'[x[2]] = "linked"
    BY <1>1, <1>4, <2>3 DEF MemoryInv, OrdersLinkedOnce
  <2>5. \A x \in seen' : x[2] \in linked' => x[2] \in linked
    BY <1>1, <1>4 DEF MemoryInv, OrdersLinkedOnce
  <2> QED BY <1>1, <2>1, <2>2, <2>4, <2>5 DEF MemoryInv, OrdersLinkedOnce, Active
<1> QED BY <1>1, <1>3, <1>5, MemoryCountsKept DEF MemoryInv

LEMMA ExitBeginKeeps ==
    ASSUME MemoryInv, NEW c \in Closers, NEW o \in Filled, NEW pct, NEW tells \in BOOLEAN,
           ExitBegins(c, o, pct, tells)
    PROVE  MemoryInv'
<1> DEFINE e == [NoExit EXCEPT !.stage = "episode", !.order = o,
                               !.outcome = OutcomeOf(pct), !.tells = tells]
<1>1. /\ exits[c] = NoExit /\ o \in linked
      /\ exits' = [exits EXCEPT ![c] = e]
      /\ UNCHANGED <<entered, outcome, linked, rule, pattern, seen, trailed>>
  BY DEF ExitBegins
<1>2. MemoryTypeOK
  BY DEF MemoryInv
<1>3. OutcomeOf(pct) \in Outcomes
  BY DEF OutcomeOf, Outcomes
<1>4. e \in ExitState /\ e.stage = "episode" /\ e.order = o
  BY <1>3 DEF ExitState, NoExit
<1> HIDE DEF e
<1>5. exits'[c] = e /\ \A d \in Closers : d # c => exits'[d] = exits[d]
  BY <1>1, <1>2 DEF MemoryTypeOK
<1>6. MemoryTypeOK'
  BY <1>1, <1>2, <1>4 DEF MemoryTypeOK
<1>7. \A x \in seen : x[1] = c => x[2] \notin linked
  BY <1>1 DEF MemoryInv, OrdersLinkedOnce, NoExit
<1>8. OrdersLinkedOnce'
  <2>1. \A d \in Closers : Active(d)' =>
            exits'[d].order \in Filled /\ entered'[exits'[d].order] = "linked"
    BY <1>1, <1>4, <1>5 DEF MemoryInv, OrdersLinkedOnce, Active
  <2>2. \A x \in seen : x[2] \in linked =>
            exits'[x[1]].order = x[2] /\ exits'[x[1]].stage \in {"patternWrite", "unlink"}
    <3>1. \A x \in seen : x[1] \in Closers
      BY <1>2 DEF MemoryTypeOK
    <3> QED BY <1>5, <1>7, <3>1 DEF MemoryInv, OrdersLinkedOnce
  <2>3. \A d \in Closers : exits'[d].stage \in BeforePattern =>
            \A x \in seen : x[1] = d => x[2] # exits'[d].order
    BY <1>1, <1>4, <1>5, <1>7 DEF MemoryInv, OrdersLinkedOnce
  <2> QED BY <1>1, <2>1, <2>2, <2>3 DEF MemoryInv, OrdersLinkedOnce
<1>9. \A d \in Closers : exits'[d].stage = "patternWrite" => exits'[d] = exits[d]
  BY <1>4, <1>5
<1> QED BY <1>1, <1>6, <1>8, <1>9, MemoryCountsKept DEF MemoryInv

(* A closer goes on without touching the pattern or the links.              *)
LEMMA ExitGoesOn ==
    ASSUME MemoryInv, NEW c \in Closers, NEW e \in ExitState,
           exits' = [exits EXCEPT ![c] = e],
           Active(c), e.order = exits[c].order,
           e.stage \in BeforePattern \cup {"unlink"},
           e.stage \in BeforePattern => exits[c].stage \in BeforePattern,
           MemoryTypeOK', UNCHANGED <<entered, linked, pattern, seen>>
    PROVE  MemoryInv'
<1>1. MemoryTypeOK
  BY DEF MemoryInv
<1>2. exits'[c] = e /\ \A d \in Closers : d # c => exits'[d] = exits[d]
  BY <1>1 DEF MemoryTypeOK
<1>3. OrdersLinkedOnce'
  <2>1. \A d \in Closers : Active(d)' =>
            exits'[d].order \in Filled /\ entered'[exits'[d].order] = "linked"
    BY <1>2 DEF MemoryInv, OrdersLinkedOnce, Active
  <2>2. ASSUME NEW x \in seen, x[2] \in linked
        PROVE  exits'[x[1]].order = x[2] /\ exits'[x[1]].stage \in {"patternWrite", "unlink"}
    <3>1. x[1] \in Closers
      BY <1>1 DEF MemoryTypeOK
    <3>2. exits[x[1]].order = x[2] /\ exits[x[1]].stage \in {"patternWrite", "unlink"}
      BY <2>2 DEF MemoryInv, OrdersLinkedOnce
    <3> QED BY <1>2, <3>1, <3>2 DEF BeforePattern
  <2>3. \A d \in Closers : exits'[d].stage \in BeforePattern =>
            \A x \in seen : x[1] = d => x[2] # exits'[d].order
    BY <1>2 DEF MemoryInv, OrdersLinkedOnce
  <2> QED BY <2>1, <2>2, <2>3 DEF MemoryInv, OrdersLinkedOnce
<1>4. \A d \in Closers : exits'[d].stage = "patternWrite" => exits'[d] = exits[d]
  BY <1>2 DEF BeforePattern
<1> QED BY <1>3, <1>4, MemoryCountsKept DEF MemoryInv

LEMMA ExitStepKeeps ==
    ASSUME MemoryInv, NEW c \in Closers,
           EpisodeCloses(c) \/ RuleRead(c) \/ RuleWritten(c) \/ ExitFails(c)
    PROVE  MemoryInv'
<1>1. MemoryTypeOK /\ exits[c] \in ExitState
  BY DEF MemoryInv, MemoryTypeOK
<1>2. CASE EpisodeCloses(c)
  <2> DEFINE e == [exits[c] EXCEPT !.stage = IF exits[c].tells THEN "rule" ELSE "unlink"]
  <2>1. exits' = [exits EXCEPT ![c] = e] /\ exits[c].stage = "episode"
        /\ UNCHANGED <<entered, linked, rule, pattern, seen, trailed>>
    BY <1>2 DEF EpisodeCloses
  <2>2. e \in ExitState /\ e.order = exits[c].order /\ e.stage \in {"rule", "unlink"}
    BY <1>1 DEF ExitState
  <2>3. exits[c].order \in Filled
    BY <2>1 DEF MemoryInv, OrdersLinkedOnce, Active
  <2>4. outcome' \in [Filled -> Outcomes]
    BY <1>1, <1>2, <2>3 DEF EpisodeCloses, MemoryTypeOK, ExitState
  <2> HIDE DEF e
  <2>5. MemoryTypeOK'
    BY <1>1, <2>1, <2>2, <2>4 DEF MemoryTypeOK
  <2> QED BY <2>1, <2>2, <2>5, ExitGoesOn DEF Active, BeforePattern
<1>3. CASE RuleRead(c)
  <2> DEFINE e == [exits[c] EXCEPT !.stage = "ruleWrite", !.n = rule.n, !.wins = rule.wins]
  <2>1. exits' = [exits EXCEPT ![c] = e] /\ exits[c].stage = "rule"
        /\ UNCHANGED <<entered, outcome, linked, rule, pattern, seen, trailed>>
    BY <1>1, <1>3 DEF RuleRead, Reads, MemoryTypeOK, ExitState
  <2>2. e \in ExitState /\ e.order = exits[c].order /\ e.stage = "ruleWrite"
    BY <1>1 DEF ExitState, MemoryTypeOK
  <2> HIDE DEF e
  <2>3. MemoryTypeOK'
    BY <1>1, <2>1, <2>2 DEF MemoryTypeOK
  <2> QED BY <2>1, <2>2, <2>3, ExitGoesOn DEF Active, BeforePattern
<1>4. CASE RuleWritten(c)
  <2> DEFINE e == [exits[c] EXCEPT !.stage = "pattern"]
  <2>1. exits' = [exits EXCEPT ![c] = e] /\ exits[c].stage = "ruleWrite"
        /\ UNCHANGED <<entered, outcome, linked, pattern, seen, trailed>>
    BY <1>4 DEF RuleWritten
  <2>2. e \in ExitState /\ e.order = exits[c].order /\ e.stage = "pattern"
    BY <1>1 DEF ExitState
  <2>3. rule' \in [n : Nat, wins : Nat]
    <3>1. exits[c].n + 1 \in Nat /\ exits[c].wins + 1 \in Nat
      BY <1>1 DEF ExitState
    <3>2. rule \in [n : Nat, wins : Nat]
      BY <1>1 DEF MemoryTypeOK
    <3>3. CASE Wins(c)
      <4>1. rule' = [rule EXCEPT !.n = exits[c].n + 1, !.wins = exits[c].wins + 1]
        BY <1>4, <3>3 DEF RuleWritten, RuleAfter
      <4> QED BY <3>1, <3>2, <4>1
    <3>4. CASE ~Wins(c)
      <4>1. rule' = [rule EXCEPT !.n = exits[c].n + 1, !.wins = @]
        BY <1>4, <3>4 DEF RuleWritten, RuleAfter
      <4> QED BY <3>1, <3>2, <4>1
    <3> QED BY <3>3, <3>4
  <2> HIDE DEF e
  <2>4. MemoryTypeOK'
    BY <1>1, <2>1, <2>2, <2>3 DEF MemoryTypeOK
  <2> QED BY <2>1, <2>2, <2>4, ExitGoesOn DEF Active, BeforePattern
<1>5. CASE ExitFails(c)
  <2> DEFINE e == [exits[c] EXCEPT !.stage = "unlink"]
  <2>1. exits' = [exits EXCEPT ![c] = e] /\ Active(c)
        /\ UNCHANGED <<entered, outcome, linked, rule, pattern, seen, trailed>>
    BY <1>5 DEF ExitFails, Active
  <2>2. e \in ExitState /\ e.order = exits[c].order /\ e.stage = "unlink"
    BY <1>1 DEF ExitState
  <2> HIDE DEF e
  <2>3. MemoryTypeOK'
    BY <1>1, <2>1, <2>2 DEF MemoryTypeOK
  <2> QED BY <2>1, <2>2, <2>3, ExitGoesOn DEF BeforePattern
<1> QED BY <1>2, <1>3, <1>4, <1>5

(* The read of the pattern begins an update that was not counted before.    *)
LEMMA PatternReadKeeps ==
    ASSUME MemoryInv, NEW c \in Closers, PatternRead(c)
    PROVE  MemoryInv'
<1> DEFINE e == [exits[c] EXCEPT !.stage = "patternWrite", !.n = pattern.n, !.wins = pattern.wins]
           x == <<c, exits[c].order, Wins(c)>>
<1>1. MemoryTypeOK /\ exits[c] \in ExitState
  BY DEF MemoryInv, MemoryTypeOK
<1>2. exits' = [exits EXCEPT ![c] = e] /\ exits[c].stage = "pattern"
      /\ seen' = seen \cup {x} /\ UNCHANGED <<entered, outcome, linked, rule, pattern, trailed>>
  BY <1>1 DEF PatternRead, Reads, MemoryTypeOK, ExitState
<1>3. /\ e \in ExitState /\ e.order = exits[c].order /\ e.stage = "patternWrite"
      /\ e.n = pattern.n /\ e.wins = pattern.wins /\ e.outcome = exits[c].outcome
  BY <1>1 DEF ExitState, MemoryTypeOK
<1>4. exits'[c] = e /\ \A d \in Closers : d # c => exits'[d] = exits[d]
  BY <1>1, <1>2 DEF MemoryTypeOK
<1>5. exits[c].order \in Filled /\ entered[exits[c].order] = "linked"
  BY <1>2 DEF MemoryInv, OrdersLinkedOnce, Active
<1>6. x \notin seen
  BY <1>2 DEF MemoryInv, OrdersLinkedOnce, BeforePattern
<1>7. Wins(c) \in BOOLEAN /\ x[1] = c /\ x[2] = exits[c].order /\ x[3] = Wins(c)
      /\ x \in Closers \X Filled \X BOOLEAN
  BY <1>5 DEF Wins
<1> HIDE DEF e, x
<1>8. MemoryTypeOK'
  BY <1>1, <1>2, <1>3, <1>7 DEF MemoryTypeOK
<1>9. OrdersLinkedOnce'
  <2>1. \A d \in Closers : Active(d)' =>
            exits'[d].order \in Filled /\ entered'[exits'[d].order] = "linked"
    BY <1>2, <1>3, <1>4, <1>5 DEF MemoryInv, OrdersLinkedOnce, Active
  <2>2. \A y \in seen' : entered'[y[2]] = "linked"
    BY <1>2, <1>5, <1>7 DEF MemoryInv, OrdersLinkedOnce
  <2>3. ASSUME NEW y \in seen', y[2] \in linked
        PROVE  exits'[y[1]].order = y[2] /\ exits'[y[1]].stage \in {"patternWrite", "unlink"}
    <3>1. CASE y = x
      BY <3>1, <1>3, <1>4, <1>7
    <3>2. CASE y \in seen
      <4>1. y[1] \in Closers
        BY <1>1, <3>2 DEF MemoryTypeOK
      <4>2. exits[y[1]].order = y[2] /\ exits[y[1]].stage \in {"patternWrite", "unlink"}
        BY <2>3, <3>2 DEF MemoryInv, OrdersLinkedOnce
      <4> QED BY <1>2, <1>4, <4>1, <4>2
    <3> QED BY <1>2, <3>1, <3>2
  <2>4. ASSUME NEW d \in Closers, exits'[d].stage \in BeforePattern,
               NEW y \in seen', y[1] = d
        PROVE  y[2] # exits'[d].order
    <3>1. d # c /\ exits'[d] = exits[d]
      BY <1>3, <1>4, <2>4 DEF BeforePattern
    <3>2. y \in seen
      BY <1>2, <1>7, <2>4, <3>1
    <3> QED BY <2>4, <3>1, <3>2 DEF MemoryInv, OrdersLinkedOnce
  <2> QED BY <1>2, <2>1, <2>2, <2>3, <2>4 DEF MemoryInv, OrdersLinkedOnce
<1>10. /\ IsFiniteSet(seen) /\ Cardinality(seen) \in Nat /\ Cardinality(WinsIn(seen)) \in Nat
       /\ pattern.n \in Nat /\ pattern.wins \in Nat
  BY <1>1, CountsOfUpdates DEF MemoryInv, MemoryTypeOK
<1>11. /\ IsFiniteSet(seen') /\ Cardinality(seen') = Cardinality(seen) + 1
       /\ Cardinality(WinsIn(seen')) = Cardinality(WinsIn(seen)) + IF Wins(c) THEN 1 ELSE 0
  BY <1>2, <1>6, <1>7, <1>10, UpdateCounts
<1>12. PatternEarnsValidity'
  <2>1. MinOccurrences \in Nat
    BY MemoryAssumption
  <2>2. /\ pattern.n <= Cardinality(seen) /\ pattern.wins <= Cardinality(WinsIn(seen))
        /\ pattern.valid => Cardinality(seen) >= MinOccurrences
    BY DEF MemoryInv, PatternEarnsValidity, WinsIn
  <2>3. /\ pattern.n <= Cardinality(seen') /\ pattern.wins <= Cardinality(WinsIn(seen'))
        /\ pattern.valid => Cardinality(seen') >= MinOccurrences
    BY <1>10, <1>11, <2>1, <2>2
  <2> QED BY <1>2, <2>3 DEF PatternEarnsValidity, WinsIn
<1>13. ReadsAreBehind'
  <2>1. ASSUME NEW d \in Closers, exits'[d].stage = "patternWrite"
        PROVE  /\ exits'[d].n + 1 <= Cardinality(seen')
               /\ Wins(d)' => exits'[d].wins + 1 <= Cardinality(WinsIn(seen'))
    <3>1. CASE d = c
      <4>1. exits'[d].n = pattern.n /\ exits'[d].wins = pattern.wins /\ Wins(d)' = Wins(c)
        BY <1>3, <1>4, <3>1 DEF Wins
      <4>2. pattern.n <= Cardinality(seen) /\ pattern.wins <= Cardinality(WinsIn(seen))
        BY DEF MemoryInv, PatternEarnsValidity, WinsIn
      <4> QED BY <1>10, <1>11, <4>1, <4>2
    <3>2. CASE d # c
      <4>1. exits'[d] = exits[d] /\ Wins(d)' = Wins(d) /\ exits[d] \in ExitState
        BY <1>1, <1>4, <3>2 DEF Wins, MemoryTypeOK
      <4>2. /\ exits[d].n + 1 <= Cardinality(seen)
            /\ Wins(d) => exits[d].wins + 1 <= Cardinality(WinsIn(seen))
        BY <2>1, <4>1 DEF MemoryInv, ReadsAreBehind
      <4> QED BY <1>10, <1>11, <4>1, <4>2 DEF ExitState
    <3> QED BY <3>1, <3>2
  <2> QED BY <2>1 DEF ReadsAreBehind
<1> QED BY <1>8, <1>9, <1>11, <1>12, <1>13 DEF MemoryInv

LEMMA PatternWriteKeeps ==
    ASSUME MemoryInv, NEW c \in Closers, PatternWritten(c)
    PROVE  MemoryInv'
<1> DEFINE e == [exits[c] EXCEPT !.stage = "unlink"]
<1>1. MemoryTypeOK /\ exits[c] \in ExitState
  BY DEF MemoryInv, MemoryTypeOK
<1>2. exits' = [exits EXCEPT ![c] = e] /\ exits[c].stage = "patternWrite"
      /\ pattern' = PatternAfter(c) /\ UNCHANGED <<entered, outcome, linked, rule, seen, trailed>>
  BY DEF PatternWritten
<1>3. e \in ExitState /\ e.order = exits[c].order /\ e.stage = "unlink"
  BY <1>1 DEF ExitState
<1> HIDE DEF e
<1>4. exits'[c] = e /\ \A d \in Closers : d # c => exits'[d] = exits[d]
  BY <1>1, <1>2 DEF MemoryTypeOK
<1>5. /\ exits[c].n + 1 <= Cardinality(seen)
      /\ Wins(c) => exits[c].wins + 1 <= Cardinality(WinsIn(seen))
  BY <1>2 DEF MemoryInv, ReadsAreBehind
<1>6. Cardinality(seen) \in Nat /\ Cardinality(WinsIn(seen)) \in Nat /\ MinOccurrences \in Nat
  BY CountsOfUpdates, MemoryAssumption DEF MemoryInv
<1>7. /\ pattern'.n = exits[c].n + 1
      /\ pattern'.wins = IF Wins(c) THEN exits[c].wins + 1 ELSE pattern.wins
      /\ pattern'.valid = (pattern.valid \/ exits[c].n + 1 >= MinOccurrences)
      /\ pattern' \in [n : Nat, wins : Nat, valid : BOOLEAN]
  BY <1>1, <1>2 DEF PatternAfter, ExitState, MemoryTypeOK
<1>8. MemoryTypeOK'
  BY <1>1, <1>2, <1>3, <1>7 DEF MemoryTypeOK
<1>9. PatternEarnsValidity'
  BY <1>1, <1>2, <1>5, <1>6, <1>7 DEF MemoryInv, PatternEarnsValidity, WinsIn, ExitState
<1>10. ReadsAreBehind'
  <2>1. \A d \in Closers : exits'[d].stage = "patternWrite" => exits'[d] = exits[d]
    BY <1>3, <1>4
  <2> QED BY <1>2, <2>1 DEF MemoryInv, ReadsAreBehind, Wins
<1>11. OrdersLinkedOnce'
  <2>1. \A d \in Closers : exits'[d].order = exits[d].order /\ (Active(d)' => Active(d))
           /\ (exits'[d].stage \in BeforePattern => exits[d].stage \in BeforePattern)
           /\ (exits[d].stage \in {"patternWrite", "unlink"} =>
                  exits'[d].stage \in {"patternWrite", "unlink"})
    BY <1>2, <1>3, <1>4 DEF Active, BeforePattern
  <2>2. \A x \in seen : x[1] \in Closers
    BY <1>1 DEF MemoryTypeOK
  <2> QED BY <1>2, <2>1, <2>2 DEF MemoryInv, OrdersLinkedOnce
<1> QED BY <1>2, <1>8, <1>9, <1>10, <1>11 DEF MemoryInv

LEMMA UnlinkKeeps ==
    ASSUME MemoryInv, NEW c \in Closers, ExitUnlinks(c)
    PROVE  MemoryInv'
<1>1. MemoryTypeOK
  BY DEF MemoryInv
<1>2. exits' = [exits EXCEPT ![c] = NoExit] /\ exits[c].stage = "unlink"
      /\ linked' = linked \ {exits[c].order}
      /\ UNCHANGED <<entered, outcome, rule, pattern, seen, trailed>>
  BY DEF ExitUnlinks
<1>3. NoExit \in ExitState /\ NoExit.stage = "idle"
  BY DEF NoExit, ExitState, Outcomes
<1>4. exits'[c] = NoExit /\ \A d \in Closers : d # c => exits'[d] = exits[d]
  BY <1>1, <1>2 DEF MemoryTypeOK
<1>5. MemoryTypeOK'
  BY <1>1, <1>2, <1>3 DEF MemoryTypeOK
<1>6. OrdersLinkedOnce'
  <2>1. \A d \in Closers : Active(d)' =>
            exits'[d].order \in Filled /\ entered'[exits'[d].order] = "linked"
    BY <1>2, <1>3, <1>4 DEF MemoryInv, OrdersLinkedOnce, Active
  <2>2. ASSUME NEW x \in seen, x[2] \in linked'
        PROVE  exits'[x[1]].order = x[2] /\ exits'[x[1]].stage \in {"patternWrite", "unlink"}
    <3>1. x[1] \in Closers
      BY <1>1 DEF MemoryTypeOK
    <3>2. exits[x[1]].order = x[2] /\ exits[x[1]].stage \in {"patternWrite", "unlink"}
      BY <1>2, <2>2 DEF MemoryInv, OrdersLinkedOnce
    <3>3. x[1] # c
      BY <1>2, <2>2, <3>2
    <3> QED BY <1>4, <3>1, <3>2, <3>3
  <2>3. \A d \in Closers : exits'[d].stage \in BeforePattern =>
            \A x \in seen : x[1] = d => x[2] # exits'[d].order
    BY <1>3, <1>4 DEF MemoryInv, OrdersLinkedOnce, BeforePattern
  <2> QED BY <1>2, <2>1, <2>2, <2>3 DEF MemoryInv, OrdersLinkedOnce
<1>7. \A d \in Closers : exits'[d].stage = "patternWrite" => exits'[d] = exits[d]
  BY <1>3, <1>4
<1> QED BY <1>2, <1>5, <1>6, <1>7, MemoryCountsKept DEF MemoryInv

LEMMA MemoryInvariant == MemorySpec => []MemoryInv
<1>1. MemoryInit => MemoryInv
  BY MemoryInitOK
<1>2. MemoryInv /\ [MemoryNext]_memoryVars => MemoryInv'
  <2> SUFFICES ASSUME MemoryInv, [MemoryNext]_memoryVars
               PROVE  MemoryInv'
    OBVIOUS
  <2>1. ASSUME NEW o \in Filled,
               EntryStored(o) \/ EntryLinked(o) \/ EntryFails(o) \/ TrailingExit(o)
        PROVE  MemoryInv'
    BY <2>1, EntryKeeps
  <2>2. ASSUME NEW c \in Closers, NEW o \in Filled, NEW pct \in Returns, NEW tells \in BOOLEAN,
               ExitBegins(c, o, pct, tells)
        PROVE  MemoryInv'
    BY <2>2, ExitBeginKeeps
  <2>3. ASSUME NEW c \in Closers,
               EpisodeCloses(c) \/ RuleRead(c) \/ RuleWritten(c) \/ ExitFails(c)
        PROVE  MemoryInv'
    BY <2>3, ExitStepKeeps
  <2>4. ASSUME NEW c \in Closers, PatternRead(c)
        PROVE  MemoryInv'
    BY <2>4, PatternReadKeeps
  <2>5. ASSUME NEW c \in Closers, PatternWritten(c)
        PROVE  MemoryInv'
    BY <2>5, PatternWriteKeeps
  <2>6. ASSUME NEW c \in Closers, ExitUnlinks(c)
        PROVE  MemoryInv'
    BY <2>6, UnlinkKeeps
  <2>7. CASE UNCHANGED memoryVars
    BY <2>7 DEF memoryVars, MemoryInv, MemoryTypeOK, OrdersLinkedOnce, ReadsAreBehind,
       PatternEarnsValidity, Active, Wins
  <2> QED BY <2>1, <2>2, <2>3, <2>4, <2>5, <2>6, <2>7, Zenon DEF MemoryNext
<1> QED BY <1>1, <1>2, PTL DEF MemorySpec

(* However updates of a pattern overlap, whatever they lose: it is called   *)
(* validated only when it was observed often enough, and no win is invented.*)
THEOREM PatternsEarnValidity == MemorySpec => []PatternEarnsValidity
<1>1. MemoryInv => PatternEarnsValidity
  BY DEF MemoryInv
<1> QED BY <1>1, MemoryInvariant, PTL
=============================================================================
