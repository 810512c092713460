---------------------------- MODULE Aegis_proofs ----------------------------
(***************************************************************************)
(* The risk manager, the portfolio and the account, for every number of    *)
(* symbols, coroutines and days, every price and every limit.              *)
(*                                                                         *)
(* MirrorsAgree and BreakerLatched follow from Shape: which fields the     *)
(* records have, whatever their values.                                    *)
(*                                                                         *)
(* The rest is about the values. The totals of the portfolio are sums over *)
(* a sequence of positions, defined by recursion (RunningSums in Aegis);   *)
(* SumIs characterises them, and says what appending, replacing and        *)
(* removing an element does to a sum. BooksInv is inductive: the types,    *)
(* what an operation under way carries, and that cash and entries add up.  *)
(* MatchInv adds that the portfolio and the account differ by what the     *)
(* operations under way have not told yet; LimitsInv that an approved      *)
(* order fits the portfolio until another one is reported.                 *)
(*                                                                         *)
(* There is no induction here: a property of all n is proved by looking at *)
(* the smallest n that lacks it (SmallestOf).                              *)
(***************************************************************************)
EXTENDS Aegis, SequenceTheorems, FiniteSetTheorems, TLAPS

RmFields == {"balance", "dayStart", "dayPnl", "count", "breaker", "lastReset"}
PfFields == {"total", "cash", "peak", "positions", "dayStart", "dayPnl", "today",
             "weekPnl", "hour", "losses"}

RmShape(r) == r = [f \in RmFields |-> r[f]]
PfShape(q) == q = [f \in PfFields |-> q[f]]

ActShape == act = [a \in Actors |-> act[a]]

Shape == RmShape(rm) /\ PfShape(pf) /\ ActShape

(* The midnight reset keeps the fields, and leaves the two profits of the   *)
(* day equal when they were (risk.py:229-238, portfolio.py:298-304).        *)
LEMMA ResetKeeps ==
    ASSUME Shape
    PROVE  /\ RmShape(DayReset(rm)) /\ PfShape(PortfolioReset(rm, pf))
           /\ DayReset(rm).breaker = rm.breaker
           /\ MirrorsAgree => DayReset(rm).dayPnl = PortfolioReset(rm, pf).dayPnl
  BY DEF Shape, RmShape, PfShape, RmFields, PfFields, DayReset, PortfolioReset, ResetDaily, MirrorsAgree

(* Bringing the total up to date changes nothing but the total and the peak *)
(* (portfolio.py:289-296).                                                  *)
LEMMA UpdateKeeps ==
    ASSUME NEW q, PfShape(q)
    PROVE  PfShape(UpdateTotalValue(q)) /\ UpdateTotalValue(q).dayPnl = q.dayPnl
  <1> DEFINE total == q.cash + TotalExposure(q)
             peak == MaxOf(q.peak, total)
  <1>1. UpdateTotalValue(q) = [q EXCEPT !.total = total, !.peak = peak]
    BY DEF UpdateTotalValue
  <1> HIDE DEF total, peak
  <1>2. QED BY <1>1 DEF PfShape, PfFields

(* An entry leaves the profit of the day alone (portfolio.py:206-217).      *)
LEMMA AddKeeps ==
    ASSUME NEW p, PfShape(pf)
    PROVE  PfShape(AddPosition(pf, p)) /\ AddPosition(pf, p).dayPnl = pf.dayPnl
  <1> DEFINE new == Append(pf.positions, p)
             cash == pf.cash - EntryValue(p)
             today == pf.today + 1
             hour == pf.hour + 1
             q == [pf EXCEPT !.positions = new, !.cash = cash, !.today = today,
                             !.hour = hour]
  <1>1. AddPosition(pf, p) = UpdateTotalValue(q)
    BY DEF AddPosition
  <1>2. PfShape(q) /\ q.dayPnl = pf.dayPnl
    <2> HIDE DEF new, cash, today, hour
    <2>1. QED BY DEF PfShape, PfFields
  <1> HIDE DEF q
  <1>3. QED BY <1>1, <1>2, UpdateKeeps

(* A close adds its profit to the profit of the day (portfolio.py:240-261). *)
LEMMA RemoveKeeps ==
    ASSUME NEW s, NEW price, PfShape(pf)
    PROVE  /\ PfShape(RemovePosition(pf, s, price))
           /\ RemovePosition(pf, s, price).dayPnl = pf.dayPnl + ClosedPnl(pf, s, price)
  <1> DEFINE i == IndexOf(pf, s)
             pnl == ClosedPnl(pf, s, price)
             cash == pf.cash + EntryValue(pf.positions[i]) + pnl
             losses == IF pnl < 0 THEN pf.losses + 1 ELSE 0
             rest == RemoveAt(pf.positions, i)
             day1 == pf.dayPnl + pnl
             week == pf.weekPnl + pnl
             q == [pf EXCEPT !.cash = cash, !.dayPnl = day1, !.weekPnl = week,
                             !.losses = losses, !.positions = rest]
  <1>1. RemovePosition(pf, s, price) = UpdateTotalValue(q)
    BY DEF RemovePosition
  <1>2. PfShape(q) /\ q.dayPnl = day1
    <2> HIDE DEF i, pnl, cash, losses, rest, day1, week
    <2>1. QED BY DEF PfShape, PfFields
  <1> HIDE DEF q
  <1>3. QED BY <1>1, <1>2, UpdateKeeps

-----------------------------------------------------------------------------
(* What a decision does to the records, whatever it decides.                *)
LEMMA DecideKeeps ==
    ASSUME Shape, NEW a \in Actors, NEW o, NEW balance,
           NEW approved \in {"toolApproved", "signalApproved"},
           Decide(a, o, balance, approved)
    PROVE  /\ Shape'
           /\ MirrorsAgree => MirrorsAgree'
           /\ rm.breaker => rm'.breaker /\ act' = act
  <1> DEFINE r == DayReset(rm)
             q == PortfolioReset(rm, pf)
             trips == TripsBreaker(r, q, o)
  <1>1. rm' = [r EXCEPT !.breaker = trips] /\ pf' = q
    BY DEF Decide
  <1>2. /\ RmShape(r) /\ PfShape(q) /\ r.breaker = rm.breaker
        /\ MirrorsAgree => r.dayPnl = q.dayPnl
    BY ResetKeeps
  <1>3. ActShape'
    <2>1. \/ act' = [act EXCEPT ![a] = [NoAct EXCEPT !.stage = approved, !.sym = o.sym,
                                          !.side = o.side, !.qty = o.qty,
                                          !.price = o.price, !.stop = o.stop]]
          \/ act' = act
      BY DEF Decide
    <2> DEFINE new == [NoAct EXCEPT !.stage = approved, !.sym = o.sym, !.side = o.side,
                                    !.qty = o.qty, !.price = o.price, !.stop = o.stop]
    <2> HIDE DEF new
    <2>2. act' = [act EXCEPT ![a] = new] \/ act' = act
      BY <2>1 DEF new
    <2>3. QED BY <2>2 DEF Shape, ActShape
  <1>4. rm.breaker => trips
    BY <1>2 DEF TripsBreaker
  <1>5. rm.breaker => act' = act
    BY <1>2 DEF Decide, Approves
  <1> HIDE DEF r, q, trips
  <1>6. Shape'
    BY <1>1, <1>2, <1>3 DEF Shape, RmShape, PfShape, RmFields, PfFields
  <1>7. MirrorsAgree => MirrorsAgree'
    BY <1>1, <1>2 DEF MirrorsAgree, RmShape, RmFields
  <1>8. rm.breaker => rm'.breaker
    BY <1>1, <1>2, <1>4 DEF RmShape, RmFields
  <1>9. QED BY <1>5, <1>6, <1>7, <1>8

(* A new manager and a new portfolio have their fields, and no profit.      *)
LEMMA InitShape == Init => Shape /\ MirrorsAgree
  <1>1. SUFFICES ASSUME Init PROVE Shape /\ MirrorsAgree
    OBVIOUS
  <1>2. rm = [balance |-> InitialBalance, dayStart |-> InitialBalance, dayPnl |-> 0,
              count |-> 0, breaker |-> FALSE, lastReset |-> 0]
    BY <1>1 DEF Init
  <1>3. pf = [total |-> InitialBalance, cash |-> InitialBalance, peak |-> InitialBalance,
              positions |-> <<>>, dayStart |-> InitialBalance, dayPnl |-> 0,
              today |-> 0, weekPnl |-> 0, hour |-> 0, losses |-> 0]
    BY <1>1 DEF Init
  <1>4. RmShape(rm)
    BY <1>2 DEF RmShape, RmFields
  <1>5. PfShape(pf)
    BY <1>3 DEF PfShape, PfFields
  <1>6. MirrorsAgree
    BY <1>2, <1>3 DEF MirrorsAgree
  <1>7. act = [a \in Actors |-> NoAct]
    BY <1>1 DEF Init
  <1>8. ActShape
    BY <1>7 DEF ActShape
  <1>9. QED BY <1>4, <1>5, <1>6, <1>8 DEF Shape

(* What every step keeps: the shape, the agreement of the two profits, the  *)
(* breaker once it is on, and, when it is on, that nothing is approved.     *)
Kept == Shape' /\ (MirrorsAgree => MirrorsAgree')
               /\ (rm.breaker => rm'.breaker /\ ~Approval)

(* A step that touches neither the manager's flags nor the portfolio, and   *)
(* moves at most one actor, one that is busy or that stays unapproved.      *)
LEMMA MoveKeeps ==
    ASSUME Shape, NEW a \in Actors, NEW to,
           act' = [act EXCEPT ![a] = to], act[a] # NoAct \/ ~Approved(to.stage)
    PROVE  ActShape' /\ ~Approval
  <1>1. \A b \in Actors : act'[b] = IF b = a THEN to ELSE act[b]
    BY DEF Shape, ActShape
  <1>2. ~Approved(NoAct.stage)
    BY DEF NoAct, Approved
  <1>3. ~Approval
    BY <1>1, <1>2 DEF Approval
  <1>4. QED BY <1>3 DEF Shape, ActShape

(* A step that moves no actor approves nothing.                             *)
LEMMA StillKeeps ==
    ASSUME Shape, UNCHANGED act
    PROVE  ActShape' /\ ~Approval
  <1>1. ~Approved(NoAct.stage)
    BY DEF NoAct, Approved
  <1>2. ~Approval
    BY <1>1 DEF Approval
  <1>3. ActShape'
    BY DEF Shape, ActShape
  <1>4. QED BY <1>2, <1>3

(* The fields of the manager that the books and syncs write.                *)
LEMMA ManagerKeeps ==
    ASSUME RmShape(rm), NEW count, NEW balance, NEW pnl
    PROVE  /\ LET r == [rm EXCEPT !.count = count]
              IN  RmShape(r) /\ r.breaker = rm.breaker /\ r.dayPnl = rm.dayPnl
           /\ LET r == [rm EXCEPT !.count = count, !.balance = balance]
              IN  RmShape(r) /\ r.breaker = rm.breaker /\ r.dayPnl = rm.dayPnl
           /\ LET r == [rm EXCEPT !.count = count, !.dayPnl = @ + pnl]
              IN  RmShape(r) /\ r.breaker = rm.breaker /\ r.dayPnl = rm.dayPnl + pnl
  BY DEF RmShape, RmFields

(* An actor at a stage of an operation is not idle.                         *)
LEMMA BusyAt ==
    ASSUME NEW a, NEW stage, At(a, stage), stage # "idle"
    PROVE  act[a] # NoAct
  BY DEF At, NoAct

(* Returning or raising approves nothing.                                   *)
LEMMA FinishKeeps ==
    ASSUME Shape, NEW a \in Actors, Finish(a)
    PROVE  ActShape' /\ ~Approval
  <1>1. ~Approved(NoAct.stage)
    BY DEF NoAct, Approved
  <1>2. QED BY <1>1, MoveKeeps DEF Finish

(* Every action in turn.                                                    *)
LEMMA NextKeeps == Shape /\ [Next]_vars => Kept
  <1>1. SUFFICES ASSUME Shape, [Next]_vars PROVE Kept
    OBVIOUS
  <1>2. RmShape(rm) /\ PfShape(pf) /\ ActShape
    BY <1>1 DEF Shape
  <1>3. ASSUME NEW a \in Actors, NEW o \in Orders, ToolAsks(a, o) PROVE Kept
    <2>1. Decide(a, o, rm.balance, "toolApproved")
      BY <1>3 DEF ToolAsks
    <2>2. QED BY <1>1, <2>1, DecideKeeps, StillKeeps DEF Kept
  <1>4. ASSUME NEW a \in Actors, NEW p \in Prices, ToolFills(a, p) PROVE Kept
    <2> DEFINE to == [act[a] EXCEPT !.stage = "toolFilled", !.paid = p]
    <2>1. act' = [act EXCEPT ![a] = to]
      BY <1>4 DEF ToolFills
    <2>2. act[a] # NoAct
      BY <1>4, BusyAt DEF ToolFills
    <2> HIDE DEF to
    <2>3. ActShape' /\ ~Approval
      BY <1>1, <2>1, <2>2, MoveKeeps
    <2>4. UNCHANGED <<rm, pf>>
      BY <1>4 DEF ToolFills
    <2>5. QED BY <1>2, <2>3, <2>4 DEF Kept, Shape, RmShape, PfShape, MirrorsAgree
  <1>5. ASSUME NEW a \in Actors, ToolOpens(a) PROVE Kept
    <2> DEFINE to == [act[a] EXCEPT !.stage = "toolOpened"]
    <2>1. act' = [act EXCEPT ![a] = to]
      BY <1>5 DEF ToolOpens, Goes
    <2>2. act[a] # NoAct
      BY <1>5, BusyAt DEF ToolOpens
    <2> HIDE DEF to
    <2>3. ActShape' /\ ~Approval
      BY <1>1, <2>1, <2>2, MoveKeeps
    <2>4. UNCHANGED <<rm, pf>>
      BY <1>5 DEF ToolOpens
    <2>5. QED BY <1>2, <2>3, <2>4 DEF Kept, Shape, RmShape, PfShape, MirrorsAgree
  <1>6. ASSUME NEW a \in Actors, ToolBooks(a) PROVE Kept
    <2> DEFINE p == Entry(act[a])
               count == Len(pf'.positions)
    <2>1. pf' = AddPosition(pf, p) /\ rm' = [rm EXCEPT !.count = count] /\ Finish(a)
      BY <1>6 DEF ToolBooks
    <2> HIDE DEF p, count
    <2>2. PfShape(pf') /\ pf'.dayPnl = pf.dayPnl
      BY <1>2, <2>1, AddKeeps
    <2>3. RmShape(rm') /\ rm'.breaker = rm.breaker /\ rm'.dayPnl = rm.dayPnl
      BY <1>2, <2>1, ManagerKeeps
    <2>4. ActShape' /\ ~Approval
      BY <1>1, <2>1, FinishKeeps
    <2>5. QED BY <2>2, <2>3, <2>4 DEF Kept, Shape, RmShape, PfShape, MirrorsAgree
  <1>7. ASSUME NEW a \in Actors, NEW s \in Signals, SignalAsks(a, s) PROVE Kept
    <2> DEFINE o == [sym |-> s.sym, side |-> s.side, qty |-> SafeSize(s),
                     price |-> s.price, stop |-> s.stop]
    <2>1. Decide(a, o, BalanceGiven, "signalApproved")
      BY <1>7 DEF SignalAsks
    <2> HIDE DEF o
    <2>2. QED BY <1>1, <2>1, DecideKeeps, StillKeeps DEF Kept
  <1>8. ASSUME NEW a \in Actors, SignalFills(a) PROVE Kept
    <2> DEFINE to == [act[a] EXCEPT !.stage = "signalFilled"]
    <2>1. act' = [act EXCEPT ![a] = to]
      BY <1>8 DEF SignalFills, Goes
    <2>2. act[a] # NoAct
      BY <1>8, BusyAt DEF SignalFills
    <2> HIDE DEF to
    <2>3. ActShape' /\ ~Approval
      BY <1>1, <2>1, <2>2, MoveKeeps
    <2>4. UNCHANGED <<rm, pf>>
      BY <1>8 DEF SignalFills
    <2>5. QED BY <1>2, <2>3, <2>4 DEF Kept, Shape, RmShape, PfShape, MirrorsAgree
  <1>9. ASSUME NEW a \in Actors, SignalSyncs(a) PROVE Kept
    <2>1. rm' = Synced(rm, rows, free) /\ Finish(a) /\ UNCHANGED pf
      BY <1>9 DEF SignalSyncs
    <2>2. RmShape(rm') /\ rm'.breaker = rm.breaker /\ rm'.dayPnl = rm.dayPnl
      BY <1>2, <2>1, ManagerKeeps DEF Synced
    <2>3. ActShape' /\ ~Approval
      BY <1>1, <2>1, FinishKeeps
    <2>4. QED BY <1>2, <2>1, <2>2, <2>3 DEF Kept, Shape, RmShape, PfShape, MirrorsAgree
  <1>10. ASSUME NEW a \in Actors, NEW s \in Symbols, NEW p \in Prices, ToolCloses(a, s, p)
         PROVE Kept
    <2> DEFINE to == [NoAct EXCEPT !.stage = "closed", !.sym = s, !.paid = p,
                                   !.qty = rows[s].qty, !.pnl = RowPnl(rows[s], p)]
    <2>1. act' = [act EXCEPT ![a] = to]
      BY <1>10 DEF ToolCloses
    <2>2. to.stage = "closed"
      BY DEF NoAct
    <2> HIDE DEF to
    <2>3. ActShape' /\ ~Approval
      BY <1>1, <2>1, <2>2, MoveKeeps DEF Approved
    <2>4. UNCHANGED <<rm, pf>>
      BY <1>10 DEF ToolCloses
    <2>5. QED BY <1>2, <2>3, <2>4 DEF Kept, Shape, RmShape, PfShape, MirrorsAgree
  <1>11. ASSUME NEW a \in Actors, ToolReports(a) PROVE Kept
    <2> DEFINE o == act[a]
               pnl == ClosedPnl(pf, o.sym, o.paid)
               removed == RemovePosition(pf, o.sym, o.paid)
               count == Len(pf'.positions)
               same == Len(pf.positions)
    <2>1. \/ pf' = removed /\ rm' = [rm EXCEPT !.count = count, !.dayPnl = @ + pnl]
          \/ pf' = pf /\ rm' = [rm EXCEPT !.count = same]
      BY <1>11 DEF ToolReports
    <2>2. PfShape(removed) /\ removed.dayPnl = pf.dayPnl + pnl
      BY <1>2, RemoveKeeps
    <2> HIDE DEF o, pnl, removed, count, same
    <2>3. /\ RmShape(rm') /\ PfShape(pf') /\ rm'.breaker = rm.breaker
          /\ MirrorsAgree => MirrorsAgree'
      <3>1. CASE pf' = removed /\ rm' = [rm EXCEPT !.count = count, !.dayPnl = @ + pnl]
        <4>1. RmShape(rm') /\ rm'.breaker = rm.breaker /\ rm'.dayPnl = rm.dayPnl + pnl
          BY <1>2, <3>1, ManagerKeeps
        <4>2. PfShape(pf') /\ pf'.dayPnl = pf.dayPnl + pnl
          BY <2>2, <3>1
        <4>3. QED BY <4>1, <4>2 DEF MirrorsAgree
      <3>2. CASE pf' = pf /\ rm' = [rm EXCEPT !.count = same]
        <4>1. RmShape(rm') /\ rm'.breaker = rm.breaker /\ rm'.dayPnl = rm.dayPnl
          BY <1>2, <3>2, ManagerKeeps
        <4>2. QED BY <1>2, <3>2, <4>1 DEF MirrorsAgree
      <3>3. QED BY <2>1, <3>1, <3>2
    <2>4. ActShape' /\ ~Approval
      BY <1>1, <1>11, FinishKeeps DEF ToolReports
    <2>5. QED BY <2>3, <2>4 DEF Kept, Shape, RmShape, PfShape
  <1>12. ASSUME NEW a \in Actors, GivesUp(a) PROVE Kept
    <2>1. Finish(a) /\ UNCHANGED <<rm, pf>>
      BY <1>12 DEF GivesUp
    <2>2. ActShape' /\ ~Approval
      BY <1>1, <2>1, FinishKeeps
    <2>3. QED BY <1>2, <2>1, <2>2 DEF Kept, Shape, RmShape, PfShape, MirrorsAgree
  <1>13. ASSUME NEW s \in Symbols, NEW p \in Prices, TrailingCloses(s, p) PROVE Kept
    <2> DEFINE count == Cardinality({t \in Symbols : rows'[t] # NoRow})
               balance == free'
    <2>1. rm' = [rm EXCEPT !.count = count, !.balance = balance] /\ UNCHANGED <<act, pf>>
      BY <1>13 DEF TrailingCloses, Synced
    <2> HIDE DEF count, balance
    <2>2. RmShape(rm') /\ rm'.breaker = rm.breaker /\ rm'.dayPnl = rm.dayPnl
      BY <1>2, <2>1, ManagerKeeps
    <2>3. ActShape' /\ ~Approval
      BY <1>1, <2>1, StillKeeps
    <2>4. QED BY <1>2, <2>1, <2>2, <2>3 DEF Kept, Shape, RmShape, PfShape, MirrorsAgree
  <1>14. ASSUME UNCHANGED <<act, pf, rm>> PROVE Kept
    <2>1. ActShape' /\ ~Approval
      BY <1>1, <1>14, StillKeeps
    <2>2. QED BY <1>2, <1>14, <2>1 DEF Kept, Shape, RmShape, PfShape, MirrorsAgree
  <1>15. ASSUME NEW s \in Symbols, NEW p \in Prices, CloseAllCloses(s, p) PROVE Kept
    BY <1>14, <1>15 DEF CloseAllCloses
  <1>16. ASSUME Midnight PROVE Kept
    BY <1>14, <1>16 DEF Midnight
  <1>17. ASSUME UNCHANGED vars PROVE Kept
    BY <1>14, <1>17 DEF vars
  <1>18. QED
    BY <1>1, <1>3, <1>4, <1>5, <1>6, <1>7, <1>8, <1>9, <1>10, <1>11, <1>12, <1>13,
       <1>15, <1>16, <1>17 DEF Next

-----------------------------------------------------------------------------
(* The manager's and the portfolio's profit of the day never part, for any  *)
(* limits, prices and number of actors (risk.py:201-204, 229-238).          *)
THEOREM MirrorsAgreeCorrect == Spec => []MirrorsAgree
  <1>1. (Shape /\ MirrorsAgree) /\ [Next]_vars => (Shape /\ MirrorsAgree)'
    BY NextKeeps DEF Kept
  <1>2. QED BY <1>1, InitShape, PTL DEF Spec

(* No sequence of calls takes the circuit breaker back, and none gets an    *)
(* order approved while it is on (risk.py:252-255, 324-351).                *)
THEOREM BreakerLatchedCorrect == Spec => BreakerLatched
  <1>1. Shape /\ [Next]_vars => Shape'
    BY NextKeeps DEF Kept
  <1>2. Shape /\ [Next]_vars => [rm.breaker => rm'.breaker /\ ~Approval]_vars
    BY NextKeeps DEF Kept
  <1>3. QED BY <1>1, <1>2, InitShape, PTL DEF Spec, BreakerLatched

-----------------------------------------------------------------------------
(* Sums over sequences.  There is no induction over their length here: that *)
(* a counterexample would have a smallest length or index takes its place.  *)

LEMMA SmallestOf ==
    ASSUME NEW P \in SUBSET Nat, P # {}
    PROVE  \E m \in P : \A k \in P : m <= k
  <1>1. PICK m \in P : \A k \in P : <<k, m>> \notin OpToRel(<, Nat)
    BY WFMin, NatLessThanWellFounded, Zenon
  <1>2. m \in Nat /\ \A k \in P : k \in Nat /\ ~(k < m)
    BY <1>1, Zenon DEF OpToRel
  <1>3. QED BY <1>2

(* The recursion that defines the running sums has a solution.              *)
LEMMA RunningSumsStep ==
    ASSUME NEW v, Len(v) \in Nat
    PROVE  /\ RunningSums(v)[0] = 0
           /\ \A i \in 1 .. Len(v) : RunningSums(v)[i] = RunningSums(v)[i - 1] + v[i]
  <1> DEFINE Steps(f, n) == [i \in 0 .. n |-> IF i = 0 THEN 0 ELSE f[i - 1] + v[i]]
             Unsolved == {n \in Nat : ~\E f : f = Steps(f, n)}
  <1>1. Unsolved = {}
    <2> SUFFICES ASSUME Unsolved # {} PROVE FALSE
      OBVIOUS
    <2>1. PICK m \in Unsolved : \A k \in Unsolved : m <= k
      <3>1. Unsolved \in SUBSET Nat
        OBVIOUS
      <3> HIDE DEF Unsolved
      <3>2. QED BY <3>1, SmallestOf
    <2>2. CASE m = 0
      <3> DEFINE f == [i \in 0 .. 0 |-> 0]
      <3>1. f = Steps(f, 0)
        OBVIOUS
      <3>2. \E g : g = Steps(g, 0)
        BY <3>1
      <3>3. QED BY <2>2, <3>2
    <2>3. CASE m # 0
      <3>1. m \in Nat /\ m - 1 \in Nat /\ m - 1 \notin Unsolved
        BY <2>1, <2>3
      <3>2. PICK g : g = Steps(g, m - 1)
        BY <3>1
      <3> DEFINE last == g[m - 1] + v[m]
                 f == [i \in 0 .. m |-> IF i < m THEN g[i] ELSE last]
      <3>3. \A i \in 0 .. m : f[i] = Steps(f, m)[i]
        <4> SUFFICES ASSUME NEW i \in 0 .. m PROVE f[i] = Steps(f, m)[i]
          OBVIOUS
        <4>1. CASE i = 0
          BY <4>1, <3>1, <3>2
        <4>2. CASE i # 0 /\ i < m
          <5>1. i \in 0 .. m - 1 /\ i - 1 \in 0 .. m /\ i - 1 < m
            BY <4>2, <3>1
          <5>2. f[i] = g[i] /\ f[i - 1] = g[i - 1]
            BY <5>1, <4>2
          <5>3. g[i] = g[i - 1] + v[i]
            <6>1. g[i] = Steps(g, m - 1)[i]
              BY <3>2
            <6>2. QED BY <6>1, <5>1, <4>2
          <5>4. QED BY <5>2, <5>3, <4>2
        <4>3. CASE i = m
          <5>1. f[m - 1] = g[m - 1] /\ f[m] = last
            BY <3>1
          <5>2. QED BY <5>1, <4>3, <2>3
        <4>4. QED BY <4>1, <4>2, <4>3
      <3>4. f = Steps(f, m)
        <4>1. f = [i \in 0 .. m |-> f[i]]
          OBVIOUS
        <4>2. Steps(f, m) = [i \in 0 .. m |-> Steps(f, m)[i]]
          OBVIOUS
        <4> HIDE DEF f, Steps
        <4>3. QED BY <4>1, <4>2, <3>3
      <3>5. \E h : h = Steps(h, m)
        BY <3>4
      <3>6. QED BY <2>1, <3>5
    <2>4. QED BY <2>2, <2>3
  <1>2. \E f : f = Steps(f, Len(v))
    BY <1>1
  <1>3. RunningSums(v) = CHOOSE f : f = Steps(f, Len(v))
    BY DEF RunningSums
  <1>4. RunningSums(v) = Steps(RunningSums(v), Len(v))
    <2> HIDE DEF Steps
    <2>1. QED BY <1>2, <1>3
  <1> HIDE DEF Unsolved
  <1>5. QED BY <1>4

(* Whatever starts at nothing and grows by the members is the sum.          *)
LEMMA SumIs ==
    ASSUME NEW v \in Seq(Int), NEW g, g[0] = 0,
           \A i \in 1 .. Len(v) : g[i] = g[i - 1] + v[i]
    PROVE  SumSeq(v) = g[Len(v)]
  <1> DEFINE f == RunningSums(v)
             Bad == {i \in Nat : i <= Len(v) /\ f[i] # g[i]}
  <1>0. Len(v) \in Nat
    OBVIOUS
  <1>1. f[0] = 0 /\ \A i \in 1 .. Len(v) : f[i] = f[i - 1] + v[i]
    BY <1>0, RunningSumsStep
  <1> HIDE DEF f
  <1>2. Bad = {}
    <2> SUFFICES ASSUME Bad # {} PROVE FALSE
      OBVIOUS
    <2>1. PICK m \in Bad : \A k \in Bad : m <= k
      <3>1. Bad \in SUBSET Nat
        OBVIOUS
      <3> HIDE DEF Bad
      <3>2. QED BY <3>1, SmallestOf
    <2>2. m \in Nat /\ m <= Len(v) /\ f[m] # g[m] /\ m # 0
      BY <1>1
    <2>3. m - 1 \in Nat /\ m - 1 \notin Bad /\ m \in 1 .. Len(v)
      BY <2>1, <2>2, <1>0
    <2>4. f[m - 1] = g[m - 1]
      BY <2>2, <2>3, <1>0
    <2>5. QED BY <2>2, <2>3, <2>4, <1>1
  <1>3. f[Len(v)] = g[Len(v)]
    BY <1>0, <1>2
  <1>4. QED BY <1>3 DEF SumSeq, f

LEMMA RunningSumsType ==
    ASSUME NEW v \in Seq(Int)
    PROVE  \A i \in 0 .. Len(v) : RunningSums(v)[i] \in Int
  <1> DEFINE f == RunningSums(v)
             Bad == {i \in Nat : i <= Len(v) /\ f[i] \notin Int}
  <1>0. Len(v) \in Nat /\ \A i \in 1 .. Len(v) : v[i] \in Int
    OBVIOUS
  <1>1. f[0] = 0 /\ \A i \in 1 .. Len(v) : f[i] = f[i - 1] + v[i]
    BY <1>0, RunningSumsStep
  <1> HIDE DEF f
  <1>2. Bad = {}
    <2> SUFFICES ASSUME Bad # {} PROVE FALSE
      OBVIOUS
    <2>1. PICK m \in Bad : \A k \in Bad : m <= k
      <3>1. Bad \in SUBSET Nat
        OBVIOUS
      <3> HIDE DEF Bad
      <3>2. QED BY <3>1, SmallestOf
    <2>2. m \in Nat /\ m <= Len(v) /\ f[m] \notin Int /\ m # 0
      BY <1>1
    <2>3. m - 1 \in Nat /\ m - 1 \notin Bad /\ m \in 1 .. Len(v)
      BY <2>1, <2>2, <1>0
    <2>4. f[m - 1] \in Int
      BY <2>2, <2>3, <1>0
    <2>5. f[m] = f[m - 1] + v[m] /\ v[m] \in Int
      BY <2>3, <1>0, <1>1
    <2>6. QED BY <2>2, <2>4, <2>5
  <1>3. QED BY <1>0, <1>2 DEF f

LEMMA SumType ==
    ASSUME NEW v \in Seq(Int)
    PROVE  SumSeq(v) \in Int
  BY RunningSumsType DEF SumSeq

LEMMA SumOfNothing ==
    ASSUME NEW v \in Seq(Int), \A i \in 1 .. Len(v) : v[i] = 0
    PROVE  SumSeq(v) = 0
  <1> DEFINE g == [i \in 0 .. Len(v) |-> 0]
  <1>1. g[0] = 0 /\ \A i \in 1 .. Len(v) : g[i] = g[i - 1] + v[i]
    OBVIOUS
  <1>2. g[Len(v)] = 0
    OBVIOUS
  <1> HIDE DEF g
  <1>3. QED BY <1>1, <1>2, SumIs

LEMMA SumAppend ==
    ASSUME NEW v \in Seq(Int), NEW x \in Int
    PROVE  SumSeq(Append(v, x)) = SumSeq(v) + x
  <1> DEFINE n == Len(v)
             f == RunningSums(v)
             w == Append(v, x)
             g == [i \in 0 .. n + 1 |-> IF i <= n THEN f[i] ELSE f[n] + x]
  <1>1. /\ n \in Nat /\ w \in Seq(Int) /\ Len(w) = n + 1 /\ w[n + 1] = x
        /\ \A i \in 1 .. n : w[i] = v[i]
    OBVIOUS
  <1>2. f[0] = 0 /\ \A i \in 1 .. n : f[i] = f[i - 1] + v[i]
    BY RunningSumsStep
  <1> HIDE DEF f, w, n
  <1>3. g[0] = 0 /\ \A i \in 1 .. Len(w) : g[i] = g[i - 1] + w[i]
    <2>1. g[0] = 0
      BY <1>1, <1>2
    <2>2. ASSUME NEW i \in 1 .. Len(w) PROVE g[i] = g[i - 1] + w[i]
      <3>1. CASE i <= n
        <4>1. i \in 1 .. n /\ i \in 0 .. n + 1 /\ i - 1 \in 0 .. n + 1 /\ i - 1 <= n
          BY <1>1, <3>1
        <4>2. QED BY <1>1, <1>2, <4>1
      <3>2. CASE i = n + 1
        <4>1. i \in 0 .. n + 1 /\ i - 1 \in 0 .. n + 1 /\ i - 1 = n /\ ~(i <= n)
          BY <1>1, <3>2
        <4>2. QED BY <1>1, <3>2, <4>1
      <3>3. QED BY <1>1, <3>1, <3>2
    <2>3. QED BY <2>1, <2>2
  <1>4. g[n + 1] = f[n] + x
    BY <1>1
  <1> HIDE DEF g
  <1>5. SumSeq(w) = g[n + 1]
    BY <1>1, <1>3, SumIs
  <1>6. QED BY <1>4, <1>5 DEF w, n, f, SumSeq

LEMMA SumReplace ==
    ASSUME NEW v \in Seq(Int), NEW w \in Seq(Int), Len(w) = Len(v), NEW k \in 1 .. Len(v),
           \A i \in 1 .. Len(v) : i # k => w[i] = v[i]
    PROVE  SumSeq(w) = SumSeq(v) + w[k] - v[k]
  <1> DEFINE n == Len(v)
             f == RunningSums(v)
             d == w[k] - v[k]
             g == [i \in 0 .. n |-> IF i < k THEN f[i] ELSE f[i] + d]
  <1>1. /\ n \in Nat /\ k \in 1 .. n /\ v[k] \in Int /\ w[k] \in Int /\ d \in Int
        /\ \A i \in 1 .. n : v[i] \in Int
        /\ \A i \in 0 .. n : f[i] \in Int
    BY RunningSumsType
  <1>2. f[0] = 0 /\ \A i \in 1 .. n : f[i] = f[i - 1] + v[i]
    BY <1>1, RunningSumsStep
  <1>d. w[k] = v[k] + d
    BY <1>1
  <1>w. \A i \in 1 .. n : i # k => w[i] = v[i]
    OBVIOUS
  <1> HIDE DEF f, d, n
  <1>3. g[0] = 0 /\ \A i \in 1 .. n : g[i] = g[i - 1] + w[i]
    <2>1. g[0] = 0
      BY <1>1, <1>2
    <2>2. ASSUME NEW i \in 1 .. n PROVE g[i] = g[i - 1] + w[i]
      <3>1. i \in 0 .. n /\ i - 1 \in 0 .. n /\ i \in Int /\ k \in Int
        BY <1>1
      <3>2. f[i] = f[i - 1] + v[i] /\ f[i - 1] \in Int /\ v[i] \in Int
        BY <1>1, <1>2, <3>1
      <3>3. CASE i < k
        BY <1>1, <1>w, <3>1, <3>2, <3>3
      <3>4. CASE i = k
        BY <1>1, <1>d, <3>1, <3>2, <3>4
      <3>5. CASE i > k
        <4>1. ~(i - 1 < k) /\ ~(i < k) /\ w[i] = v[i]
          BY <1>w, <3>1, <3>5
        <4>2. g[i] = f[i] + d /\ g[i - 1] = f[i - 1] + d
          BY <3>1, <4>1
        <4> HIDE DEF g
        <4>3. QED BY <1>1, <3>2, <4>1, <4>2
      <3>6. QED BY <3>1, <3>3, <3>4, <3>5
    <2>3. QED BY <2>1, <2>2
  <1>4. g[n] = f[n] + d
    BY <1>1
  <1>5. Len(w) = n
    BY DEF n
  <1> HIDE DEF g
  <1>6. SumSeq(w) = g[n]
    BY <1>3, <1>5, SumIs
  <1>7. SumSeq(v) \in Int /\ SumSeq(v) = f[n]
    BY SumType DEF SumSeq, f, n
  <1>8. QED BY <1>1, <1>4, <1>6, <1>7, <1>d

LEMMA RemoveAtIs ==
    ASSUME NEW T, NEW s \in Seq(T), NEW k \in 1 .. Len(s)
    PROVE  /\ RemoveAt(s, k) \in Seq(T) /\ Len(RemoveAt(s, k)) = Len(s) - 1
           /\ \A i \in 1 .. Len(s) - 1 :
                RemoveAt(s, k)[i] = IF i < k THEN s[i] ELSE s[i + 1]
  <1> DEFINE n == Len(s)
             before == SubSeq(s, 1, k - 1)
             after == SubSeq(s, k + 1, n)
  <1>1. n \in Nat /\ k \in 1 .. n /\ k \in Int /\ \A i \in 1 .. n : s[i] \in T
    OBVIOUS
  <1>2. /\ before \in Seq(T) /\ Len(before) = k - 1
        /\ \A i \in 1 .. k - 1 : before[i] = s[i]
    <2>1. \A i \in 1 .. k - 1 : s[i] \in T
      BY <1>1
    <2>2. 1 \in Int /\ k - 1 \in Int
      BY <1>1
    <2>3. before \in Seq(T) /\ Len(before) = (IF 1 <= k - 1 THEN k - 1 - 1 + 1 ELSE 0)
          /\ \A i \in 1 .. k - 1 - 1 + 1 : before[i] = s[1 + i - 1]
      BY <2>1, <2>2, SubSeqProperties
    <2>4. QED BY <1>1, <2>3
  <1>3. /\ after \in Seq(T) /\ Len(after) = n - k
        /\ \A i \in 1 .. n - k : after[i] = s[k + i]
    <2>1. \A i \in k + 1 .. n : s[i] \in T
      BY <1>1
    <2>2. k + 1 \in Int /\ n \in Int
      BY <1>1
    <2> HIDE DEF n
    <2>3. after \in Seq(T) /\ Len(after) = (IF k + 1 <= n THEN n - (k + 1) + 1 ELSE 0)
          /\ \A i \in 1 .. n - (k + 1) + 1 : after[i] = s[k + 1 + i - 1]
      BY <2>1, <2>2, SubSeqProperties
    <2>4. QED BY <1>1, <2>3
  <1>4. RemoveAt(s, k) = before \o after
    BY DEF RemoveAt
  <1> HIDE DEF before, after, n
  <1>5. before \o after \in Seq(T) /\ Len(before \o after) = n - 1
    <2>1. before \o after \in Seq(T) /\ Len(before \o after) = Len(before) + Len(after)
      BY <1>2, <1>3, ConcatProperties
    <2>2. Len(before) + Len(after) = n - 1
      <3>1. k - 1 + (n - k) = n - 1
        BY <1>1
      <3>2. QED BY <1>2, <1>3, <3>1
    <2>3. QED BY <2>1, <2>2
  <1>6. ASSUME NEW i \in 1 .. n - 1
        PROVE  (before \o after)[i] = IF i < k THEN s[i] ELSE s[i + 1]
    <2>1. CASE i < k
      <3>1. i \in 1 .. Len(before)
        BY <1>1, <1>2, <2>1
      <3>2. (before \o after)[i] = before[i]
        BY <1>2, <1>3, <3>1
      <3>3. QED BY <1>1, <1>2, <2>1, <3>2
    <2>2. CASE ~(i < k)
      <3>1. i - (k - 1) \in 1 .. n - k /\ i > Len(before)
            /\ i \in 1 .. Len(before) + Len(after)
        BY <1>1, <1>2, <1>3, <2>2
      <3>2. (before \o after)[i] = after[i - (k - 1)]
        BY <1>1, <1>2, <1>3, <3>1
      <3>3. after[i - (k - 1)] = s[k + (i - (k - 1))]
        BY <1>3, <3>1
      <3>4. k + (i - (k - 1)) = i + 1
        BY <1>1
      <3>5. QED BY <2>2, <3>2, <3>3, <3>4
    <2>3. QED BY <2>1, <2>2
  <1>7. QED BY <1>4, <1>5, <1>6 DEF n

LEMMA SumRemove ==
    ASSUME NEW v \in Seq(Int), NEW k \in 1 .. Len(v)
    PROVE  SumSeq(RemoveAt(v, k)) = SumSeq(v) - v[k]
  <1> DEFINE n == Len(v)
             f == RunningSums(v)
             w == RemoveAt(v, k)
             x == v[k]
             g == [i \in 0 .. n - 1 |-> IF i < k THEN f[i] ELSE f[i + 1] - x]
  <1>1. /\ n \in Nat /\ k \in 1 .. n /\ x \in Int
        /\ \A i \in 1 .. n : v[i] \in Int
        /\ \A i \in 0 .. n : f[i] \in Int
    BY RunningSumsType
  <1>2. f[0] = 0 /\ \A i \in 1 .. n : f[i] = f[i - 1] + v[i]
    BY RunningSumsStep
  <1>3. /\ w \in Seq(Int) /\ Len(w) = n - 1
        /\ \A i \in 1 .. n - 1 : w[i] = IF i < k THEN v[i] ELSE v[i + 1]
    BY RemoveAtIs
  <1>4. v[k] = x
    OBVIOUS
  <1> HIDE DEF f, w, n, x
  <1>5. g[0] = 0 /\ \A i \in 1 .. n - 1 : g[i] = g[i - 1] + w[i]
    <2>1. g[0] = 0
      BY <1>1, <1>2
    <2>2. ASSUME NEW i \in 1 .. n - 1 PROVE g[i] = g[i - 1] + w[i]
      <3>1. /\ i \in 0 .. n - 1 /\ i - 1 \in 0 .. n - 1 /\ i \in 1 .. n /\ i + 1 \in 1 .. n
            /\ i - 1 \in 0 .. n /\ i \in 0 .. n /\ i + 1 \in 0 .. n
        BY <1>1
      <3>2. /\ f[i] = f[i - 1] + v[i] /\ f[i + 1] = f[i] + v[i + 1]
            /\ f[i] \in Int /\ f[i - 1] \in Int /\ v[i] \in Int /\ v[i + 1] \in Int
            /\ f[i + 1] \in Int
        <4>1. i + 1 - 1 = i
          BY <3>1
        <4>2. QED BY <1>1, <1>2, <3>1, <4>1
      <3>3. CASE i < k
        <4>1. i - 1 < k /\ w[i] = v[i]
          BY <1>1, <1>3, <3>1, <3>3
        <4>2. QED BY <3>1, <3>2, <3>3, <4>1
      <3>4. CASE i = k
        <4>1. i - 1 < k /\ ~(i < k) /\ w[i] = v[i + 1] /\ v[i] = x
          BY <1>1, <1>3, <1>4, <3>1, <3>4
        <4>2. g[i] = f[i + 1] - x /\ g[i - 1] = f[i - 1]
          BY <3>1, <4>1
        <4> HIDE DEF g
        <4>3. f[i + 1] - v[i] = f[i - 1] + v[i + 1]
          <5> DEFINE A == f[i + 1]
                     B == f[i]
                     C == f[i - 1]
                     V == v[i]
                     W == v[i + 1]
          <5>1. A \in Int /\ B \in Int /\ C \in Int /\ V \in Int /\ W \in Int
            BY <3>2
          <5>2. B = C + V /\ A = B + W
            BY <3>2
          <5> HIDE DEF A, B, C, V, W
          <5>3. A - V = C + W
            BY <5>1, <5>2
          <5>4. QED BY <5>3 DEF A, B, C, V, W
        <4>4. QED BY <4>1, <4>2, <4>3
      <3>5. CASE i > k
        <4>1. ~(i - 1 < k) /\ ~(i < k) /\ w[i] = v[i + 1] /\ i - 1 + 1 = i
          BY <1>1, <1>3, <3>1, <3>5
        <4>2. g[i] = f[i + 1] - x /\ g[i - 1] = f[i - 1 + 1] - x
          BY <3>1, <4>1
        <4> HIDE DEF g
        <4>3. f[i + 1] - x = f[i] - x + v[i + 1]
          <5> DEFINE A == f[i + 1]
                     B == f[i]
                     W == v[i + 1]
          <5>1. A \in Int /\ B \in Int /\ W \in Int /\ A = B + W
            BY <3>2
          <5> HIDE DEF A, B, W
          <5>2. A - x = B - x + W
            BY <1>1, <5>1
          <5>3. QED BY <5>2 DEF A, B, W
        <4>4. QED BY <4>1, <4>2, <4>3
      <3>6. QED BY <1>1, <3>3, <3>4, <3>5
    <2>3. QED BY <2>1, <2>2
  <1>6. g[n - 1] = f[n] - x
    <2>1. n - 1 \in 0 .. n - 1 /\ n - 1 + 1 = n
      BY <1>1
    <2>2. CASE n - 1 < k
      <3>1. n = k
        BY <1>1, <2>2
      <3>2. f[n] = f[n - 1] + x /\ f[n - 1] \in Int
        BY <1>1, <1>2, <1>4, <3>1
      <3>3. QED BY <1>1, <2>1, <2>2, <3>2
    <2>3. CASE ~(n - 1 < k)
      BY <2>1, <2>3
    <2>4. QED BY <2>2, <2>3
  <1> HIDE DEF g
  <1>7. SumSeq(w) = g[n - 1]
    BY <1>3, <1>5, SumIs
  <1>8. QED BY <1>6, <1>7 DEF w, n, f, x, SumSeq

-----------------------------------------------------------------------------
(* Types.  What an actor carries says where it is: a name, a quantity and,  *)
(* once it traded, the price it paid.                                       *)

StageOK(o) ==
    /\ o.stage # "idle" => o.sym \in Symbols /\ o.qty \in Nat \ {0}
    /\ o.stage \in {"toolFilled", "toolOpened", "closed"} => o.paid \in Prices
    /\ o.stage = "idle" => o.sym = NoSymbol

StagesOK == \A a \in Actors : StageOK(act[a])

LEMMA ConstantTypes ==
    /\ Prices \subseteq Nat /\ InitialBalance \in Nat \ {0}
    /\ MaxDays \in Nat \ {0} /\ MaxTries \in Nat /\ RiskPct \in Nat
    /\ \A o \in Orders : /\ o.sym \in Symbols /\ o.side \in Sides /\ o.qty \in Nat \ {0}
                         /\ o.price \in Prices /\ o.stop \in Stops
    /\ \A s \in Signals : /\ s.sym \in Symbols /\ s.side \in Sides /\ s.price \in Prices
                          /\ s.stop \in Nat \ {0} /\ s.stop \in Stops /\ s.stop # s.price
    /\ NoSymbol \notin Symbols /\ NoRow \notin Row
  <1>1. \A o \in Orders : o \in [sym : Symbols, side : Sides, qty : Nat \ {0},
                                 price : Prices, stop : Stops]
    BY AegisAssumption DEF Sides, Stops
  <1>2. \A s \in Signals : s \in [sym : Symbols, side : Sides, price : Prices,
                                  stop : Nat \ {0}] /\ s.stop # s.price
    BY AegisAssumption DEF Sides
  <1>3. NoRow \notin Row
    <2>1. Row \subseteq [side : {"buy", "sell"}, qty : Nat, cost : Nat]
      BY DEF Row, Sides
    <2>2. QED BY <2>1, AegisAssumption
  <1>4. Prices \subseteq Nat
    BY AegisAssumption
  <1>5. QED BY <1>1, <1>2, <1>3, <1>4, AegisAssumption DEF Stops

LEMMA NoActType == NoAct \in Activity /\ StageOK(NoAct)
  BY DEF NoAct, Activity, Stops, Sides, StageOK

LEMMA TimesType ==
    ASSUME NEW m \in Nat, NEW n \in Nat
    PROVE  m * n \in Nat
  OBVIOUS

LEMMA PositionTypes ==
    ASSUME NEW p \in Position
    PROVE  EntryValue(p) \in Int /\ PositionValue(p) \in Int /\ UnrealizedPnl(p) \in Int
  <1>1. p.qty \in Nat /\ p.entry \in Nat /\ p.current \in Nat
    BY ConstantTypes DEF Position
  <1>2. \A m, n \in Int : m * n \in Int
    OBVIOUS
  <1>3. p.current - p.entry \in Int /\ p.entry - p.current \in Int
    BY <1>1
  <1>4. QED BY <1>1, <1>2, <1>3 DEF EntryValue, PositionValue, UnrealizedPnl

(* The total over the positions of a number each of them has.               *)
EachOf(F, ps) == [i \in 1 .. Len(ps) |-> F[ps[i]]]

LEMMA EachOfType ==
    ASSUME NEW F \in [Position -> Int], NEW ps \in Seq(Position)
    PROVE  /\ EachOf(F, ps) \in Seq(Int) /\ Len(EachOf(F, ps)) = Len(ps)
           /\ \A i \in 1 .. Len(ps) : EachOf(F, ps)[i] = F[ps[i]]
           /\ SumSeq(EachOf(F, ps)) \in Int
  <1>1. \A i \in 1 .. Len(ps) : F[ps[i]] \in Int
    OBVIOUS
  <1>2. Len(ps) \in Nat
    OBVIOUS
  <1>3. /\ EachOf(F, ps) \in Seq(Int) /\ Len(EachOf(F, ps)) = Len(ps)
        /\ \A i \in 1 .. Len(ps) : EachOf(F, ps)[i] = F[ps[i]]
    BY <1>1, <1>2 DEF EachOf
  <1>4. QED BY <1>3, SumType

LEMMA SumWithPosition ==
    ASSUME NEW F \in [Position -> Int], NEW ps \in Seq(Position), NEW p \in Position
    PROVE  SumSeq(EachOf(F, Append(ps, p))) = SumSeq(EachOf(F, ps)) + F[p]
  <1> DEFINE v == EachOf(F, ps)
             qs == Append(ps, p)
             w == EachOf(F, qs)
  <1>1. v \in Seq(Int) /\ Len(v) = Len(ps) /\ \A i \in 1 .. Len(ps) : v[i] = F[ps[i]]
    BY EachOfType
  <1>2. /\ qs \in Seq(Position) /\ Len(qs) = Len(ps) + 1 /\ qs[Len(ps) + 1] = p
        /\ \A i \in 1 .. Len(ps) : qs[i] = ps[i]
    OBVIOUS
  <1> HIDE DEF qs, v
  <1>3. w \in Seq(Int) /\ Len(w) = Len(qs) /\ \A i \in 1 .. Len(qs) : w[i] = F[qs[i]]
    BY <1>2, EachOfType
  <1> HIDE DEF w
  <1>4. F[p] \in Int /\ Len(ps) \in Nat
    OBVIOUS
  <1>5. w = Append(v, F[p])
    <2>1. Append(v, F[p]) \in Seq(Int) /\ Len(Append(v, F[p])) = Len(w)
      BY <1>1, <1>2, <1>3, <1>4
    <2>2. \A i \in 1 .. Len(w) : w[i] = Append(v, F[p])[i]
      BY <1>1, <1>2, <1>3, <1>4
    <2>3. QED BY <1>3, <2>1, <2>2, SeqEqual
  <1>6. SumSeq(Append(v, F[p])) = SumSeq(v) + F[p]
    BY <1>1, <1>4, SumAppend
  <1>7. QED BY <1>5, <1>6 DEF w, v, qs

LEMMA SumWithoutPosition ==
    ASSUME NEW F \in [Position -> Int], NEW ps \in Seq(Position), NEW k \in 1 .. Len(ps)
    PROVE  SumSeq(EachOf(F, RemoveAt(ps, k))) = SumSeq(EachOf(F, ps)) - F[ps[k]]
  <1> DEFINE v == EachOf(F, ps)
             qs == RemoveAt(ps, k)
             w == EachOf(F, qs)
             u == RemoveAt(v, k)
  <1>1. v \in Seq(Int) /\ Len(v) = Len(ps) /\ \A i \in 1 .. Len(ps) : v[i] = F[ps[i]]
    BY EachOfType
  <1>2. /\ qs \in Seq(Position) /\ Len(qs) = Len(ps) - 1
        /\ \A i \in 1 .. Len(ps) - 1 : qs[i] = IF i < k THEN ps[i] ELSE ps[i + 1]
    BY RemoveAtIs
  <1> HIDE DEF qs, v
  <1>3. w \in Seq(Int) /\ Len(w) = Len(qs) /\ \A i \in 1 .. Len(qs) : w[i] = F[qs[i]]
    BY <1>2, EachOfType
  <1>4. /\ u \in Seq(Int) /\ Len(u) = Len(v) - 1
        /\ \A i \in 1 .. Len(v) - 1 : u[i] = IF i < k THEN v[i] ELSE v[i + 1]
    BY <1>1, RemoveAtIs
  <1>5. SumSeq(u) = SumSeq(v) - v[k]
    BY <1>1, SumRemove
  <1> HIDE DEF w, u
  <1>6. Len(ps) \in Nat /\ k \in Int
    OBVIOUS
  <1>7. w = u
    <2>1. ASSUME NEW i \in 1 .. Len(w) PROVE w[i] = u[i]
      <3>1. i \in 1 .. Len(ps) - 1 /\ i \in 1 .. Len(ps) /\ i + 1 \in 1 .. Len(ps)
        BY <1>2, <1>3, <1>6
      <3> DEFINE j == IF i < k THEN i ELSE i + 1
      <3>2. j \in 1 .. Len(ps)
        BY <3>1
      <3>3. qs[i] = ps[j]
        BY <1>2, <3>1
      <3>4. u[i] = v[j]
        BY <1>1, <1>4, <3>1
      <3> HIDE DEF j
      <3>5. w[i] = F[qs[i]]
        BY <1>3
      <3>6. v[j] = F[ps[j]]
        BY <1>1, <3>2
      <3>7. QED BY <3>3, <3>4, <3>5, <3>6
    <2>2. Len(u) = Len(w)
      BY <1>1, <1>2, <1>3, <1>4
    <2>3. QED BY <1>3, <1>4, <2>1, <2>2, SeqEqual
  <1>8. v[k] = F[ps[k]]
    BY <1>1
  <1>9. QED BY <1>5, <1>7, <1>8 DEF w, v, qs

-----------------------------------------------------------------------------
(* The portfolio adds up whatever is booked, closed or reset.               *)

AddsUp(q) ==
    /\ q.cash + SumOf(EntryValue, q.positions) = InitialBalance + q.weekPnl
    /\ q.total = q.cash + TotalExposure(q)
    /\ q.peak >= q.total

PortfolioOK(q) == q \in Portfolio /\ AddsUp(q)

EntryOf == [p \in Position |-> EntryValue(p)]
ValueOf == [p \in Position |-> PositionValue(p)]

LEMMA PositionSums ==
    ASSUME NEW ps \in Seq(Position)
    PROVE  /\ EntryOf \in [Position -> Int] /\ ValueOf \in [Position -> Int]
           /\ SumOf(EntryValue, ps) = SumSeq(EachOf(EntryOf, ps))
           /\ SumOf(PositionValue, ps) = SumSeq(EachOf(ValueOf, ps))
           /\ SumOf(EntryValue, ps) \in Int /\ SumOf(PositionValue, ps) \in Int
  <1>1. EntryOf \in [Position -> Int] /\ ValueOf \in [Position -> Int]
    BY PositionTypes DEF EntryOf, ValueOf
  <1>2. \A i \in 1 .. Len(ps) : ps[i] \in Position
    OBVIOUS
  <1>3. [i \in 1 .. Len(ps) |-> EntryValue(ps[i])] = EachOf(EntryOf, ps)
    BY <1>2 DEF EachOf, EntryOf
  <1>4. [i \in 1 .. Len(ps) |-> PositionValue(ps[i])] = EachOf(ValueOf, ps)
    BY <1>2 DEF EachOf, ValueOf
  <1>5. SumOf(EntryValue, ps) = SumSeq(EachOf(EntryOf, ps))
    BY <1>3 DEF SumOf
  <1>6. SumOf(PositionValue, ps) = SumSeq(EachOf(ValueOf, ps))
    BY <1>4 DEF SumOf
  <1>7. QED BY <1>1, <1>5, <1>6, EachOfType

LEMMA UpdateOK ==
    ASSUME NEW q \in Portfolio
    PROVE  LET u == UpdateTotalValue(q) IN
           /\ u \in Portfolio
           /\ u.cash = q.cash /\ u.positions = q.positions /\ u.weekPnl = q.weekPnl
           /\ u.total = u.cash + TotalExposure(u) /\ u.peak >= u.total
  <1> DEFINE total == q.cash + TotalExposure(q)
             peak == MaxOf(q.peak, total)
             u == [q EXCEPT !.total = total, !.peak = peak]
  <1>1. UpdateTotalValue(q) = u
    BY DEF UpdateTotalValue
  <1>2. q.positions \in Seq(Position) /\ q.cash \in Int /\ q.peak \in Int
    BY DEF Portfolio
  <1>3. TotalExposure(q) \in Int
    BY <1>2, PositionSums DEF TotalExposure
  <1>4. total \in Int /\ peak \in Int /\ peak >= total
    BY <1>2, <1>3 DEF MaxOf
  <1>e. total = q.cash + TotalExposure(q)
    OBVIOUS
  <1> HIDE DEF total, peak
  <1>5. /\ u \in Portfolio /\ u.total = total /\ u.peak = peak
        /\ u.cash = q.cash /\ u.positions = q.positions /\ u.weekPnl = q.weekPnl
    BY <1>4 DEF Portfolio
  <1> HIDE DEF u
  <1>6. TotalExposure(u) = TotalExposure(q)
    BY <1>5 DEF TotalExposure
  <1>7. QED BY <1>1, <1>4, <1>5, <1>6, <1>e

LEMMA AddOK ==
    ASSUME NEW q, PortfolioOK(q), NEW p \in Position
    PROVE  /\ PortfolioOK(AddPosition(q, p))
           /\ AddPosition(q, p).positions = Append(q.positions, p)
  <1> DEFINE ps == Append(q.positions, p)
             cash == q.cash - EntryValue(p)
             today == q.today + 1
             hour == q.hour + 1
             r == [q EXCEPT !.positions = ps, !.cash = cash, !.today = today, !.hour = hour]
             u == UpdateTotalValue(r)
  <1>1. AddPosition(q, p) = u
    BY DEF AddPosition
  <1>2. /\ q \in Portfolio /\ q.positions \in Seq(Position) /\ q.cash \in Int
        /\ q.weekPnl \in Int /\ q.today \in Nat /\ q.hour \in Nat
        /\ q.cash + SumOf(EntryValue, q.positions) = InitialBalance + q.weekPnl
    BY DEF PortfolioOK, Portfolio, AddsUp
  <1>3. /\ EntryValue(p) \in Int /\ ps \in Seq(Position) /\ cash \in Int
        /\ today \in Nat /\ hour \in Nat
    BY <1>2, PositionTypes
  <1>4. SumOf(EntryValue, ps) = SumOf(EntryValue, q.positions) + EntryValue(p)
    <2>1. SumSeq(EachOf(EntryOf, ps)) = SumSeq(EachOf(EntryOf, q.positions)) + EntryOf[p]
      BY <1>2, PositionSums, SumWithPosition
    <2>2. EntryOf[p] = EntryValue(p)
      BY DEF EntryOf
    <2> HIDE DEF ps
    <2>3. QED BY <1>2, <1>3, <2>1, <2>2, PositionSums
  <1>5. cash + SumOf(EntryValue, ps) = InitialBalance + q.weekPnl
    <2> DEFINE E == EntryValue(p)
               S == SumOf(EntryValue, q.positions)
               T == SumOf(EntryValue, ps)
               C == q.cash
               W == q.weekPnl
    <2>1. S \in Int /\ T \in Int /\ InitialBalance \in Int
      <3>1. ps \in Seq(Position) /\ q.positions \in Seq(Position)
        BY <1>2, <1>3
      <3> HIDE DEF ps
      <3>2. S \in Int /\ T \in Int
        BY <3>1, PositionSums
      <3>3. QED BY <3>2, ConstantTypes
    <2>2. E \in Int /\ C \in Int /\ W \in Int /\ T = S + E /\ cash = C - E
      BY <1>2, <1>3, <1>4
    <2>3. C + S = InitialBalance + W
      BY <1>2
    <2> HIDE DEF E, S, T, C, W, cash
    <2>4. cash + T = InitialBalance + W
      BY <2>1, <2>2, <2>3
    <2>5. QED BY <2>4 DEF T, W
  <1>p. ps = Append(q.positions, p)
    OBVIOUS
  <1> HIDE DEF ps, cash, today, hour
  <1>6. r \in Portfolio /\ r.cash = cash /\ r.positions = ps /\ r.weekPnl = q.weekPnl
    BY <1>2, <1>3 DEF Portfolio
  <1> HIDE DEF r
  <1>7. /\ u \in Portfolio /\ u.cash = cash /\ u.positions = ps /\ u.weekPnl = q.weekPnl
        /\ u.total = u.cash + TotalExposure(u) /\ u.peak >= u.total
    BY <1>6, UpdateOK
  <1> HIDE DEF u
  <1>8. QED BY <1>1, <1>5, <1>7, <1>p DEF PortfolioOK, AddsUp

(* The first entry of a symbol the portfolio tracks is there.               *)
LEMMA IndexOfIs ==
    ASSUME NEW q \in Portfolio, NEW s, Tracks(q, s)
    PROVE  IndexOf(q, s) \in 1 .. Len(q.positions) /\ q.positions[IndexOf(q, s)].sym = s
  <1> DEFINE I == {i \in 1 .. Len(q.positions) : q.positions[i].sym = s}
  <1>1. IndexOf(q, s) = IF I # {} THEN Min(I) ELSE 0
    BY DEF IndexOf, SelectInSeq
  <1>2. I # {} /\ IndexOf(q, s) = Min(I)
    BY <1>1 DEF Tracks
  <1>3. Min(I) \in I
    <2>1. I \in SUBSET Nat
      OBVIOUS
    <2>2. \E x \in I : \A y \in I : x <= y
      BY <1>2, <2>1, SmallestOf
    <2> HIDE DEF I
    <2>3. QED BY <2>2 DEF Min
  <1>4. QED BY <1>2, <1>3

LEMMA RemoveOK ==
    ASSUME NEW q, PortfolioOK(q), NEW s, NEW price \in Prices, Tracks(q, s)
    PROVE  LET i == IndexOf(q, s) IN
           /\ PortfolioOK(RemovePosition(q, s, price))
           /\ RemovePosition(q, s, price).positions = RemoveAt(q.positions, i)
           /\ ClosedPnl(q, s, price) \in Int
           /\ i \in 1 .. Len(q.positions) /\ q.positions[i].sym = s
  <1> DEFINE i == IndexOf(q, s)
             pnl == ClosedPnl(q, s, price)
             ps == RemoveAt(q.positions, i)
             p == q.positions[i]
             cash == q.cash + EntryValue(p) + pnl
             losses == IF pnl < 0 THEN q.losses + 1 ELSE 0
             day1 == q.dayPnl + pnl
             week == q.weekPnl + pnl
             r == [q EXCEPT !.cash = cash, !.dayPnl = day1, !.weekPnl = week,
                            !.losses = losses, !.positions = ps]
             u == UpdateTotalValue(r)
  <1>1. RemovePosition(q, s, price) = u
    BY DEF RemovePosition
  <1>2. /\ q \in Portfolio /\ q.positions \in Seq(Position) /\ q.cash \in Int
        /\ q.weekPnl \in Int /\ q.dayPnl \in Int /\ q.losses \in Nat
        /\ q.cash + SumOf(EntryValue, q.positions) = InitialBalance + q.weekPnl
    BY DEF PortfolioOK, Portfolio, AddsUp
  <1>3. i \in 1 .. Len(q.positions) /\ p.sym = s
    BY <1>2, IndexOfIs
  <1>4. p \in Position
    BY <1>2, <1>3
  <1>5. pnl \in Int
    <2> DEFINE now == [p EXCEPT !.current = price]
    <2>1. now \in Position
      BY <1>4 DEF Position
    <2>2. pnl = UnrealizedPnl(now)
      BY DEF ClosedPnl
    <2> HIDE DEF now, pnl
    <2>3. QED BY <2>1, <2>2, PositionTypes
  <1>6. ps \in Seq(Position)
    BY <1>2, <1>3, RemoveAtIs
  <1>7. EntryValue(p) \in Int
    BY <1>4, PositionTypes
  <1>8. SumOf(EntryValue, ps) = SumOf(EntryValue, q.positions) - EntryValue(p)
    <2>1. EntryOf \in [Position -> Int]
      BY <1>2, PositionSums
    <2>2. SumSeq(EachOf(EntryOf, ps)) = SumSeq(EachOf(EntryOf, q.positions)) - EntryOf[p]
      BY <1>2, <1>3, <2>1, SumWithoutPosition
    <2>3. EntryOf[p] = EntryValue(p)
      BY <1>4 DEF EntryOf
    <2> HIDE DEF ps, p
    <2>4. SumOf(EntryValue, ps) = SumSeq(EachOf(EntryOf, ps))
      BY <1>6, PositionSums
    <2>5. SumOf(EntryValue, q.positions) = SumSeq(EachOf(EntryOf, q.positions))
      BY <1>2, PositionSums
    <2>6. QED BY <2>2, <2>3, <2>4, <2>5
  <1>v. EntryValue(p) = EntryValue(p) /\ ps = RemoveAt(q.positions, i)
    OBVIOUS
  <1> HIDE DEF i, pnl, ps
  <1>9. cash + SumOf(EntryValue, ps) = InitialBalance + week
    <2> DEFINE E == EntryValue(p)
               S == SumOf(EntryValue, q.positions)
               T == SumOf(EntryValue, ps)
               C == q.cash
               W == q.weekPnl
    <2>1. S \in Int /\ T \in Int /\ InitialBalance \in Int
      BY <1>2, <1>6, PositionSums, ConstantTypes
    <2>2. /\ E \in Int /\ C \in Int /\ W \in Int /\ T = S - E
          /\ cash = C + E + pnl /\ week = W + pnl
      BY <1>2, <1>7, <1>8
    <2>3. C + S = InitialBalance + W
      BY <1>2
    <2> HIDE DEF E, S, T, C, W, cash, week
    <2>4. cash + T = InitialBalance + week
      BY <1>5, <2>1, <2>2, <2>3
    <2>5. QED BY <2>4 DEF T
  <1>10. cash \in Int /\ losses \in Nat /\ day1 \in Int /\ week \in Int
    BY <1>2, <1>5, <1>7
  <1> HIDE DEF cash, losses, day1, week
  <1>11. r \in Portfolio /\ r.cash = cash /\ r.positions = ps /\ r.weekPnl = week
    BY <1>2, <1>6, <1>10 DEF Portfolio
  <1> HIDE DEF r
  <1>12. /\ u \in Portfolio /\ u.cash = cash /\ u.positions = ps /\ u.weekPnl = week
         /\ u.total = u.cash + TotalExposure(u) /\ u.peak >= u.total
    BY <1>11, UpdateOK
  <1> HIDE DEF u
  <1>13. PortfolioOK(u)
    BY <1>9, <1>12 DEF PortfolioOK, AddsUp
  <1>14. QED BY <1>1, <1>3, <1>5, <1>12, <1>13, <1>v DEF i, pnl, p

LEMMA ResetOK ==
    ASSUME NEW q, PortfolioOK(q)
    PROVE  PortfolioOK(ResetDaily(q)) /\ ResetDaily(q).positions = q.positions
  <1> DEFINE r == ResetDaily(q)
  <1>1. /\ r \in Portfolio /\ r.cash = q.cash /\ r.positions = q.positions
        /\ r.weekPnl = q.weekPnl /\ r.total = q.total /\ r.peak = q.peak
    <2> DEFINE start == q.total
               none == 0
    <2>1. q \in Portfolio /\ start \in Int /\ none \in Nat /\ none \in Int
      BY DEF PortfolioOK, Portfolio
    <2>2. r = [q EXCEPT !.dayStart = start, !.dayPnl = none, !.today = none]
      BY DEF ResetDaily
    <2> HIDE DEF start, none, r
    <2>3. r \in Portfolio
      BY <2>1, <2>2 DEF Portfolio
    <2>4. r.cash = q.cash /\ r.positions = q.positions /\ r.weekPnl = q.weekPnl
      BY <2>1, <2>2 DEF Portfolio
    <2>5. r.total = q.total /\ r.peak = q.peak
      BY <2>1, <2>2 DEF Portfolio
    <2>6. QED BY <2>3, <2>4, <2>5
  <1> HIDE DEF r
  <1>2. QED BY <1>1 DEF PortfolioOK, AddsUp, TotalExposure, r

-----------------------------------------------------------------------------
(* The inductive invariant of the books: the types, what the stages carry,  *)
(* and that the portfolio adds up.                                          *)

RiskSide == rm \in Manager /\ PortfolioOK(pf)
AccountSide ==
    free \in Nat /\ coins \in [Symbols -> Nat] /\ rows \in [Symbols -> Row \cup {NoRow}]
ActorSide == act \in [Actors -> Activity] /\ StagesOK
Ledger ==
    /\ day \in 1 .. MaxDays /\ tries \in 0 .. MaxTries /\ stale \subseteq Actors
    /\ drift \subseteq {"partlyClosed", "notTracked", "untold"} /\ realized \in Int

BooksInv == RiskSide /\ AccountSide /\ ActorSide /\ Ledger

LEMMA ActorMoves ==
    ASSUME ActorSide, NEW a \in Actors, NEW x \in Activity, StageOK(x),
           act' = [act EXCEPT ![a] = x]
    PROVE  ActorSide'
  <1>1. act' \in [Actors -> Activity]
    BY DEF ActorSide
  <1>2. \A b \in Actors : act'[b] = IF b = a THEN x ELSE act[b]
    BY DEF ActorSide
  <1>3. \A b \in Actors : StageOK(act'[b])
    BY <1>2 DEF ActorSide, StagesOK
  <1>4. QED BY <1>1, <1>3 DEF ActorSide, StagesOK

LEMMA ActorFinishes ==
    ASSUME ActorSide, NEW a \in Actors, Finish(a)
    PROVE  ActorSide'
  BY NoActType, ActorMoves DEF Finish

LEMMA ActorAt ==
    ASSUME ActorSide, NEW a \in Actors
    PROVE  /\ act[a] \in Activity /\ StageOK(act[a])
           /\ act[a].stage # "idle" =>
                /\ act[a].sym \in Symbols /\ act[a].side \in Sides
                /\ act[a].qty \in Nat \ {0} /\ act[a].price \in Nat
                /\ act[a].stop \in Stops /\ act[a].paid \in Nat /\ act[a].pnl \in Int
  BY DEF ActorSide, StagesOK, StageOK, Activity

LEMMA TradesOK ==
    ASSUME AccountSide, NEW s \in Symbols, NEW side \in Sides, NEW qty \in Nat, NEW p \in Nat,
           Trades(s, side, qty, p)
    PROVE  free' \in Nat /\ coins' \in [Symbols -> Nat]
  <1> DEFINE cost == qty * p
  <1>1. cost \in Nat
    BY TimesType
  <1>2. CASE side = "buy"
    <2>1. free >= cost /\ free' = free - cost /\ coins' = [coins EXCEPT ![s] = @ + qty]
      BY <1>2 DEF Trades, CanTrade
    <2> HIDE DEF cost
    <2>2. QED BY <1>1, <2>1 DEF AccountSide
  <1>3. CASE side = "sell"
    <2>1. /\ coins[s] >= qty /\ free' = free - (-qty) * p
          /\ coins' = [coins EXCEPT ![s] = @ + (-qty)]
      BY <1>3 DEF Trades, CanTrade
    <2>2. (-qty) * p = -cost
      OBVIOUS
    <2> HIDE DEF cost
    <2>3. free' = free + cost
      BY <1>1, <2>1, <2>2 DEF AccountSide
    <2> DEFINE rest == coins[s] + (-qty)
    <2>4. coins' = [coins EXCEPT ![s] = rest]
      BY <2>1
    <2>5. coins[s] \in Nat
      BY DEF AccountSide
    <2>6. rest \in Nat
      BY <2>1, <2>5
    <2> HIDE DEF rest
    <2>7. QED BY <1>1, <2>3, <2>4, <2>6 DEF AccountSide
  <1>4. QED BY <1>2, <1>3 DEF Sides

LEMMA ClosesOK ==
    ASSUME AccountSide, NEW s \in Symbols, NEW p \in Prices, ClosesRow(s, p)
    PROVE  AccountSide' /\ rows[s] \in Row /\ RowPnl(rows[s], p) \in Int
  <1>1. rows[s] \in Row /\ rows' = [rows EXCEPT ![s] = NoRow]
    BY DEF AccountSide, ClosesRow
  <1>2. /\ rows[s].side \in Sides /\ rows[s].qty \in Nat /\ rows[s].cost \in Nat
        /\ p \in Nat
    BY <1>1, ConstantTypes DEF Row
  <1> DEFINE side == IF rows[s].side = "buy" THEN "sell" ELSE "buy"
  <1>3. side \in Sides /\ Trades(s, side, rows[s].qty, p)
    BY DEF Sides, ClosesRow
  <1>4. free' \in Nat /\ coins' \in [Symbols -> Nat]
    <2> HIDE DEF side
    <2>1. QED BY <1>2, <1>3, TradesOK
  <1>5. rows[s].qty * p \in Nat
    BY <1>2, TimesType
  <1>6. RowPnl(rows[s], p) \in Int
    BY <1>2, <1>5 DEF RowPnl
  <1>7. rows' \in [Symbols -> Row \cup {NoRow}]
    BY <1>1 DEF AccountSide
  <1>8. QED BY <1>1, <1>4, <1>6, <1>7 DEF AccountSide

LEMMA DayResetOK ==
    ASSUME rm \in Manager, PortfolioOK(pf), day \in 1 .. MaxDays
    PROVE  /\ DayReset(rm) \in Manager /\ PortfolioOK(PortfolioReset(rm, pf))
           /\ PortfolioReset(rm, pf).positions = pf.positions
  <1>1. DayReset(rm) \in Manager
    <2> DEFINE start == rm.balance
    <2>1. rm \in Manager /\ start \in Int /\ day \in 0 .. MaxDays /\ 0 \in Int
      BY ConstantTypes DEF Manager
    <2>2. DayReset(rm) = rm \/
          DayReset(rm) = [rm EXCEPT !.dayStart = start, !.dayPnl = 0, !.lastReset = day]
      BY DEF DayReset
    <2> HIDE DEF start
    <2>3. QED BY <2>1, <2>2 DEF Manager
  <1>2. QED BY <1>1, ResetOK DEF PortfolioReset

LEMMA DecideOK ==
    ASSUME BooksInv, NEW a \in Actors, NEW o, NEW balance, Idles(a),
           o.sym \in Symbols, o.side \in Sides, o.qty \in Nat \ {0}, o.price \in Nat,
           o.stop \in Stops, NEW approved \in {"toolApproved", "signalApproved"},
           Decide(a, o, balance, approved)
    PROVE  BooksInv' /\ pf'.positions = pf.positions
  <1> DEFINE r == DayReset(rm)
             q == PortfolioReset(rm, pf)
             trips == TripsBreaker(r, q, o)
             sym == o.sym
             side == o.side
             qty == o.qty
             price == o.price
             stop == o.stop
             x == [NoAct EXCEPT !.stage = approved, !.sym = sym, !.side = side,
                                !.qty = qty, !.price = price, !.stop = stop]
  <1>1. /\ rm' = [r EXCEPT !.breaker = trips] /\ pf' = q
        /\ \/ act' = [act EXCEPT ![a] = x] /\ tries' = tries + 1
           \/ UNCHANGED <<act, tries>>
        /\ stale' = stale \ {a}
        /\ UNCHANGED <<day, account, drift, realized>>
    BY DEF Decide
  <1>2. r \in Manager /\ PortfolioOK(q) /\ q.positions = pf.positions
    BY DayResetOK DEF BooksInv, RiskSide, Ledger
  <1>3. trips \in BOOLEAN
    BY Zenon DEF TripsBreaker
  <1>4. x \in Activity /\ StageOK(x)
    <2>0. /\ sym \in Symbols /\ side \in Sides /\ qty \in Nat \ {0} /\ price \in Nat
          /\ stop \in Stops
      OBVIOUS
    <2> HIDE DEF sym, side, qty, price, stop
    <2>1. x \in Activity
      BY <2>0, NoActType DEF Activity
    <2>2. x.stage = approved /\ x.sym = sym /\ x.qty = qty
      BY NoActType DEF Activity
    <2> HIDE DEF x
    <2>3. StageOK(x)
      BY <2>0, <2>2 DEF StageOK
    <2>4. QED BY <2>1, <2>3
  <1> HIDE DEF r, q, trips, x
  <1>5. rm' \in Manager
    BY <1>1, <1>2, <1>3 DEF Manager
  <1>6. RiskSide'
    BY <1>1, <1>2, <1>5 DEF RiskSide
  <1>7. ActorSide'
    <2>1. CASE act' = [act EXCEPT ![a] = x]
      BY <1>4, <2>1, ActorMoves DEF BooksInv
    <2>2. CASE UNCHANGED act
      BY <2>2 DEF BooksInv, ActorSide, StagesOK
    <2>3. QED BY <1>1, <2>1, <2>2
  <1>8. AccountSide'
    BY <1>1 DEF BooksInv, AccountSide, account
  <1>9. Ledger'
    BY <1>1, ConstantTypes DEF BooksInv, Ledger, Idles
  <1>10. QED BY <1>1, <1>2, <1>6, <1>7, <1>8, <1>9 DEF BooksInv

(* Approvals.                                                               *)
LEMMA ToolAsksOK ==
    ASSUME BooksInv, NEW a \in Actors, NEW o \in Orders, ToolAsks(a, o)
    PROVE  BooksInv' /\ pf'.positions = pf.positions
  <1>1. /\ o.sym \in Symbols /\ o.side \in Sides /\ o.qty \in Nat \ {0}
        /\ o.price \in Nat /\ o.stop \in Stops
    BY ConstantTypes
  <1>2. Idles(a) /\ Decide(a, o, rm.balance, "toolApproved")
    BY DEF ToolAsks
  <1>3. QED BY <1>1, <1>2, DecideOK

LEMMA SafeSizeType ==
    ASSUME BooksInv, NEW s \in Signals
    PROVE  SafeSize(s) \in Int
  <1>1. s.price \in Nat /\ s.stop \in Nat /\ s.stop # s.price
    BY ConstantTypes
  <1>2. BalanceGiven \in Int
    BY DEF BooksInv, RiskSide, AccountSide, Manager, BalanceGiven
  <1> DEFINE away == 100 * Abs(s.price - s.stop)
             risk == RiskPct * BalanceGiven
  <1>3. away \in Nat \ {0}
    BY <1>1 DEF Abs
  <1>4. risk \in Int
    BY <1>2, ConstantTypes
  <1>5. SafeSize(s) = risk \div away
    BY DEF SafeSize
  <1> HIDE DEF away, risk
  <1>6. QED BY <1>3, <1>4, <1>5

LEMMA SignalAsksOK ==
    ASSUME BooksInv, NEW a \in Actors, NEW s \in Signals, SignalAsks(a, s)
    PROVE  BooksInv' /\ pf'.positions = pf.positions
  <1> DEFINE size == SafeSize(s)
             o == [sym |-> s.sym, side |-> s.side, qty |-> size, price |-> s.price,
                   stop |-> s.stop]
  <1>1. Idles(a) /\ size > 0 /\ Decide(a, o, BalanceGiven, "signalApproved")
    BY DEF SignalAsks
  <1>2. size \in Int
    BY SafeSizeType
  <1>3. s.sym \in Symbols /\ s.side \in Sides /\ s.price \in Nat /\ s.stop \in Stops
    BY ConstantTypes
  <1> HIDE DEF size
  <1>4. /\ o.sym \in Symbols /\ o.side \in Sides /\ o.qty \in Nat \ {0}
        /\ o.price \in Nat /\ o.stop \in Stops
    BY <1>1, <1>2, <1>3
  <1> HIDE DEF o
  <1>5. QED BY <1>1, <1>4, DecideOK

(* Orders.                                                                  *)
LEMMA ToolFillsOK ==
    ASSUME BooksInv, NEW a \in Actors, NEW p \in Prices, ToolFills(a, p)
    PROVE  BooksInv'
  <1> DEFINE x == [act[a] EXCEPT !.stage = "toolFilled", !.paid = p]
  <1>1. /\ act[a].stage = "toolApproved"
        /\ Trades(act[a].sym, act[a].side, act[a].qty, p)
        /\ act' = [act EXCEPT ![a] = x]
        /\ UNCHANGED <<day, rm, pf, rows, tries, stale, drift, realized>>
    BY DEF ToolFills, At
  <1>2. act[a] \in Activity /\ act[a].sym \in Symbols /\ act[a].side \in Sides
        /\ act[a].qty \in Nat \ {0} /\ p \in Nat
    BY <1>1, ActorAt, ConstantTypes DEF BooksInv
  <1>3. free' \in Nat /\ coins' \in [Symbols -> Nat]
    BY <1>1, <1>2, TradesOK DEF BooksInv
  <1>4. x \in Activity /\ x.stage = "toolFilled" /\ x.paid = p
        /\ x.sym = act[a].sym /\ x.qty = act[a].qty
    BY <1>2 DEF Activity
  <1>5. StageOK(x)
    <2> HIDE DEF x
    <2>1. QED BY <1>2, <1>4 DEF StageOK
  <1> HIDE DEF x
  <1>6. ActorSide'
    BY <1>1, <1>4, <1>5, ActorMoves DEF BooksInv
  <1>7. AccountSide' /\ Ledger' /\ RiskSide'
    BY <1>1, <1>3 DEF BooksInv, AccountSide, Ledger, RiskSide, PortfolioOK, AddsUp
  <1>8. QED BY <1>6, <1>7 DEF BooksInv

LEMMA SignalFillsOK ==
    ASSUME BooksInv, NEW a \in Actors, SignalFills(a)
    PROVE  BooksInv'
  <1> DEFINE x == [act[a] EXCEPT !.stage = "signalFilled"]
  <1>1. /\ act[a].stage = "signalApproved"
        /\ Trades(act[a].sym, act[a].side, act[a].qty, act[a].price)
        /\ act' = [act EXCEPT ![a] = x]
        /\ UNCHANGED <<day, rm, pf, rows, tries, stale, drift, realized>>
    BY DEF SignalFills, At, Goes
  <1>2. act[a] \in Activity /\ act[a].sym \in Symbols /\ act[a].side \in Sides
        /\ act[a].qty \in Nat \ {0} /\ act[a].price \in Nat
    BY <1>1, ActorAt DEF BooksInv
  <1>3. free' \in Nat /\ coins' \in [Symbols -> Nat]
    BY <1>1, <1>2, TradesOK DEF BooksInv
  <1>4. x \in Activity /\ x.stage = "signalFilled"
        /\ x.sym = act[a].sym /\ x.qty = act[a].qty
    BY <1>2 DEF Activity
  <1>5. StageOK(x)
    <2> HIDE DEF x
    <2>1. QED BY <1>2, <1>4 DEF StageOK
  <1> HIDE DEF x
  <1>6. ActorSide'
    BY <1>1, <1>4, <1>5, ActorMoves DEF BooksInv
  <1>7. AccountSide' /\ Ledger' /\ RiskSide'
    BY <1>1, <1>3 DEF BooksInv, AccountSide, Ledger, RiskSide, PortfolioOK, AddsUp
  <1>8. QED BY <1>6, <1>7 DEF BooksInv

LEMMA ToolOpensOK ==
    ASSUME BooksInv, NEW a \in Actors, ToolOpens(a)
    PROVE  /\ BooksInv'
           /\ act'[a].stage = "toolOpened" /\ act'[a].sym = act[a].sym
           /\ act'[a].qty = act[a].qty
           /\ \A s \in Symbols :
                RowQty(s)' = RowQty(s) + (IF s = act[a].sym THEN act[a].qty ELSE 0)
  <1> DEFINE x == [act[a] EXCEPT !.stage = "toolOpened"]
             o == act[a]
             cost == o.qty * o.paid
             row == IF rows[o.sym] = NoRow THEN [side |-> o.side, qty |-> o.qty, cost |-> cost]
                    ELSE [side |-> rows[o.sym].side, qty |-> rows[o.sym].qty + o.qty,
                          cost |-> rows[o.sym].cost + cost]
  <1>1. /\ act[a].stage = "toolFilled"
        /\ Trades(act[a].sym, act[a].side, act[a].qty, act[a].paid)
        /\ rows' = [rows EXCEPT ![o.sym] = row]
        /\ act' = [act EXCEPT ![a] = x]
        /\ UNCHANGED <<day, rm, pf, tries, stale, drift, realized>>
    <2>1. rows' = [rows EXCEPT ![o.sym] = row]
      BY DEF ToolOpens
    <2>2. QED BY <2>1, Zenon DEF ToolOpens, At, Goes
  <1>2. /\ act[a] \in Activity /\ act[a].sym \in Symbols /\ act[a].side \in Sides
        /\ act[a].qty \in Nat \ {0} /\ act[a].paid \in Prices /\ act[a].paid \in Nat
    BY <1>1, ActorAt, ConstantTypes DEF BooksInv, StageOK
  <1>3. free' \in Nat /\ coins' \in [Symbols -> Nat]
    BY <1>1, <1>2, TradesOK DEF BooksInv
  <1>4. cost \in Nat
    BY <1>2, TimesType
  <1>5. /\ row \in Row
        /\ row.qty = (IF rows[o.sym] = NoRow THEN 0 ELSE rows[o.sym].qty) + o.qty
    <2> HIDE DEF cost
    <2>1. CASE rows[o.sym] = NoRow
      BY <1>2, <1>4, <2>1 DEF Row
    <2>2. CASE rows[o.sym] # NoRow
      <3> DEFINE old == rows[o.sym]
                 qty == old.qty + o.qty
                 sum == old.cost + cost
      <3>1. old \in Row
        BY <1>2, <2>2 DEF BooksInv, AccountSide
      <3>2. qty \in Nat \ {0} /\ sum \in Nat
        BY <1>2, <1>4, <3>1 DEF Row
      <3>3. row = [side |-> old.side, qty |-> qty, cost |-> sum]
        BY <2>2
      <3>q. qty = old.qty + o.qty
        OBVIOUS
      <3> HIDE DEF qty, sum, row
      <3>4. row \in Row /\ row.qty = qty
        BY <3>1, <3>2, <3>3 DEF Row
      <3>5. QED BY <2>2, <3>4, <3>q
    <2>3. QED BY <2>1, <2>2
  <1> HIDE DEF row
  <1>6. rows' \in [Symbols -> Row \cup {NoRow}]
    BY <1>1, <1>2, <1>5 DEF BooksInv, AccountSide
  <1>7. ASSUME NEW s \in Symbols
        PROVE  RowQty(s)' = RowQty(s) + (IF s = act[a].sym THEN act[a].qty ELSE 0)
    <2>1. rows'[s] = IF s = o.sym THEN row ELSE rows[s]
      BY <1>1, <1>2 DEF BooksInv, AccountSide
    <2>2. row # NoRow
      BY <1>5, ConstantTypes
    <2>3. RowQty(s) \in Int
      BY DEF RowQty, BooksInv, AccountSide, Row
    <2>4. CASE s = o.sym
      BY <1>5, <2>1, <2>2, <2>4 DEF RowQty
    <2>5. CASE s # o.sym
      BY <2>1, <2>3, <2>5 DEF RowQty
    <2>6. QED BY <2>4, <2>5
  <1>8. x \in Activity /\ x.stage = "toolOpened" /\ x.paid = act[a].paid
        /\ x.sym = act[a].sym /\ x.qty = act[a].qty
    BY <1>2 DEF Activity
  <1>9. StageOK(x)
    <2> HIDE DEF x
    <2>1. QED BY <1>2, <1>8 DEF StageOK
  <1> HIDE DEF x
  <1>10. ActorSide' /\ act'[a] = x
    BY <1>1, <1>8, <1>9, ActorMoves DEF BooksInv, ActorSide
  <1>11. AccountSide' /\ Ledger' /\ RiskSide'
    BY <1>1, <1>3, <1>6 DEF BooksInv, AccountSide, Ledger, RiskSide, PortfolioOK, AddsUp
  <1>12. QED BY <1>7, <1>8, <1>10, <1>11 DEF BooksInv

(* Reports to the manager.                                                  *)
LEMMA ToolBooksOK ==
    ASSUME BooksInv, NEW a \in Actors, ToolBooks(a)
    PROVE  /\ BooksInv'
           /\ Entry(act[a]) \in Position
           /\ pf'.positions = Append(pf.positions, Entry(act[a]))
  <1> DEFINE p == Entry(act[a])
             count == Len(pf'.positions)
  <1>1. /\ act[a].stage = "toolOpened" /\ pf' = AddPosition(pf, p)
        /\ rm' = [rm EXCEPT !.count = count] /\ Finish(a) /\ Outdates(a)
        /\ UNCHANGED <<day, account, tries, drift, realized>>
    BY DEF ToolBooks, At
  <1>2. p \in Position
    BY <1>1, ActorAt DEF BooksInv, StageOK, Entry, Position
  <1>3. PortfolioOK(pf') /\ pf'.positions = Append(pf.positions, p)
    <2> HIDE DEF p
    <2>1. QED BY <1>1, <1>2, AddOK DEF BooksInv, RiskSide
  <1>4. count \in Nat
    BY <1>3 DEF PortfolioOK, Portfolio
  <1> HIDE DEF count
  <1>5. rm' \in Manager
    BY <1>1, <1>4 DEF BooksInv, RiskSide, Manager
  <1>6. ActorSide'
    BY <1>1, ActorFinishes DEF BooksInv
  <1>7. AccountSide'
    BY <1>1 DEF BooksInv, AccountSide, account
  <1>8. Ledger'
    BY <1>1 DEF BooksInv, Ledger, Outdates
  <1>9. QED BY <1>2, <1>3, <1>5, <1>6, <1>7, <1>8 DEF BooksInv, RiskSide

LEMMA SyncedOK ==
    ASSUME rm \in Manager, NEW table, NEW cash \in Nat
    PROVE  Synced(rm, table, cash) \in Manager
  <1> DEFINE count == Cardinality({s \in Symbols : table[s] # NoRow})
  <1>1. count \in Nat
    <2>1. {s \in Symbols : table[s] # NoRow} \in SUBSET Symbols
      OBVIOUS
    <2>2. IsFiniteSet({s \in Symbols : table[s] # NoRow})
      BY <2>1, AegisAssumption, FS_Subset
    <2>3. QED BY <2>2, FS_CardinalityType
  <1>2. Synced(rm, table, cash) = [rm EXCEPT !.count = count, !.balance = cash]
    BY DEF Synced
  <1> HIDE DEF count
  <1>3. cash \in Int
    OBVIOUS
  <1>4. QED BY <1>1, <1>2, <1>3 DEF Manager

LEMMA SignalSyncsOK ==
    ASSUME BooksInv, NEW a \in Actors, SignalSyncs(a)
    PROVE  BooksInv'
  <1>1. /\ rm' = Synced(rm, rows, free) /\ Finish(a)
        /\ UNCHANGED <<day, pf, account, tries, stale, drift, realized>>
    BY DEF SignalSyncs
  <1>2. rm' \in Manager
    BY <1>1, SyncedOK DEF BooksInv, RiskSide, AccountSide
  <1>3. ActorSide'
    BY <1>1, ActorFinishes DEF BooksInv
  <1>4. PortfolioOK(pf')
    BY <1>1 DEF BooksInv, RiskSide
  <1>5. AccountSide' /\ Ledger'
    BY <1>1 DEF BooksInv, AccountSide, Ledger, account
  <1>6. QED BY <1>2, <1>3, <1>4, <1>5 DEF BooksInv, RiskSide

(* Closes.                                                                  *)
LEMMA ToolClosesOK ==
    ASSUME BooksInv, NEW a \in Actors, NEW s \in Symbols, NEW p \in Prices,
           ToolCloses(a, s, p)
    PROVE  /\ BooksInv'
           /\ rows[s] \in Row
           /\ act'[a].stage = "closed" /\ act'[a].sym = s /\ act'[a].qty = rows[s].qty
  <1> DEFINE qty == rows[s].qty
             pnl == RowPnl(rows[s], p)
             x == [NoAct EXCEPT !.stage = "closed", !.sym = s, !.paid = p,
                                !.qty = qty, !.pnl = pnl]
  <1>1. /\ Idles(a) /\ tries' = tries + 1 /\ ClosesRow(s, p)
        /\ act' = [act EXCEPT ![a] = x] /\ stale' = stale \ {a}
        /\ UNCHANGED <<day, rm, pf, drift, realized>>
    BY DEF ToolCloses
  <1>2. AccountSide' /\ rows[s] \in Row /\ pnl \in Int
    BY <1>1, ClosesOK DEF BooksInv
  <1>3. qty \in Nat \ {0} /\ p \in Nat
    BY <1>2, ConstantTypes DEF Row
  <1>q. qty = rows[s].qty
    OBVIOUS
  <1> HIDE DEF qty, pnl
  <1>4. x \in Activity
    BY <1>2, <1>3, NoActType DEF Activity
  <1>5. x.stage = "closed" /\ x.sym = s /\ x.qty = qty /\ x.paid = p
    BY NoActType DEF Activity
  <1> HIDE DEF x
  <1>6. StageOK(x)
    BY <1>3, <1>5 DEF StageOK
  <1>7. ActorSide' /\ act'[a] = x
    BY <1>1, <1>4, <1>6, ActorMoves DEF BooksInv, ActorSide
  <1>8. RiskSide' /\ Ledger'
    <2>1. tries' \in 0 .. MaxTries
      BY <1>1, ConstantTypes DEF Idles, BooksInv, Ledger
    <2>2. QED BY <1>1, <2>1 DEF BooksInv, RiskSide, Ledger, PortfolioOK, AddsUp
  <1>9. QED BY <1>2, <1>5, <1>7, <1>8, <1>q DEF BooksInv

LEMMA ToolReportsOK ==
    ASSUME BooksInv, NEW a \in Actors, ToolReports(a)
    PROVE  /\ BooksInv'
           /\ drift' = {} =>
                LET k == IndexOf(pf, act[a].sym) IN
                /\ k \in 1 .. Len(pf.positions) /\ pf.positions[k].sym = act[a].sym
                /\ pf.positions[k].qty = act[a].qty
                /\ pf'.positions = RemoveAt(pf.positions, k)
  <1> DEFINE o == act[a]
             pnl == ClosedPnl(pf, o.sym, o.paid)
             k == IndexOf(pf, o.sym)
             count == Len(pf'.positions)
             profit == rm.dayPnl + pnl
  <1>1. /\ act[a].stage = "closed" /\ Finish(a) /\ Outdates(a)
        /\ realized' = realized + act[a].pnl
        /\ UNCHANGED <<day, account, tries>>
    BY DEF ToolReports, At
  <1>2. /\ act[a].sym \in Symbols /\ act[a].paid \in Prices /\ act[a].pnl \in Int
    BY <1>1, ActorAt DEF BooksInv, StageOK
  <1>3. ASSUME Tracks(pf, o.sym)
        PROVE  /\ RiskSide' /\ drift' \subseteq {"partlyClosed", "notTracked", "untold"}
               /\ drift' = {} =>
                    /\ k \in 1 .. Len(pf.positions) /\ pf.positions[k].sym = o.sym
                    /\ pf.positions[k].qty = o.qty
                    /\ pf'.positions = RemoveAt(pf.positions, k)
    <2>1. /\ pf' = RemovePosition(pf, o.sym, o.paid)
          /\ rm' = [rm EXCEPT !.count = count, !.dayPnl = profit]
          /\ drift' = drift \cup (IF pf.positions[k].qty # o.qty THEN {"partlyClosed"}
                                  ELSE {})
      BY <1>3 DEF ToolReports
    <2>2. /\ PortfolioOK(pf') /\ pf'.positions = RemoveAt(pf.positions, k)
          /\ pnl \in Int /\ k \in 1 .. Len(pf.positions) /\ pf.positions[k].sym = o.sym
      BY <1>2, <1>3, <2>1, RemoveOK DEF BooksInv, RiskSide
    <2>3. count \in Nat
      BY <2>2 DEF PortfolioOK, Portfolio
    <2>4. profit \in Int
      BY <2>2 DEF BooksInv, RiskSide, Manager
    <2> HIDE DEF count, profit, pnl
    <2>5. rm' \in Manager
      BY <2>1, <2>3, <2>4 DEF BooksInv, RiskSide, Manager
    <2>6. /\ drift' \subseteq {"partlyClosed", "notTracked", "untold"}
          /\ drift' = {} => pf.positions[k].qty = o.qty
      BY <2>1 DEF BooksInv, Ledger
    <2>7. QED BY <2>2, <2>5, <2>6 DEF RiskSide
  <1>4. ASSUME ~Tracks(pf, o.sym)
        PROVE  /\ RiskSide' /\ drift' \subseteq {"partlyClosed", "notTracked", "untold"}
               /\ drift' = {} =>
                    /\ k \in 1 .. Len(pf.positions) /\ pf.positions[k].sym = o.sym
                    /\ pf.positions[k].qty = o.qty
                    /\ pf'.positions = RemoveAt(pf.positions, k)
    <2> DEFINE same == Len(pf.positions)
    <2>1. /\ rm' = [rm EXCEPT !.count = same] /\ pf' = pf
          /\ drift' = drift \cup {"notTracked"}
      BY <1>4 DEF ToolReports
    <2>2. same \in Nat
      BY DEF BooksInv, RiskSide, PortfolioOK, Portfolio
    <2> HIDE DEF same
    <2>3. rm' \in Manager
      BY <2>1, <2>2 DEF BooksInv, RiskSide, Manager
    <2>4. PortfolioOK(pf')
      BY <2>1 DEF BooksInv, RiskSide
    <2>5. drift' \subseteq {"partlyClosed", "notTracked", "untold"} /\ drift' # {}
      BY <2>1 DEF BooksInv, Ledger
    <2>6. QED BY <2>3, <2>4, <2>5 DEF RiskSide
  <1>5. /\ RiskSide' /\ drift' \subseteq {"partlyClosed", "notTracked", "untold"}
        /\ drift' = {} =>
             /\ k \in 1 .. Len(pf.positions) /\ pf.positions[k].sym = o.sym
             /\ pf.positions[k].qty = o.qty
             /\ pf'.positions = RemoveAt(pf.positions, k)
    BY <1>3, <1>4 DEF RiskSide, BooksInv, Ledger
  <1>6. ActorSide'
    BY <1>1, ActorFinishes DEF BooksInv
  <1>7. AccountSide'
    BY <1>1 DEF BooksInv, AccountSide, account
  <1>8. Ledger'
    <2>1. stale' \subseteq Actors /\ realized' \in Int
      BY <1>1, <1>2 DEF BooksInv, Ledger, Outdates
    <2>2. QED BY <1>1, <1>5, <2>1 DEF BooksInv, Ledger
  <1> HIDE DEF k
  <1>9. BooksInv'
    BY <1>5, <1>6, <1>7, <1>8 DEF BooksInv
  <1>10. QED BY <1>5, <1>9 DEF k

LEMMA CloseAllClosesOK ==
    ASSUME BooksInv, NEW s \in Symbols, NEW p \in Prices, CloseAllCloses(s, p)
    PROVE  BooksInv'
  <1>1. /\ ClosesRow(s, p) /\ drift' = drift \cup {"untold"}
        /\ UNCHANGED <<day, rm, pf, act, tries, stale, realized>>
    BY DEF CloseAllCloses
  <1>2. AccountSide'
    BY <1>1, ClosesOK DEF BooksInv
  <1>3. RiskSide' /\ ActorSide' /\ Ledger'
    BY <1>1 DEF BooksInv, RiskSide, ActorSide, StagesOK, Ledger, PortfolioOK, AddsUp
  <1>4. QED BY <1>2, <1>3 DEF BooksInv

LEMMA TrailingClosesOK ==
    ASSUME BooksInv, NEW s \in Symbols, NEW p \in Prices, TrailingCloses(s, p)
    PROVE  BooksInv'
  <1>1. /\ ClosesRow(s, p) /\ drift' = drift \cup {"untold"}
        /\ rm' = Synced(rm, rows', free')
        /\ UNCHANGED <<day, pf, act, tries, stale, realized>>
    BY DEF TrailingCloses
  <1>2. AccountSide'
    BY <1>1, ClosesOK DEF BooksInv
  <1>3. rm' \in Manager
    <2>1. free' \in Nat
      BY <1>2 DEF AccountSide
    <2>2. QED BY <1>1, <2>1, SyncedOK DEF BooksInv, RiskSide
  <1>4. RiskSide' /\ ActorSide' /\ Ledger'
    BY <1>1, <1>3 DEF BooksInv, RiskSide, ActorSide, StagesOK, Ledger, PortfolioOK, AddsUp
  <1>5. QED BY <1>2, <1>4 DEF BooksInv

LEMMA GivesUpOK ==
    ASSUME BooksInv, NEW a \in Actors, GivesUp(a)
    PROVE  BooksInv'
  <1>1. /\ Finish(a)
        /\ drift' = drift \/ drift' = drift \cup {"untold"}
        /\ UNCHANGED <<day, rm, pf, account, tries, stale, realized>>
    BY DEF GivesUp
  <1>2. ActorSide'
    BY <1>1, ActorFinishes DEF BooksInv
  <1>3. RiskSide' /\ AccountSide' /\ Ledger'
    BY <1>1 DEF BooksInv, RiskSide, AccountSide, Ledger, account, PortfolioOK, AddsUp
  <1>4. QED BY <1>2, <1>3 DEF BooksInv

LEMMA MidnightOK == ASSUME BooksInv, Midnight PROVE BooksInv'
  <1>1. /\ day < MaxDays /\ day' = day + 1 /\ realized' = 0
        /\ UNCHANGED <<rm, pf, account, act, tries, stale, drift>>
    BY DEF Midnight
  <1>2. Ledger'
    BY <1>1, ConstantTypes DEF BooksInv, Ledger
  <1>3. RiskSide' /\ AccountSide' /\ ActorSide'
    BY <1>1 DEF BooksInv, RiskSide, AccountSide, ActorSide, StagesOK, account,
                PortfolioOK, AddsUp
  <1>4. QED BY <1>2, <1>3 DEF BooksInv

LEMMA NextBooks == BooksInv /\ [Next]_vars => BooksInv'
  <1>1. SUFFICES ASSUME BooksInv, [Next]_vars PROVE BooksInv'
    OBVIOUS
  <1>2. ASSUME NEW a \in Actors,
               \/ \E o \in Orders : ToolAsks(a, o)
               \/ \E p \in Prices : ToolFills(a, p)
               \/ ToolOpens(a) \/ ToolBooks(a)
               \/ \E s \in Signals : SignalAsks(a, s)
               \/ SignalFills(a) \/ SignalSyncs(a)
               \/ \E s \in Symbols, p \in Prices : ToolCloses(a, s, p)
               \/ ToolReports(a) \/ GivesUp(a)
        PROVE  BooksInv'
    BY <1>1, <1>2, Zenon, ToolAsksOK, ToolFillsOK, ToolOpensOK, ToolBooksOK, SignalAsksOK,
       SignalFillsOK, SignalSyncsOK, ToolClosesOK, ToolReportsOK, GivesUpOK
  <1>3. ASSUME NEW s \in Symbols, NEW p \in Prices,
               CloseAllCloses(s, p) \/ TrailingCloses(s, p)
        PROVE  BooksInv'
    BY <1>1, <1>3, CloseAllClosesOK, TrailingClosesOK
  <1>4. CASE Midnight
    BY <1>1, <1>4, MidnightOK
  <1>5. CASE UNCHANGED vars
    BY <1>1, <1>5 DEF vars, account, BooksInv, RiskSide, AccountSide, ActorSide, StagesOK,
                      Ledger, PortfolioOK, AddsUp
  <1>6. QED BY <1>1, <1>2, <1>3, <1>4, <1>5, Zenon DEF Next

LEMMA InitBooks == Init => BooksInv
  <1>1. SUFFICES ASSUME Init PROVE BooksInv
    OBVIOUS
  <1>2. rm = [balance |-> InitialBalance, dayStart |-> InitialBalance, dayPnl |-> 0,
              count |-> 0, breaker |-> FALSE, lastReset |-> 0]
    BY <1>1 DEF Init
  <1>3. pf = [total |-> InitialBalance, cash |-> InitialBalance, peak |-> InitialBalance,
              positions |-> <<>>, dayStart |-> InitialBalance, dayPnl |-> 0,
              today |-> 0, weekPnl |-> 0, hour |-> 0, losses |-> 0]
    BY <1>1 DEF Init
  <1>4. InitialBalance \in Int /\ InitialBalance \in Nat /\ 0 \in 0 .. MaxDays
    BY ConstantTypes
  <1>5. rm \in Manager
    BY <1>2, <1>4 DEF Manager
  <1>6. pf \in Portfolio
    BY <1>3, <1>4 DEF Portfolio
  <1>7. SumOf(EntryValue, pf.positions) = 0 /\ TotalExposure(pf) = 0
    <2>1. <<>> \in Seq(Position) /\ Len(<<>>) = 0
      OBVIOUS
    <2>2. SumSeq(EachOf(EntryOf, <<>>)) = 0 /\ SumSeq(EachOf(ValueOf, <<>>)) = 0
      <3>1. EntryOf \in [Position -> Int] /\ ValueOf \in [Position -> Int]
        BY <2>1, PositionSums
      <3>2. /\ EachOf(EntryOf, <<>>) \in Seq(Int) /\ Len(EachOf(EntryOf, <<>>)) = 0
            /\ EachOf(ValueOf, <<>>) \in Seq(Int) /\ Len(EachOf(ValueOf, <<>>)) = 0
        BY <2>1, <3>1, EachOfType
      <3>3. QED BY <3>2, SumOfNothing
    <2>3. pf.positions = <<>>
      BY <1>3
    <2>4. SumOf(EntryValue, <<>>) = 0 /\ SumOf(PositionValue, <<>>) = 0
      BY <2>1, <2>2, PositionSums
    <2>5. QED BY <2>3, <2>4 DEF TotalExposure
  <1>8. PortfolioOK(pf)
    <2>1. pf.cash = InitialBalance /\ pf.total = InitialBalance /\ pf.peak = InitialBalance
          /\ pf.weekPnl = 0
      BY <1>3
    <2>2. QED BY <1>4, <1>6, <1>7, <2>1 DEF PortfolioOK, AddsUp
  <1>9. AccountSide
    BY <1>1, <1>4 DEF Init, AccountSide
  <1>10. ActorSide
    BY <1>1, NoActType DEF Init, ActorSide, StagesOK
  <1>11. Ledger
    BY <1>1, ConstantTypes DEF Init, Ledger
  <1>12. QED BY <1>5, <1>8, <1>9, <1>10, <1>11 DEF BooksInv, RiskSide

THEOREM BooksInvariant == Spec => []BooksInv
  <1>1. QED BY InitBooks, NextBooks, PTL DEF Spec

(* Every variable keeps its type, whatever is asked, traded, cancelled or   *)
(* reset: cash and coins are never negative (CanTrade), and every position  *)
(* that is booked has a symbol, a quantity and a price.                     *)
THEOREM TypeCorrect == Spec => []TypeOK
  <1>1. BooksInv => TypeOK
    BY DEF BooksInv, TypeOK, RiskSide, AccountSide, ActorSide, Ledger, PortfolioOK
  <1>2. QED BY <1>1, BooksInvariant, PTL

(* The portfolio adds up through every entry, close and reset, for any      *)
(* orders, prices and limits: its cash and its positions at their entry are *)
(* what it started with and earned, its total is cash and exposure, and its *)
(* peak is never behind (portfolio.py:206-274, 289-304).                    *)
THEOREM PortfolioAddsUpCorrect == Spec => []PortfolioAddsUp
  <1>1. BooksInv => PortfolioAddsUp
    BY DEF BooksInv, RiskSide, PortfolioOK, AddsUp, PortfolioAddsUp
  <1>2. QED BY <1>1, BooksInvariant, PTL

-----------------------------------------------------------------------------
(* The portfolio and the account.  Between a trade and its report the two   *)
(* differ by what the actors on their way have not told yet: the invariant  *)
(* adds that up over the actors, taken in some fixed order.                 *)

Many == Cardinality(Actors)
Turn == CHOOSE f : f \in Bijection(1 .. Many, Actors)

Pending(o, s) ==
    IF o.sym = s /\ o.stage = "toolOpened" THEN o.qty
    ELSE IF o.sym = s /\ o.stage = "closed" THEN -o.qty ELSE 0

Shares(s) == [i \in 1 .. Many |-> Pending(act[Turn[i]], s)]
Untold(s) == SumSeq(Shares(s))

Accounted ==
    drift = {} => \A s \in Symbols : TrackedQty(s) + Untold(s) = RowQty(s)

MatchInv == BooksInv /\ Accounted

LEMMA TurnType ==
    /\ Many \in Nat
    /\ Turn \in [1 .. Many -> Actors]
    /\ \A a \in Actors : \E i \in 1 .. Many : Turn[i] = a
    /\ \A i, j \in 1 .. Many : Turn[i] = Turn[j] => i = j
  <1>1. Many \in Nat /\ ExistsBijection(1 .. Many, Actors)
    BY FS_CardinalityType, AegisAssumption DEF Many
  <1>2. Turn \in Bijection(1 .. Many, Actors)
    BY <1>1 DEF ExistsBijection, Turn
  <1>3. Turn \in Injection(1 .. Many, Actors) /\ Turn \in Surjection(1 .. Many, Actors)
    BY <1>2 DEF Bijection
  <1>4. /\ Turn \in [1 .. Many -> Actors]
        /\ \A i, j \in 1 .. Many : Turn[i] = Turn[j] => i = j
    BY <1>3 DEF Injection, IsInjective
  <1>5. \A a \in Actors : \E i \in 1 .. Many : Turn[i] = a
    BY <1>3, Zenon DEF Surjection
  <1>6. QED BY <1>1, <1>4, <1>5

(* What a symbol's share is, for the activities of one state.               *)
SharesOf(f, s) == [i \in 1 .. Many |-> Pending(f[Turn[i]], s)]

LEMMA PendingType ==
    ASSUME NEW x \in Activity, NEW s
    PROVE  Pending(x, s) \in Int
  BY DEF Pending, Activity

LEMMA SharesType ==
    ASSUME NEW f \in [Actors -> Activity], NEW s
    PROVE  /\ SharesOf(f, s) \in Seq(Int) /\ Len(SharesOf(f, s)) = Many
           /\ \A i \in 1 .. Many : SharesOf(f, s)[i] = Pending(f[Turn[i]], s)
           /\ SumSeq(SharesOf(f, s)) \in Int
  <1>1. \A i \in 1 .. Many : Pending(f[Turn[i]], s) \in Int
    BY TurnType, PendingType
  <1>2. /\ SharesOf(f, s) \in Seq(Int) /\ Len(SharesOf(f, s)) = Many
        /\ \A i \in 1 .. Many : SharesOf(f, s)[i] = Pending(f[Turn[i]], s)
    BY <1>1, TurnType DEF SharesOf
  <1>3. QED BY <1>2, SumType

LEMMA ShareMoves ==
    ASSUME NEW f \in [Actors -> Activity], NEW g \in [Actors -> Activity], NEW a \in Actors,
           \A b \in Actors : b # a => g[b] = f[b], NEW s
    PROVE  SumSeq(SharesOf(g, s))
             = SumSeq(SharesOf(f, s)) + Pending(g[a], s) - Pending(f[a], s)
  <1> DEFINE v == SharesOf(f, s)
             w == SharesOf(g, s)
  <1>1. PICK k \in 1 .. Many : Turn[k] = a
    BY TurnType
  <1>2. /\ v \in Seq(Int) /\ Len(v) = Many
        /\ \A i \in 1 .. Many : v[i] = Pending(f[Turn[i]], s)
    BY SharesType
  <1>3. /\ w \in Seq(Int) /\ Len(w) = Many
        /\ \A i \in 1 .. Many : w[i] = Pending(g[Turn[i]], s)
    BY SharesType
  <1>4. \A i \in 1 .. Many : i # k => w[i] = v[i]
    <2>1. ASSUME NEW i \in 1 .. Many, i # k PROVE w[i] = v[i]
      <3>1. Turn[i] \in Actors /\ Turn[i] # a
        BY <1>1, <2>1, TurnType
      <3>2. g[Turn[i]] = f[Turn[i]]
        BY <3>1
      <3>3. QED BY <1>2, <1>3, <3>2
    <2>2. QED BY <2>1
  <1>5. v[k] = Pending(f[a], s) /\ w[k] = Pending(g[a], s)
    BY <1>1, <1>2, <1>3
  <1> HIDE DEF v, w
  <1>6. SumSeq(w) = SumSeq(v) + w[k] - v[k]
    BY <1>1, <1>2, <1>3, <1>4, SumReplace
  <1>7. QED BY <1>5, <1>6 DEF v, w

(* The tracked quantity of a symbol.                                        *)
QtyOf(s) == [p \in Position |-> IF p.sym = s THEN p.qty ELSE 0]
TrackedIn(ps, s) == SumSeq(EachOf(QtyOf(s), ps))

LEMMA TrackedType ==
    ASSUME NEW ps \in Seq(Position), NEW s
    PROVE  /\ QtyOf(s) \in [Position -> Int] /\ TrackedIn(ps, s) \in Int
           /\ \A p \in Position : QtyOf(s)[p] = IF p.sym = s THEN p.qty ELSE 0
  <1>1. QtyOf(s) \in [Position -> Int]
    BY DEF QtyOf, Position
  <1>2. TrackedIn(ps, s) \in Int
    BY <1>1, EachOfType DEF TrackedIn
  <1>3. QED BY <1>1, <1>2 DEF QtyOf

LEMMA TrackedIs ==
    ASSUME pf.positions \in Seq(Position), NEW s
    PROVE  TrackedQty(s) = TrackedIn(pf.positions, s)
  <1> DEFINE ps == pf.positions
             Qty(p) == IF p.sym = s THEN p.qty ELSE 0
  <1>1. \A i \in 1 .. Len(ps) : ps[i] \in Position
    OBVIOUS
  <1>2. [i \in 1 .. Len(ps) |-> Qty(ps[i])] = EachOf(QtyOf(s), ps)
    BY <1>1 DEF EachOf, QtyOf
  <1>3. TrackedQty(s) = SumSeq([i \in 1 .. Len(ps) |-> Qty(ps[i])])
    BY DEF TrackedQty, SumOf
  <1>4. QED BY <1>2, <1>3 DEF TrackedIn

LEMMA TrackedIsNext ==
    ASSUME pf'.positions \in Seq(Position), NEW s
    PROVE  TrackedQty(s)' = TrackedIn(pf'.positions, s)
  <1> DEFINE ps == pf'.positions
             Qty(p) == IF p.sym = s THEN p.qty ELSE 0
  <1>1. \A i \in 1 .. Len(ps) : ps[i] \in Position
    OBVIOUS
  <1>2. [i \in 1 .. Len(ps) |-> Qty(ps[i])] = EachOf(QtyOf(s), ps)
    BY <1>1 DEF EachOf, QtyOf
  <1>3. TrackedQty(s)' = SumSeq([i \in 1 .. Len(ps) |-> Qty(ps[i])])
    BY DEF TrackedQty, SumOf
  <1>4. QED BY <1>2, <1>3 DEF TrackedIn

(* A step that moves one actor keeps the account, when what it changes in   *)
(* the portfolio, the rows and the actor's share balance.                   *)
Balanced(a, s) ==
    TrackedIn(pf'.positions, s) + Pending(act'[a], s) - RowQty(s)'
      = TrackedIn(pf.positions, s) + Pending(act[a], s) - RowQty(s)

LEMMA StepAccounts ==
    ASSUME MatchInv, BooksInv', NEW a \in Actors,
           \A b \in Actors : b # a => act'[b] = act[b],
           drift' = {} => drift = {} /\ \A s \in Symbols : Balanced(a, s)
    PROVE  MatchInv'
  <1>1. SUFFICES ASSUME drift' = {}, NEW s \in Symbols
                 PROVE  TrackedQty(s)' + Untold(s)' = RowQty(s)'
    BY DEF MatchInv, Accounted
  <1>2. pf.positions \in Seq(Position) /\ pf'.positions \in Seq(Position)
    BY DEF MatchInv, BooksInv, RiskSide, PortfolioOK, Portfolio
  <1>3. act \in [Actors -> Activity] /\ act' \in [Actors -> Activity]
    BY DEF MatchInv, BooksInv, ActorSide
  <1>4. RowQty(s) \in Int /\ RowQty(s)' \in Int
    BY DEF MatchInv, BooksInv, AccountSide, RowQty, Row
  <1> DEFINE T == TrackedIn(pf.positions, s)
             T2 == TrackedIn(pf'.positions, s)
             U == SumSeq(SharesOf(act, s))
             U2 == SumSeq(SharesOf(act', s))
             P == Pending(act[a], s)
             P2 == Pending(act'[a], s)
             R == RowQty(s)
             R2 == RowQty(s)'
  <1>5. T \in Int /\ T2 \in Int /\ U \in Int /\ U2 \in Int /\ P \in Int /\ P2 \in Int
        /\ R \in Int /\ R2 \in Int
    BY <1>2, <1>3, <1>4, TrackedType, SharesType, PendingType
  <1>6. T2 + P2 - R2 = T + P - R
    BY <1>1 DEF Balanced
  <1>7. U2 = U + P2 - P
    BY <1>3, ShareMoves
  <1>8. TrackedQty(s) = T /\ TrackedQty(s)' = T2
    BY <1>2, TrackedIs, TrackedIsNext
  <1>9. Untold(s) = U /\ Untold(s)' = U2
    BY DEF Untold, Shares, SharesOf
  <1>10. T + U = R
    BY <1>1, <1>8, <1>9 DEF MatchInv, Accounted
  <1> HIDE DEF T, T2, U, U2, P, P2, R, R2
  <1>11. T2 + U2 = R2
    BY <1>5, <1>6, <1>7, <1>10
  <1>12. QED BY <1>8, <1>9, <1>11 DEF R2

(* A step that neither tells nor leaves anything to tell.                   *)
Quiet(x) == x.stage \notin {"toolOpened", "closed"}

LEMMA QuietStep ==
    ASSUME MatchInv, BooksInv', NEW a \in Actors,
           \A b \in Actors : b # a => act'[b] = act[b],
           pf'.positions = pf.positions,
           drift' = {} => drift = {} /\ rows' = rows /\ Quiet(act[a]) /\ Quiet(act'[a])
    PROVE  MatchInv'
  <1>1. ASSUME drift' = {} PROVE drift = {} /\ \A s \in Symbols : Balanced(a, s)
    <2>1. ASSUME NEW s \in Symbols PROVE Balanced(a, s)
      <3>1. Pending(act[a], s) = 0 /\ Pending(act'[a], s) = 0
        BY <1>1 DEF Pending, Quiet
      <3>2. RowQty(s)' = RowQty(s)
        BY <1>1 DEF RowQty
      <3>3. QED BY <3>1, <3>2 DEF Balanced
    <2>2. QED BY <1>1, <2>1
  <1>2. QED BY <1>1, StepAccounts

LEMMA ActorChange ==
    ASSUME ActorSide, NEW a \in Actors, NEW x, act' = [act EXCEPT ![a] = x]
    PROVE  act'[a] = x /\ \A b \in Actors : b # a => act'[b] = act[b]
  BY DEF ActorSide

LEMMA DecideQuiet ==
    ASSUME BooksInv, NEW a \in Actors, NEW o, NEW balance, Idles(a),
           NEW approved \in {"toolApproved", "signalApproved"},
           Decide(a, o, balance, approved)
    PROVE  /\ \A b \in Actors : b # a => act'[b] = act[b]
           /\ Quiet(act[a]) /\ Quiet(act'[a]) /\ rows' = rows /\ drift' = drift
  <1> DEFINE sym == o.sym
             side == o.side
             qty == o.qty
             price == o.price
             stop == o.stop
             x == [NoAct EXCEPT !.stage = approved, !.sym = sym, !.side = side,
                                !.qty = qty, !.price = price, !.stop = stop]
  <1>1. /\ \/ act' = [act EXCEPT ![a] = x]
           \/ act' = act
        /\ rows' = rows /\ drift' = drift
    BY DEF Decide, account
  <1>2. act[a] = NoAct /\ NoAct.stage = "idle"
    BY DEF Idles, NoAct
  <1> HIDE DEF sym, side, qty, price, stop
  <1>3. x.stage = approved
    BY NoActType DEF Activity
  <1> HIDE DEF x
  <1>4. Quiet(x) /\ Quiet(NoAct)
    BY <1>2, <1>3 DEF Quiet
  <1>5. CASE act' = [act EXCEPT ![a] = x]
    BY <1>1, <1>2, <1>4, <1>5, ActorChange DEF BooksInv
  <1>6. CASE act' = act
    BY <1>1, <1>2, <1>4, <1>6
  <1>7. QED BY <1>1, <1>5, <1>6

LEMMA FinishQuiet ==
    ASSUME BooksInv, NEW a \in Actors, Finish(a)
    PROVE  /\ \A b \in Actors : b # a => act'[b] = act[b]
           /\ act'[a] = NoAct /\ Quiet(act'[a]) /\ \A s : Pending(act'[a], s) = 0
  <1>1. act'[a] = NoAct /\ \A b \in Actors : b # a => act'[b] = act[b]
    BY ActorChange DEF BooksInv, Finish
  <1>2. NoAct.stage = "idle"
    BY DEF NoAct
  <1>3. QED BY <1>1, <1>2 DEF Quiet, Pending

LEMMA AsksMatch ==
    ASSUME MatchInv, NEW a \in Actors,
           \/ \E o \in Orders : ToolAsks(a, o)
           \/ \E s \in Signals : SignalAsks(a, s)
    PROVE  MatchInv'
  <1>1. ASSUME NEW o \in Orders, ToolAsks(a, o) PROVE MatchInv'
    <2>1. BooksInv' /\ pf'.positions = pf.positions
      BY <1>1, ToolAsksOK DEF MatchInv
    <2>2. /\ \A b \in Actors : b # a => act'[b] = act[b]
          /\ Quiet(act[a]) /\ Quiet(act'[a]) /\ rows' = rows /\ drift' = drift
      <3>1. Idles(a) /\ Decide(a, o, rm.balance, "toolApproved")
        BY <1>1 DEF ToolAsks
      <3>2. QED BY <3>1, DecideQuiet DEF MatchInv
    <2>3. QED BY <2>1, <2>2, QuietStep
  <1>2. ASSUME NEW s \in Signals, SignalAsks(a, s) PROVE MatchInv'
    <2> DEFINE o == [sym |-> s.sym, side |-> s.side, qty |-> SafeSize(s),
                     price |-> s.price, stop |-> s.stop]
    <2>1. BooksInv' /\ pf'.positions = pf.positions
      BY <1>2, SignalAsksOK DEF MatchInv
    <2>2. Idles(a) /\ Decide(a, o, BalanceGiven, "signalApproved")
      BY <1>2 DEF SignalAsks
    <2> HIDE DEF o
    <2>3. /\ \A b \in Actors : b # a => act'[b] = act[b]
          /\ Quiet(act[a]) /\ Quiet(act'[a]) /\ rows' = rows /\ drift' = drift
      BY <2>2, DecideQuiet DEF MatchInv
    <2>4. QED BY <2>1, <2>3, QuietStep
  <1>3. QED BY <1>1, <1>2

LEMMA FillsMatch ==
    ASSUME MatchInv, NEW a \in Actors,
           \/ \E p \in Prices : ToolFills(a, p)
           \/ SignalFills(a) \/ SignalSyncs(a) \/ GivesUp(a)
    PROVE  MatchInv'
  <1>1. ASSUME NEW p \in Prices, ToolFills(a, p) PROVE MatchInv'
    <2> DEFINE x == [act[a] EXCEPT !.stage = "toolFilled", !.paid = p]
    <2>1. /\ act[a].stage = "toolApproved" /\ act' = [act EXCEPT ![a] = x]
          /\ UNCHANGED <<pf, rows, drift>>
      BY <1>1 DEF ToolFills, At
    <2>2. x.stage = "toolFilled"
      BY ActorAt DEF MatchInv, BooksInv, Activity
    <2> HIDE DEF x
    <2>3. act'[a] = x /\ \A b \in Actors : b # a => act'[b] = act[b]
      BY <2>1, ActorChange DEF MatchInv, BooksInv
    <2>4. Quiet(act[a]) /\ Quiet(act'[a])
      BY <2>1, <2>2, <2>3 DEF Quiet
    <2>5. BooksInv'
      BY <1>1, ToolFillsOK DEF MatchInv
    <2>6. QED BY <2>1, <2>3, <2>4, <2>5, QuietStep
  <1>2. CASE SignalFills(a)
    <2> DEFINE x == [act[a] EXCEPT !.stage = "signalFilled"]
    <2>1. /\ act[a].stage = "signalApproved" /\ act' = [act EXCEPT ![a] = x]
          /\ UNCHANGED <<pf, rows, drift>>
      BY <1>2 DEF SignalFills, At, Goes
    <2>2. x.stage = "signalFilled"
      BY ActorAt DEF MatchInv, BooksInv, Activity
    <2> HIDE DEF x
    <2>3. act'[a] = x /\ \A b \in Actors : b # a => act'[b] = act[b]
      BY <2>1, ActorChange DEF MatchInv, BooksInv
    <2>4. Quiet(act[a]) /\ Quiet(act'[a])
      BY <2>1, <2>2, <2>3 DEF Quiet
    <2>5. BooksInv'
      BY <1>2, SignalFillsOK DEF MatchInv
    <2>6. QED BY <2>1, <2>3, <2>4, <2>5, QuietStep
  <1>3. CASE SignalSyncs(a)
    <2>1. /\ act[a].stage = "signalFilled" /\ Finish(a) /\ UNCHANGED <<pf, rows, drift>>
      BY <1>3 DEF SignalSyncs, At, account
    <2>2. Quiet(act[a]) /\ Quiet(act'[a]) /\ \A b \in Actors : b # a => act'[b] = act[b]
      BY <2>1, FinishQuiet DEF Quiet, MatchInv
    <2>3. BooksInv'
      BY <1>3, SignalSyncsOK DEF MatchInv
    <2>4. QED BY <2>1, <2>2, <2>3, QuietStep
  <1>4. CASE GivesUp(a)
    <2>1. /\ Finish(a) /\ UNCHANGED <<pf, rows>>
          /\ drift' = drift \cup (IF act[a].stage \in {"toolOpened", "closed"}
                                  THEN {"untold"} ELSE {})
      BY <1>4 DEF GivesUp, account
    <2>2. Quiet(act'[a]) /\ \A b \in Actors : b # a => act'[b] = act[b]
      BY <2>1, FinishQuiet DEF MatchInv
    <2>3. drift' = {} => drift = {} /\ Quiet(act[a])
      BY <2>1 DEF Quiet
    <2>4. BooksInv'
      BY <1>4, GivesUpOK DEF MatchInv
    <2>5. QED BY <2>1, <2>2, <2>3, <2>4, QuietStep
  <1>5. QED BY <1>1, <1>2, <1>3, <1>4

LEMMA ToolOpensMatches ==
    ASSUME MatchInv, NEW a \in Actors, ToolOpens(a)
    PROVE  MatchInv'
  <1>1. /\ BooksInv' /\ act'[a].stage = "toolOpened" /\ act'[a].sym = act[a].sym
        /\ act'[a].qty = act[a].qty
        /\ \A s \in Symbols :
             RowQty(s)' = RowQty(s) + (IF s = act[a].sym THEN act[a].qty ELSE 0)
    BY ToolOpensOK DEF MatchInv
  <1>2. act[a].stage = "toolFilled" /\ Goes(a, "toolOpened") /\ UNCHANGED <<pf, drift>>
    BY DEF ToolOpens, At
  <1>3. \A b \in Actors : b # a => act'[b] = act[b]
    BY <1>2 DEF Goes, MatchInv, BooksInv, ActorSide
  <1>4. ASSUME NEW s \in Symbols PROVE Balanced(a, s)
    <2>1. pf.positions \in Seq(Position)
      BY DEF MatchInv, BooksInv, RiskSide, PortfolioOK, Portfolio
    <2>2. TrackedIn(pf.positions, s) \in Int
      BY <2>1, TrackedType
    <2>3. RowQty(s) \in Int
      BY DEF MatchInv, BooksInv, AccountSide, RowQty, Row
    <2>4. act[a].qty \in Int
      BY ActorAt DEF MatchInv, BooksInv, Activity
    <2>5. Pending(act[a], s) = 0
      BY <1>2 DEF Pending
    <2>6. Pending(act'[a], s) = IF s = act[a].sym THEN act[a].qty ELSE 0
      BY <1>1 DEF Pending
    <2>7. RowQty(s)' = RowQty(s) + Pending(act'[a], s) /\ Pending(act'[a], s) \in Int
      BY <1>1, <2>4, <2>6
    <2>8. pf'.positions = pf.positions
      BY <1>2
    <2> DEFINE T == TrackedIn(pf.positions, s)
               R == RowQty(s)
               R2 == RowQty(s)'
               P2 == Pending(act'[a], s)
    <2>9. T \in Int /\ R \in Int /\ P2 \in Int /\ R2 = R + P2
      BY <2>2, <2>3, <2>7
    <2> HIDE DEF T, R, R2, P2
    <2>10. T + P2 - R2 = T + 0 - R
      BY <2>9
    <2>11. QED BY <2>5, <2>8, <2>10 DEF Balanced, T, R, R2, P2
  <1>5. QED BY <1>1, <1>2, <1>3, <1>4, StepAccounts

LEMMA ToolBooksMatches ==
    ASSUME MatchInv, NEW a \in Actors, ToolBooks(a)
    PROVE  MatchInv'
  <1> DEFINE p == Entry(act[a])
  <1>1. BooksInv' /\ p \in Position /\ pf'.positions = Append(pf.positions, p)
    BY ToolBooksOK DEF MatchInv
  <1>2. act[a].stage = "toolOpened" /\ Finish(a) /\ UNCHANGED <<rows, drift>>
    BY DEF ToolBooks, At, account
  <1>3. /\ \A b \in Actors : b # a => act'[b] = act[b]
        /\ \A s : Pending(act'[a], s) = 0
    BY <1>2, FinishQuiet DEF MatchInv
  <1>4. p.sym = act[a].sym /\ p.qty = act[a].qty
    BY DEF Entry
  <1> HIDE DEF p
  <1>5. ASSUME NEW s \in Symbols PROVE Balanced(a, s)
    <2>1. pf.positions \in Seq(Position)
      BY DEF MatchInv, BooksInv, RiskSide, PortfolioOK, Portfolio
    <2>2. QtyOf(s) \in [Position -> Int] /\ QtyOf(s)[p] = IF p.sym = s THEN p.qty ELSE 0
      BY <1>1, <2>1, TrackedType
    <2> DEFINE T == TrackedIn(pf.positions, s)
               T2 == TrackedIn(pf'.positions, s)
               P == Pending(act[a], s)
               R == RowQty(s)
    <2>3. T2 = T + QtyOf(s)[p]
      BY <1>1, <2>1, <2>2, SumWithPosition DEF TrackedIn
    <2>4. P = QtyOf(s)[p]
      BY <1>2, <1>4, <2>2 DEF Pending
    <2>5. T \in Int /\ P \in Int
      BY <1>1, <2>1, <2>2, <2>4, TrackedType
    <2>6. R \in Int /\ RowQty(s)' = R
      BY <1>2 DEF MatchInv, BooksInv, AccountSide, RowQty, Row
    <2>7. T2 = T + P
      BY <2>3, <2>4
    <2> HIDE DEF T, T2, P, R
    <2>8. T2 + 0 - R = T + P - R
      BY <2>5, <2>6, <2>7
    <2>9. QED BY <1>3, <2>6, <2>8 DEF Balanced, T, T2, P, R
  <1>6. QED BY <1>1, <1>2, <1>3, <1>5, StepAccounts

LEMMA ToolClosesMatches ==
    ASSUME MatchInv, NEW a \in Actors, NEW t \in Symbols, NEW p \in Prices,
           ToolCloses(a, t, p)
    PROVE  MatchInv'
  <1>1. /\ BooksInv' /\ rows[t] \in Row
        /\ act'[a].stage = "closed" /\ act'[a].sym = t /\ act'[a].qty = rows[t].qty
    BY ToolClosesOK DEF MatchInv
  <1> DEFINE x == act'[a]
  <1>2. /\ act[a] = NoAct /\ rows' = [rows EXCEPT ![t] = NoRow] /\ UNCHANGED <<pf, drift>>
    BY DEF ToolCloses, Idles, ClosesRow
  <1>3. \A b \in Actors : b # a => act'[b] = act[b]
    BY DEF ToolCloses, MatchInv, BooksInv, ActorSide
  <1>4. ASSUME NEW s \in Symbols PROVE Balanced(a, s)
    <2>1. pf.positions \in Seq(Position)
      BY DEF MatchInv, BooksInv, RiskSide, PortfolioOK, Portfolio
    <2>2. Pending(act[a], s) = 0
      BY <1>2 DEF Pending, NoAct
    <2> DEFINE T == TrackedIn(pf.positions, s)
               P2 == Pending(act'[a], s)
               R == RowQty(s)
               R2 == RowQty(s)'
    <2>3. T \in Int
      BY <2>1, TrackedType
    <2>4. R \in Int
      BY DEF MatchInv, BooksInv, AccountSide, RowQty, Row
    <2>5. rows'[s] = IF s = t THEN NoRow ELSE rows[s]
      BY <1>2 DEF MatchInv, BooksInv, AccountSide
    <2>6. P2 \in Int /\ R2 \in Int /\ P2 - R2 = -R
      <3>1. CASE s = t
        <4>1. rows[t] # NoRow /\ rows[t].qty \in Int
          BY <1>1, ConstantTypes DEF Row
        <4>2. R = rows[t].qty /\ R2 = 0
          BY <2>5, <3>1, <4>1 DEF RowQty
        <4>3. P2 = -rows[t].qty
          BY <1>1, <3>1 DEF Pending
        <4> HIDE DEF P2, R, R2
        <4>4. QED BY <4>1, <4>2, <4>3
      <3>2. CASE s # t
        <4>1. R2 = R
          BY <2>5, <3>2 DEF RowQty
        <4>2. P2 = 0
          BY <1>1, <3>2 DEF Pending
        <4> HIDE DEF P2, R, R2
        <4>3. QED BY <2>4, <4>1, <4>2
      <3>3. QED BY <3>1, <3>2
    <2>7. pf'.positions = pf.positions
      BY <1>2
    <2> HIDE DEF T, P2, R, R2
    <2>8. T + P2 - R2 = T + 0 - R
      BY <2>3, <2>4, <2>6
    <2>9. QED BY <2>2, <2>7, <2>8 DEF Balanced, T, P2, R, R2
  <1>5. QED BY <1>1, <1>2, <1>3, <1>4, StepAccounts

LEMMA ToolReportsMatches ==
    ASSUME MatchInv, NEW a \in Actors, ToolReports(a)
    PROVE  MatchInv'
  <1>1. act[a].stage = "closed" /\ Finish(a) /\ UNCHANGED rows /\ drift \subseteq drift'
    BY DEF ToolReports, At, account
  <1>2. BooksInv'
    BY ToolReportsOK DEF MatchInv
  <1>3. /\ \A b \in Actors : b # a => act'[b] = act[b]
        /\ \A s : Pending(act'[a], s) = 0
    BY <1>1, FinishQuiet DEF MatchInv
  <1>4. ASSUME drift' = {}, NEW s \in Symbols PROVE Balanced(a, s)
    <2> DEFINE k == IndexOf(pf, act[a].sym)
               p == pf.positions[k]
    <2>1. /\ k \in 1 .. Len(pf.positions) /\ p.sym = act[a].sym /\ p.qty = act[a].qty
          /\ pf'.positions = RemoveAt(pf.positions, k)
      BY <1>4, ToolReportsOK DEF MatchInv
    <2>2. pf.positions \in Seq(Position)
      BY DEF MatchInv, BooksInv, RiskSide, PortfolioOK, Portfolio
    <2>3. p \in Position
      BY <2>1, <2>2
    <2>4. QtyOf(s) \in [Position -> Int] /\ QtyOf(s)[p] = IF p.sym = s THEN p.qty ELSE 0
      BY <2>2, <2>3, TrackedType
    <2> HIDE DEF k
    <2> DEFINE T == TrackedIn(pf.positions, s)
               T2 == TrackedIn(pf'.positions, s)
               Q == QtyOf(s)[p]
               P == Pending(act[a], s)
               R == RowQty(s)
    <2>5. T2 = T - Q
      BY <2>1, <2>2, <2>4, SumWithoutPosition DEF TrackedIn
    <2>6. P = -Q
      BY <1>1, <2>1, <2>4 DEF Pending
    <2>7. T \in Int /\ Q \in Int
      BY <2>2, <2>3, <2>4, TrackedType
    <2>8. R \in Int /\ RowQty(s)' = R
      BY <1>1 DEF MatchInv, BooksInv, AccountSide, RowQty, Row
    <2> HIDE DEF T, T2, P, R, Q
    <2>9. T2 + 0 - R = T + P - R
      BY <2>5, <2>6, <2>7, <2>8
    <2>10. QED BY <1>3, <2>8, <2>9 DEF Balanced, T, T2, P, R
  <1>5. QED BY <1>1, <1>2, <1>3, <1>4, StepAccounts

LEMMA NextMatches == MatchInv /\ [Next]_vars => MatchInv'
  <1>1. SUFFICES ASSUME MatchInv, [Next]_vars PROVE MatchInv'
    OBVIOUS
  <1>2. BooksInv'
    BY <1>1, NextBooks DEF MatchInv
  <1>3. ASSUME NEW a \in Actors,
               \/ \E o \in Orders : ToolAsks(a, o)
               \/ \E p \in Prices : ToolFills(a, p)
               \/ ToolOpens(a) \/ ToolBooks(a)
               \/ \E s \in Signals : SignalAsks(a, s)
               \/ SignalFills(a) \/ SignalSyncs(a)
               \/ \E s \in Symbols, p \in Prices : ToolCloses(a, s, p)
               \/ ToolReports(a) \/ GivesUp(a)
        PROVE  MatchInv'
    BY <1>1, <1>3, Zenon, AsksMatch, FillsMatch, ToolOpensMatches, ToolBooksMatches,
       ToolClosesMatches, ToolReportsMatches
  <1>4. ASSUME NEW s \in Symbols, NEW p \in Prices,
               CloseAllCloses(s, p) \/ TrailingCloses(s, p)
        PROVE  MatchInv'
    <2>1. "untold" \in drift'
      BY <1>4 DEF CloseAllCloses, TrailingCloses
    <2>2. QED BY <1>2, <2>1 DEF MatchInv, Accounted
  <1>5. ASSUME UNCHANGED <<pf, act, rows, drift>> PROVE MatchInv'
    <2>1. ASSUME NEW s \in Symbols
          PROVE  /\ TrackedQty(s)' = TrackedQty(s) /\ Untold(s)' = Untold(s)
                 /\ RowQty(s)' = RowQty(s)
      <3>1. pf.positions \in Seq(Position) /\ pf' = pf
        BY <1>1, <1>5 DEF MatchInv, BooksInv, RiskSide, PortfolioOK, Portfolio
      <3>2. TrackedQty(s) = TrackedIn(pf.positions, s)
        BY <3>1, TrackedIs
      <3>3. TrackedQty(s)' = TrackedIn(pf'.positions, s)
        BY <3>1, TrackedIsNext
      <3>4. Untold(s)' = Untold(s) /\ RowQty(s)' = RowQty(s)
        BY <1>5 DEF Untold, Shares, RowQty
      <3>5. QED BY <3>1, <3>2, <3>3, <3>4
    <2>2. QED BY <1>1, <1>2, <1>5, <2>1 DEF MatchInv, Accounted
  <1>6. CASE Midnight
    BY <1>5, <1>6 DEF Midnight, account
  <1>7. CASE UNCHANGED vars
    BY <1>5, <1>7 DEF vars, account
  <1>8. QED BY <1>1, <1>3, <1>4, <1>6, <1>7, Zenon DEF Next

LEMMA InitMatches == Init => MatchInv
  <1>1. SUFFICES ASSUME Init PROVE MatchInv
    OBVIOUS
  <1>2. BooksInv
    BY <1>1, InitBooks
  <1>3. ASSUME NEW s \in Symbols PROVE TrackedQty(s) + Untold(s) = RowQty(s)
    <2>1. pf.positions = <<>> /\ <<>> \in Seq(Position) /\ Len(<<>>) = 0
      BY <1>1 DEF Init
    <2>2. TrackedQty(s) = 0
      <3>1. QtyOf(s) \in [Position -> Int]
        BY <2>1, TrackedType
      <3>2. EachOf(QtyOf(s), <<>>) \in Seq(Int) /\ Len(EachOf(QtyOf(s), <<>>)) = 0
        BY <2>1, <3>1, EachOfType
      <3>3. TrackedIn(<<>>, s) = 0
        BY <3>2, SumOfNothing DEF TrackedIn
      <3>4. TrackedQty(s) = TrackedIn(pf.positions, s)
        BY <2>1, TrackedIs
      <3>5. QED BY <2>1, <3>3, <3>4
    <2>3. Untold(s) = 0
      <3>1. act = [a \in Actors |-> NoAct] /\ act \in [Actors -> Activity]
        BY <1>1, <1>2 DEF Init, BooksInv, ActorSide
      <3>2. /\ SharesOf(act, s) \in Seq(Int) /\ Len(SharesOf(act, s)) = Many
            /\ \A i \in 1 .. Many : SharesOf(act, s)[i] = Pending(act[Turn[i]], s)
        BY <3>1, SharesType
      <3>3. Pending(NoAct, s) = 0
        BY DEF Pending, NoAct
      <3>4. \A i \in 1 .. Many : SharesOf(act, s)[i] = 0
        BY <3>1, <3>2, <3>3, TurnType
      <3>5. SumSeq(SharesOf(act, s)) = 0
        BY <3>2, <3>4, SumOfNothing
      <3>6. QED BY <3>5 DEF Untold, Shares, SharesOf
    <2>4. RowQty(s) = 0
      BY <1>1 DEF Init, RowQty
    <2>5. QED BY <2>2, <2>3, <2>4
  <1>4. QED BY <1>2, <1>3 DEF MatchInv, Accounted

(* As long as every close was told, of an entry of its size, the portfolio  *)
(* tracks the quantity of every row whose trades are all reported: for any  *)
(* number of coroutines, symbols and orders, however they interleave        *)
(* (execution_tools.py:233-250, 348-360; engine.py:1031-1054).              *)
THEOREM PortfolioMatchesCorrect == Spec => []PortfolioMatchesAccount
  <1>1. MatchInv => PortfolioMatchesAccount
    <2>1. SUFFICES ASSUME MatchInv, drift = {}, NEW s \in Symbols,
                          \A a \in Actors : act[a].sym = s => ~At(a, "toolOpened") /\ ~At(a, "closed")
                   PROVE  TrackedQty(s) = RowQty(s)
      BY DEF PortfolioMatchesAccount
    <2>2. act \in [Actors -> Activity] /\ pf.positions \in Seq(Position)
      BY <2>1 DEF MatchInv, BooksInv, ActorSide, RiskSide, PortfolioOK, Portfolio
    <2>3. \A a \in Actors : Pending(act[a], s) = 0
      BY <2>1 DEF Pending, At
    <2>4. /\ SharesOf(act, s) \in Seq(Int) /\ Len(SharesOf(act, s)) = Many
          /\ \A i \in 1 .. Many : SharesOf(act, s)[i] = Pending(act[Turn[i]], s)
      BY <2>2, SharesType
    <2>5. \A i \in 1 .. Many : SharesOf(act, s)[i] = 0
      BY <2>3, <2>4, TurnType
    <2>6. SumSeq(SharesOf(act, s)) = 0
      BY <2>4, <2>5, SumOfNothing
    <2>7. Untold(s) = 0
      BY <2>6 DEF Untold, Shares, SharesOf
    <2>8. TrackedQty(s) \in Int
      BY <2>2, TrackedIs, TrackedType
    <2>9. TrackedQty(s) + Untold(s) = RowQty(s)
      BY <2>1 DEF MatchInv, Accounted
    <2>10. QED BY <2>7, <2>8, <2>9
  <1>2. QED BY <1>1, InitMatches, NextMatches, PTL DEF Spec

-----------------------------------------------------------------------------
(* Limits.  An approved order of the tool fits the portfolio until someone  *)
(* else's report changes it, which is when the approval becomes stale.      *)

Fits(q, o) ==
    /\ 100 * (TotalExposure(q) + OrderValue(o)) <= MaxExposurePct * q.total
    /\ 100 * (q.cash - OrderValue(o)) >= MinReservePct * q.total
    /\ q.today < MaxTradesPerDay /\ q.hour < MaxTradesPerHour

OnItsWay(o) == o.stage \in {"toolApproved", "toolFilled", "toolOpened"}
ApprovedFits == \A a \in Actors : a \notin stale /\ OnItsWay(act[a]) => Fits(pf, act[a])

LimitsInv == BooksInv /\ ApprovedFits

(* A step of one actor that leaves the portfolio as it was for every order. *)
LEMMA StepFits ==
    ASSUME LimitsInv, BooksInv', NEW a \in Actors,
           \A b \in Actors : b # a => act'[b] = act[b] /\ (b \notin stale' => b \notin stale),
           \A b \in Actors : Fits(pf, act[b]) => Fits(pf', act[b]),
           a \notin stale' /\ OnItsWay(act'[a]) => Fits(pf', act'[a])
    PROVE  LimitsInv'
  <1>1. ASSUME NEW b \in Actors, b \notin stale', OnItsWay(act'[b])
        PROVE  Fits(pf', act'[b])
    <2>1. CASE b = a
      BY <1>1, <2>1
    <2>2. CASE b # a
      BY <1>1, <2>2 DEF LimitsInv, ApprovedFits
    <2>3. QED BY <2>1, <2>2
  <1>2. ApprovedFits'
    <2>1. (\A b \in Actors : b \notin stale /\ OnItsWay(act[b]) => Fits(pf, act[b]))'
      <3>1. ASSUME NEW b \in Actors
            PROVE  (b \notin stale /\ OnItsWay(act[b]) => Fits(pf, act[b]))'
        <4>1. (Fits(pf, act[b]))' = Fits(pf', act'[b])
          BY DEF Fits, TotalExposure, OrderValue
        <4>2. (OnItsWay(act[b]))' = OnItsWay(act'[b])
          BY DEF OnItsWay
        <4>3. QED BY <1>1, <4>1, <4>2
      <3>2. QED BY <3>1
    <2>2. QED BY <2>1 DEF ApprovedFits
  <1>3. QED BY <1>2 DEF LimitsInv

(* The start of a new day takes no room from any order.                     *)
LEMMA ResetFits ==
    ASSUME PortfolioOK(pf), NEW o, Fits(pf, o), MaxTradesPerDay \in Nat
    PROVE  Fits(PortfolioReset(rm, pf), o)
  <1> DEFINE r == ResetDaily(pf)
  <1>1. /\ r.cash = pf.cash /\ r.positions = pf.positions /\ r.total = pf.total
        /\ r.hour = pf.hour /\ r.today = 0
    BY DEF ResetDaily, PortfolioOK, Portfolio
  <1>2. pf.today \in Nat
    BY DEF PortfolioOK, Portfolio
  <1> HIDE DEF r
  <1>3. Fits(r, o)
    <2>1. TotalExposure(r) = TotalExposure(pf)
      BY <1>1 DEF TotalExposure
    <2>2. 0 < MaxTradesPerDay
      BY <1>2 DEF Fits
    <2>3. QED BY <1>1, <2>1, <2>2 DEF Fits
  <1>4. QED BY <1>3 DEF PortfolioReset, r

LEMMA AllowedFits ==
    ASSUME NEW q, NEW o, GuardrailsAllow(q, o)
    PROVE  Fits(q, o)
  BY DEF GuardrailsAllow, SizeAllowed, RateAllowed, Fits

LEMMA DecideFits ==
    ASSUME LimitsInv, BooksInv', NEW a \in Actors, NEW o, NEW balance, Idles(a),
           NEW approved \in {"toolApproved", "signalApproved"},
           Decide(a, o, balance, approved)
    PROVE  LimitsInv'
  <1> DEFINE r == DayReset(rm)
             q == PortfolioReset(rm, pf)
             sym == o.sym
             side == o.side
             qty == o.qty
             price == o.price
             stop == o.stop
             x == [NoAct EXCEPT !.stage = approved, !.sym = sym, !.side = side,
                                !.qty = qty, !.price = price, !.stop = stop]
  <1>1. /\ pf' = q /\ stale' = stale \ {a}
        /\ \/ act' = [act EXCEPT ![a] = x] /\ GuardrailsAllow(q, o)
           \/ act' = act
    BY DEF Decide, Approves
  <1>2. act[a] = NoAct /\ NoAct.stage = "idle"
    BY DEF Idles, NoAct
  <1>3. \A b \in Actors : Fits(pf, act[b]) => Fits(pf', act[b])
    BY <1>1, ResetFits, AegisAssumption DEF LimitsInv, BooksInv, RiskSide
  <1>4. q.today = q.today
    OBVIOUS
  <1> HIDE DEF q
  <1>5. CASE act' = [act EXCEPT ![a] = x] /\ GuardrailsAllow(q, o)
    <2>1. act'[a] = x /\ \A b \in Actors : b # a => act'[b] = act[b]
      BY <1>5, ActorChange DEF LimitsInv, BooksInv
    <2>2. x.qty = o.qty /\ x.price = o.price
      <3>1. qty = o.qty /\ price = o.price
        OBVIOUS
      <3> HIDE DEF sym, side, qty, price, stop
      <3>2. x.qty = qty /\ x.price = price
        BY NoActType DEF Activity
      <3>3. QED BY <3>1, <3>2
    <2> HIDE DEF x
    <2>3. Fits(q, x)
      <3>1. OrderValue(x) = OrderValue(o)
        BY <2>2 DEF OrderValue
      <3>2. QED BY <1>5, <3>1, AllowedFits DEF Fits
    <2>4. QED BY <1>1, <1>3, <2>1, <2>3, StepFits
  <1>6. CASE act' = act
    <2>1. ~OnItsWay(act'[a])
      BY <1>2, <1>6 DEF OnItsWay
    <2>2. QED BY <1>1, <1>3, <1>6, <2>1, StepFits
  <1>7. QED BY <1>1, <1>5, <1>6

LEMMA FinishFits ==
    ASSUME LimitsInv, BooksInv', NEW a \in Actors, Finish(a),
           (UNCHANGED <<stale, pf>>) \/ Outdates(a)
    PROVE  LimitsInv'
  <1>1. act'[a] = NoAct /\ \A b \in Actors : b # a => act'[b] = act[b]
    BY FinishQuiet DEF LimitsInv
  <1>2. ~OnItsWay(NoAct)
    BY DEF NoAct, OnItsWay
  <1>3. CASE UNCHANGED <<stale, pf>>
    BY <1>1, <1>2, <1>3, StepFits
  <1>4. CASE Outdates(a)
    <2>1. ASSUME NEW b \in Actors, b \notin stale', OnItsWay(act'[b]) PROVE FALSE
      <3>1. b # a
        BY <1>1, <1>2, <2>1
      <3>2. act[b] = NoAct
        BY <1>4, <2>1, <3>1 DEF Outdates
      <3>3. QED BY <1>1, <1>2, <2>1, <3>1, <3>2
    <2>2. ApprovedFits'
      <3>1. ASSUME NEW b \in Actors PROVE (b \notin stale /\ OnItsWay(act[b]) => Fits(pf, act[b]))'
        <4>1. (OnItsWay(act[b]))' = OnItsWay(act'[b])
          BY DEF OnItsWay
        <4>2. QED BY <2>1, <4>1
      <3>2. QED BY <3>1 DEF ApprovedFits
    <2>3. QED BY <2>2 DEF LimitsInv
  <1>5. QED BY <1>3, <1>4

LEMMA NextLimits == LimitsInv /\ [Next]_vars => LimitsInv'
  <1>1. SUFFICES ASSUME LimitsInv, [Next]_vars PROVE LimitsInv'
    OBVIOUS
  <1>2. BooksInv'
    BY <1>1, NextBooks DEF LimitsInv
  <1>3. ASSUME NEW a \in Actors, NEW o \in Orders, ToolAsks(a, o) PROVE LimitsInv'
    <2>1. Idles(a) /\ Decide(a, o, rm.balance, "toolApproved")
      BY <1>3 DEF ToolAsks
    <2>2. QED BY <1>1, <1>2, <2>1, DecideFits
  <1>4. ASSUME NEW a \in Actors, NEW s \in Signals, SignalAsks(a, s) PROVE LimitsInv'
    <2> DEFINE o == [sym |-> s.sym, side |-> s.side, qty |-> SafeSize(s),
                     price |-> s.price, stop |-> s.stop]
    <2>1. Idles(a) /\ Decide(a, o, BalanceGiven, "signalApproved")
      BY <1>4 DEF SignalAsks
    <2> HIDE DEF o
    <2>2. QED BY <1>1, <1>2, <2>1, DecideFits
  <1>5. ASSUME NEW a \in Actors, NEW x, act' = [act EXCEPT ![a] = x],
               UNCHANGED <<pf, stale>>,
               OnItsWay(x) => OnItsWay(act[a]) /\ x.qty = act[a].qty /\ x.price = act[a].price
        PROVE  LimitsInv'
    <2>1. act'[a] = x /\ \A b \in Actors : b # a => act'[b] = act[b]
      BY <1>1, <1>5, ActorChange DEF LimitsInv, BooksInv
    <2>2. OnItsWay(x) => OrderValue(x) = OrderValue(act[a])
      BY <1>5 DEF OrderValue
    <2>3. a \notin stale' /\ OnItsWay(act'[a]) => Fits(pf', act'[a])
      BY <1>1, <1>5, <2>1, <2>2 DEF LimitsInv, ApprovedFits, Fits
    <2>4. QED BY <1>1, <1>2, <1>5, <2>1, <2>3, StepFits
  <1>6. ASSUME NEW a \in Actors, NEW p \in Prices, ToolFills(a, p) PROVE LimitsInv'
    <2> DEFINE x == [act[a] EXCEPT !.stage = "toolFilled", !.paid = p]
    <2>1. At(a, "toolApproved") /\ act' = [act EXCEPT ![a] = x] /\ UNCHANGED <<pf, stale>>
      BY <1>6 DEF ToolFills
    <2>2. x.qty = act[a].qty /\ x.price = act[a].price
      BY <1>1, ActorAt DEF LimitsInv, BooksInv, Activity
    <2> HIDE DEF x
    <2>3. OnItsWay(act[a])
      BY <2>1 DEF At, OnItsWay
    <2>4. QED BY <1>5, <2>1, <2>2, <2>3
  <1>7. ASSUME NEW a \in Actors, ToolOpens(a) PROVE LimitsInv'
    <2> DEFINE x == [act[a] EXCEPT !.stage = "toolOpened"]
    <2>1. At(a, "toolFilled") /\ act' = [act EXCEPT ![a] = x] /\ UNCHANGED <<pf, stale>>
      BY <1>7 DEF ToolOpens, Goes
    <2>2. x.qty = act[a].qty /\ x.price = act[a].price
      BY <1>1, ActorAt DEF LimitsInv, BooksInv, Activity
    <2> HIDE DEF x
    <2>3. OnItsWay(act[a])
      BY <2>1 DEF At, OnItsWay
    <2>4. QED BY <1>5, <2>1, <2>2, <2>3
  <1>8. ASSUME NEW a \in Actors, SignalFills(a) PROVE LimitsInv'
    <2> DEFINE x == [act[a] EXCEPT !.stage = "signalFilled"]
    <2>1. act' = [act EXCEPT ![a] = x] /\ UNCHANGED <<pf, stale>>
      BY <1>8 DEF SignalFills, Goes
    <2>2. x.stage = "signalFilled"
      BY <1>1, ActorAt DEF LimitsInv, BooksInv, Activity
    <2> HIDE DEF x
    <2>3. ~OnItsWay(x)
      BY <2>2 DEF OnItsWay
    <2>4. QED BY <1>5, <2>1, <2>3
  <1>9. ASSUME NEW a \in Actors, NEW s \in Symbols, NEW p \in Prices, ToolCloses(a, s, p)
        PROVE  LimitsInv'
    <2> DEFINE qty == rows[s].qty
               pnl == RowPnl(rows[s], p)
               x == [NoAct EXCEPT !.stage = "closed", !.sym = s, !.paid = p,
                                  !.qty = qty, !.pnl = pnl]
    <2>1. act' = [act EXCEPT ![a] = x] /\ pf' = pf /\ stale' = stale \ {a}
      BY <1>9 DEF ToolCloses
    <2> HIDE DEF qty, pnl
    <2>2. x.stage = "closed"
      BY NoActType DEF Activity
    <2> HIDE DEF x
    <2>3. act'[a] = x /\ \A b \in Actors : b # a => act'[b] = act[b]
      BY <1>1, <2>1, ActorChange DEF LimitsInv, BooksInv
    <2>4. ~OnItsWay(act'[a])
      BY <2>2, <2>3 DEF OnItsWay
    <2>5. QED BY <1>1, <1>2, <2>1, <2>3, <2>4, StepFits
  <1>10. ASSUME NEW a \in Actors, ToolBooks(a) PROVE LimitsInv'
    BY <1>1, <1>2, <1>10, FinishFits DEF ToolBooks
  <1>11. ASSUME NEW a \in Actors, SignalSyncs(a) PROVE LimitsInv'
    BY <1>1, <1>2, <1>11, FinishFits DEF SignalSyncs
  <1>12. ASSUME NEW a \in Actors, ToolReports(a) PROVE LimitsInv'
    BY <1>1, <1>2, <1>12, FinishFits DEF ToolReports
  <1>13. ASSUME NEW a \in Actors, GivesUp(a) PROVE LimitsInv'
    BY <1>1, <1>2, <1>13, FinishFits DEF GivesUp
  <1>14. ASSUME UNCHANGED <<pf, act, stale>> PROVE LimitsInv'
    BY <1>1, <1>2, <1>14 DEF LimitsInv, ApprovedFits, Fits, TotalExposure
  <1>15. ASSUME NEW s \in Symbols, NEW p \in Prices,
                CloseAllCloses(s, p) \/ TrailingCloses(s, p)
         PROVE  LimitsInv'
    BY <1>14, <1>15 DEF CloseAllCloses, TrailingCloses
  <1>16. CASE Midnight \/ UNCHANGED vars
    BY <1>14, <1>16 DEF Midnight, vars
  <1>17. ASSUME NEW a \in Actors,
                \/ \E o \in Orders : ToolAsks(a, o)
                \/ \E p \in Prices : ToolFills(a, p)
                \/ ToolOpens(a) \/ ToolBooks(a)
                \/ \E s \in Signals : SignalAsks(a, s)
                \/ SignalFills(a) \/ SignalSyncs(a)
                \/ \E s \in Symbols, p \in Prices : ToolCloses(a, s, p)
                \/ ToolReports(a) \/ GivesUp(a)
         PROVE  LimitsInv'
    BY <1>3, <1>4, <1>6, <1>7, <1>8, <1>9, <1>10, <1>11, <1>12, <1>13, <1>17, Zenon
  <1>18. QED BY <1>1, <1>15, <1>16, <1>17, Zenon DEF Next

LEMMA InitLimits == Init => LimitsInv
  <1>1. SUFFICES ASSUME Init PROVE LimitsInv
    OBVIOUS
  <1>2. BooksInv
    BY <1>1, InitBooks
  <1>3. \A a \in Actors : ~OnItsWay(act[a])
    BY <1>1 DEF Init, NoAct, OnItsWay
  <1>4. QED BY <1>2, <1>3 DEF LimitsInv, ApprovedFits

LEMMA TimesMonotone ==
    ASSUME NEW m \in Nat, NEW x \in Nat, NEW y \in Nat, x <= y
    PROVE  m * x <= m * y
  OBVIOUS

(* The fields of the portfolio after an entry.                              *)
LEMMA AddFields ==
    ASSUME NEW q \in Portfolio, NEW p \in Position
    PROVE  /\ AddPosition(q, p).cash = q.cash - EntryValue(p)
           /\ AddPosition(q, p).today = q.today + 1
           /\ AddPosition(q, p).hour = q.hour + 1
           /\ TotalExposure(AddPosition(q, p)) = TotalExposure(q) + PositionValue(p)
  <1> DEFINE ps == Append(q.positions, p)
             cash == q.cash - EntryValue(p)
             today == q.today + 1
             hour == q.hour + 1
             r == [q EXCEPT !.positions = ps, !.cash = cash, !.today = today, !.hour = hour]
             total == r.cash + TotalExposure(r)
             peak == MaxOf(r.peak, total)
             u == [r EXCEPT !.total = total, !.peak = peak]
  <1>1. AddPosition(q, p) = u
    BY DEF AddPosition, UpdateTotalValue
  <1>2. /\ q.positions \in Seq(Position) /\ EntryValue(p) \in Int /\ ps \in Seq(Position)
        /\ cash \in Int /\ today \in Nat /\ hour \in Nat
    BY PositionTypes DEF Portfolio
  <1>3. SumOf(PositionValue, ps) = SumOf(PositionValue, q.positions) + PositionValue(p)
    <2>1. SumSeq(EachOf(ValueOf, ps)) = SumSeq(EachOf(ValueOf, q.positions)) + ValueOf[p]
      BY <1>2, PositionSums, SumWithPosition
    <2>2. ValueOf[p] = PositionValue(p)
      BY DEF ValueOf
    <2> HIDE DEF ps
    <2>3. SumOf(PositionValue, ps) = SumSeq(EachOf(ValueOf, ps))
      BY <1>2, PositionSums
    <2>4. SumOf(PositionValue, q.positions) = SumSeq(EachOf(ValueOf, q.positions))
      BY <1>2, PositionSums
    <2>5. QED BY <2>1, <2>2, <2>3, <2>4
  <1>c. cash = q.cash - EntryValue(p) /\ today = q.today + 1 /\ hour = q.hour + 1
    OBVIOUS
  <1> HIDE DEF ps, cash, today, hour
  <1>4. r \in Portfolio /\ r.cash = cash /\ r.positions = ps /\ r.today = today
        /\ r.hour = hour
    BY <1>2 DEF Portfolio
  <1> HIDE DEF r, total, peak
  <1>5. u.cash = cash /\ u.positions = ps /\ u.today = today /\ u.hour = hour
    BY <1>4 DEF Portfolio
  <1> HIDE DEF u
  <1>6. QED BY <1>1, <1>3, <1>5, <1>c DEF TotalExposure

LEMMA BookingKeepsLimits ==
    ASSUME LimitsInv, NEW a \in Actors, ToolBooks(a), Fresh(a)
    PROVE  WithinLimits(pf')
  <1> DEFINE p == Entry(act[a])
  <1>1. act[a].stage = "toolOpened" /\ pf' = AddPosition(pf, p)
    BY DEF ToolBooks, At
  <1>2. p \in Position /\ PortfolioOK(pf) /\ pf \in Portfolio /\ PortfolioOK(pf')
    BY <1>1, ToolBooksOK, AddOK DEF LimitsInv, BooksInv, RiskSide, PortfolioOK
  <1>3. Fits(pf, act[a]) /\ act[a].paid <= act[a].price
    BY <1>1 DEF LimitsInv, ApprovedFits, OnItsWay, Fresh
  <1>4. act[a].qty \in Nat /\ act[a].paid \in Nat /\ act[a].price \in Nat
    BY ActorAt DEF LimitsInv, BooksInv, Activity
  <1> DEFINE V == OrderValue(act[a])
             E == EntryValue(p)
             X == TotalExposure(pf)
             C == pf.cash
             T == pf.total
  <1>5. /\ E = act[a].qty * act[a].paid /\ PositionValue(p) = E
        /\ V = act[a].qty * act[a].price
    BY DEF Entry, EntryValue, PositionValue, OrderValue
  <1>6. E \in Nat /\ V \in Nat /\ E <= V
    <2>1. act[a].qty * act[a].paid \in Nat /\ act[a].qty * act[a].price \in Nat
      BY <1>4, TimesType
    <2>2. act[a].qty * act[a].paid <= act[a].qty * act[a].price
      BY <1>3, <1>4, TimesMonotone
    <2> HIDE DEF E, V
    <2>3. QED BY <1>5, <2>1, <2>2
  <1>7. X \in Int /\ C \in Int /\ T \in Int /\ T = C + X
    <2>1. pf.positions \in Seq(Position)
      BY <1>2 DEF Portfolio
    <2>2. X \in Int
      BY <2>1, PositionSums DEF TotalExposure
    <2>3. QED BY <1>2, <2>2 DEF PortfolioOK, AddsUp, Portfolio
  <1>8. /\ 100 * (X + V) <= MaxExposurePct * T /\ 100 * (C - V) >= MinReservePct * T
        /\ pf.today < MaxTradesPerDay /\ pf.hour < MaxTradesPerHour
    BY <1>3 DEF Fits
  <1> HIDE DEF p, V, E
  <1>9. /\ pf'.cash = C - E /\ TotalExposure(pf') = X + E
        /\ pf'.today = pf.today + 1 /\ pf'.hour = pf.hour + 1
    BY <1>1, <1>2, <1>5, AddFields DEF E
  <1> HIDE DEF X, C, T
  <1>10. pf'.total = T
    <2>1. pf'.total = pf'.cash + TotalExposure(pf')
      BY <1>2 DEF PortfolioOK, AddsUp
    <2>2. QED BY <1>6, <1>7, <1>9, <2>1
  <1>11. pf.today \in Nat /\ pf.hour \in Nat
    BY <1>2 DEF Portfolio
  <1>12. /\ MaxExposurePct * T \in Int /\ MinReservePct * T \in Int
         /\ MaxTradesPerDay \in Nat /\ MaxTradesPerHour \in Nat
    BY <1>7, AegisAssumption
  <1> DEFINE most == MaxExposurePct * T
             least == MinReservePct * T
  <1>13. most \in Int /\ least \in Int /\ 100 * (X + V) <= most /\ 100 * (C - V) >= least
    BY <1>8, <1>12
  <1>14. 100 * TotalExposure(pf') <= MaxExposurePct * pf'.total
         /\ 100 * pf'.cash >= MinReservePct * pf'.total
    <2>1. MaxExposurePct * pf'.total = most /\ MinReservePct * pf'.total = least
      BY <1>10
    <2> HIDE DEF most, least
    <2>2. 100 * (X + E) <= most /\ 100 * (C - E) >= least
      BY <1>6, <1>7, <1>13
    <2>3. QED BY <1>9, <2>1, <2>2
  <1>15. pf'.today <= MaxTradesPerDay /\ pf'.hour <= MaxTradesPerHour
    BY <1>8, <1>9, <1>11, <1>12
  <1>16. QED BY <1>14, <1>15 DEF WithinLimits

(* Only a booking takes an actor from "toolOpened" to idle and lengthens    *)
(* the portfolio.                                                           *)
LEMMA OnlyBookingEnds ==
    ASSUME BooksInv, [Next]_vars, NEW a \in Actors, At(a, "toolOpened"),
           Len(pf'.positions) > Len(pf.positions), act'[a] = NoAct
    PROVE  ToolBooks(a)
  <1>1. act[a] # NoAct /\ act[a].stage = "toolOpened" /\ act'[a] # act[a] /\ pf' # pf
    <2>1. act[a] # NoAct
      BY DEF At, NoAct
    <2>2. Len(pf.positions) \in Nat
      BY DEF BooksInv, RiskSide, PortfolioOK, Portfolio
    <2>3. pf' # pf
      BY <2>2
    <2>4. QED BY <2>1, <2>3 DEF At
  <1>2. ASSUME NEW b \in Actors, NEW x, act' = [act EXCEPT ![b] = x], b # a PROVE FALSE
    BY <1>1, <1>2, ActorChange DEF BooksInv
  <1>3. ASSUME NEW b \in Actors,
               \/ \E o \in Orders : ToolAsks(b, o)
               \/ \E s \in Signals : SignalAsks(b, s)
        PROVE  FALSE
    <2>1. Idles(b) /\ \E o, m, g : Decide(b, o, m, g)
      BY <1>3, Zenon DEF ToolAsks, SignalAsks
    <2>2. b # a
      BY <1>1, <2>1 DEF Idles
    <2>3. act' = act \/ \E x : act' = [act EXCEPT ![b] = x]
      BY <2>1, Zenon DEF Decide
    <2>4. QED BY <1>1, <1>2, <2>2, <2>3
  <1>4. ASSUME NEW b \in Actors, b # a,
               \/ \E p \in Prices : ToolFills(b, p)
               \/ ToolOpens(b) \/ ToolBooks(b) \/ SignalFills(b) \/ SignalSyncs(b)
               \/ \E s \in Symbols, p \in Prices : ToolCloses(b, s, p)
               \/ ToolReports(b) \/ GivesUp(b)
        PROVE  FALSE
    <2>1. ASSUME NEW p \in Prices, ToolFills(b, p) PROVE FALSE
      <3> DEFINE x == [act[b] EXCEPT !.stage = "toolFilled", !.paid = p]
      <3>1. act' = [act EXCEPT ![b] = x]
        BY <2>1 DEF ToolFills
      <3> HIDE DEF x
      <3>2. QED BY <1>2, <1>4, <3>1
    <2>2. ASSUME NEW g, Goes(b, g) PROVE FALSE
      <3> DEFINE x == [act[b] EXCEPT !.stage = g]
      <3>1. act' = [act EXCEPT ![b] = x]
        BY <2>2 DEF Goes
      <3> HIDE DEF x
      <3>2. QED BY <1>2, <1>4, <3>1
    <2>3. ASSUME Finish(b) PROVE FALSE
      BY <1>2, <1>4, <2>3 DEF Finish
    <2>4. ASSUME NEW s \in Symbols, NEW p \in Prices, ToolCloses(b, s, p) PROVE FALSE
      <3> DEFINE x == [NoAct EXCEPT !.stage = "closed", !.sym = s, !.paid = p,
                                    !.qty = rows[s].qty, !.pnl = RowPnl(rows[s], p)]
      <3>1. act' = [act EXCEPT ![b] = x]
        BY <2>4 DEF ToolCloses
      <3> HIDE DEF x
      <3>2. QED BY <1>2, <1>4, <3>1
    <2>5. ToolOpens(b) => Goes(b, "toolOpened")
      BY DEF ToolOpens
    <2>6. SignalFills(b) => Goes(b, "signalFilled")
      BY DEF SignalFills
    <2>7. ToolBooks(b) \/ SignalSyncs(b) \/ ToolReports(b) \/ GivesUp(b) => Finish(b)
      BY Zenon DEF ToolBooks, SignalSyncs, ToolReports, GivesUp
    <2>8. QED BY <1>4, <2>1, <2>2, <2>3, <2>4, <2>5, <2>6, <2>7, Zenon
  <1>5. ~(\E p \in Prices : ToolFills(a, p))
    BY <1>1 DEF ToolFills, At
  <1>6. ~ToolOpens(a) /\ ~SignalFills(a) /\ ~SignalSyncs(a) /\ ~ToolReports(a)
    BY <1>1 DEF ToolOpens, SignalFills, SignalSyncs, ToolReports, At
  <1>7. ~(\E s \in Symbols, p \in Prices : ToolCloses(a, s, p))
    BY <1>1 DEF ToolCloses, Idles
  <1>8. ~GivesUp(a)
    BY <1>1 DEF GivesUp
  <1>9. ASSUME NEW s \in Symbols, NEW p \in Prices,
               CloseAllCloses(s, p) \/ TrailingCloses(s, p)
        PROVE  FALSE
    BY <1>1, <1>9 DEF CloseAllCloses, TrailingCloses
  <1>10. ~Midnight /\ ~UNCHANGED vars
    BY <1>1 DEF Midnight, vars
  <1>11. \E b \in Actors :
           \/ \E o \in Orders : ToolAsks(b, o)
           \/ \E p \in Prices : ToolFills(b, p)
           \/ ToolOpens(b) \/ ToolBooks(b)
           \/ \E s \in Signals : SignalAsks(b, s)
           \/ SignalFills(b) \/ SignalSyncs(b)
           \/ \E s \in Symbols, p \in Prices : ToolCloses(b, s, p)
           \/ ToolReports(b) \/ GivesUp(b)
    BY <1>9, <1>10, Zenon DEF Next
  <1>12. QED BY <1>3, <1>4, <1>5, <1>6, <1>7, <1>8, <1>11, Zenon

(* A booking whose approval no report has outdated, filled no dearer than   *)
(* approved, leaves the portfolio within the exposure, reserve and rate     *)
(* limits, for any limits, orders and number of coroutines that ask at the  *)
(* same time (guardrails.py:205-234, 315-335; execution_tools.py:188-250).  *)
THEOREM FreshBookingsKeepLimitsCorrect == Spec => FreshBookingsKeepLimits
  <1> DEFINE Keeps == \A a \in Actors :
               At(a, "toolOpened") /\ Fresh(a) /\ Len(pf'.positions) > Len(pf.positions)
                 /\ act'[a] = NoAct => WithinLimits(pf')
  <1>1. LimitsInv /\ [Next]_vars => [Keeps]_vars
    <2>1. SUFFICES ASSUME LimitsInv, [Next]_vars, NEW a \in Actors,
                          At(a, "toolOpened"), Fresh(a),
                          Len(pf'.positions) > Len(pf.positions), act'[a] = NoAct
                   PROVE  WithinLimits(pf')
      OBVIOUS
    <2>2. ToolBooks(a)
      BY <2>1, OnlyBookingEnds DEF LimitsInv
    <2>3. QED BY <2>1, <2>2, BookingKeepsLimits
  <1>2. QED BY <1>1, InitLimits, NextLimits, PTL DEF Spec, FreshBookingsKeepLimits
=============================================================================
