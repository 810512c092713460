-------------------------- MODULE Decisions_proofs ---------------------------
(***************************************************************************)
(* What the program may decide, for every value of the constants: to trade *)
(* on while the stand-alone breaker is closed (CircuitBreaker), which      *)
(* parameters to call validated (Tuning), which orders a grid keeps        *)
(* (GridBot), how far cycles side by side may pass the budget and the rate *)
(* limit (AgentCycles), and how many positions the risk manager of a       *)
(* backtest counts (Backtest).                                             *)
(***************************************************************************)
EXTENDS CircuitBreaker, Tuning, GridBot, AgentCycles, Backtest, FiniteSetTheorems,
        SequenceTheorems, TLAPS

(* A check that leaves the breaker closed found every limit kept.           *)
LEMMA CheckedWithinLimits ==
    ASSUME NEW m, NEW s, ~CheckedAgainst(m, s).open
    PROVE  /\ ~breaker.open
           /\ ~(Drawdown(m.start, m.current) >= DailyLimit)
           /\ ~(Drawdown(m.peak, m.current) >= TotalLimit)
           /\ s # <<>> => ~(RecentTotal(s) >= RapidLimit)
BY DEF CheckedAgainst, TrippedIf, Tripped

MoneyState == [current : Nat, peak : Nat, start : Nat, day : Nat]

BreakerInv ==
    /\ money \in MoneyState /\ streak \in Nat /\ minute \in Nat
    /\ checked \in BOOLEAN /\ breaker.open \in BOOLEAN
    /\ ClosedWithinLimits

LEMMA BreakerBounds ==
    /\ \A b \in Balances : b \in Nat
    /\ \A n \in ClockSteps : n \in Nat
    /\ StreakLimit \in Nat \ {0} /\ DailyLimit \in Nat /\ TotalLimit \in Nat
    /\ MinutesPerDay \in Nat \ {0}
BY BreakerAssumption

LEMMA DrawdownType ==
    ASSUME NEW base \in Nat, NEW current \in Nat
    PROVE  Drawdown(base, current) \in Int
<1>1. CASE base <= 0
  BY <1>1 DEF Drawdown
<1>2. CASE base > 0
  <2>1. 10000 * (base - current) \in Int
    OBVIOUS
  <2>2. (10000 * (base - current)) \div base \in Int
    BY <1>2, <2>1, SMT
  <2> QED BY <1>2, <2>2 DEF Drawdown
<1> QED BY <1>1, <1>2

LEMMA BalanceStep ==
    ASSUME BreakerInv, NEW b \in Balances, UpdateBreakerBalance(b)
    PROVE  BreakerInv'
<1> DEFINE m == [current |-> b, peak |-> IF b > money.peak THEN b ELSE money.peak,
                 start |-> DayStart, day |-> Today]
<1>1. /\ money' = m /\ breaker' = CheckedAgainst(m, losses') /\ checked' = TRUE
      /\ minute' = minute /\ streak' = IF RolledOver THEN streak ELSE 0
  BY DEF UpdateBreakerBalance
<1>2. m \in MoneyState
  <2>1. DayStart \in Nat
    BY DEF BreakerInv, MoneyState, DayStart
  <2>2. Today \in Nat
    BY BreakerBounds, SMT DEF BreakerInv, Today
  <2>3. money.peak \in Nat /\ b \in Nat
    BY BreakerBounds DEF BreakerInv, MoneyState
  <2> QED BY <2>1, <2>2, <2>3 DEF MoneyState
<1> HIDE DEF m
<1>3. streak' \in Nat /\ checked' \in BOOLEAN
  BY <1>1 DEF BreakerInv
<1>4. breaker'.open \in BOOLEAN
  <2>1. breaker'.open = breaker.open \/ breaker'.open = TRUE
    BY <1>1 DEF CheckedAgainst, TrippedIf, Tripped
  <2> QED BY <2>1 DEF BreakerInv
<1>5. ASSUME ~breaker'.open
      PROVE  /\ streak' < StreakLimit
             /\ Drawdown(m.start, m.current) < DailyLimit
             /\ Drawdown(m.peak, m.current) < TotalLimit
             /\ ~(losses' # <<>> /\ RecentTotal(losses') >= RapidLimit)
  <2>1. /\ ~breaker.open
        /\ ~(Drawdown(m.start, m.current) >= DailyLimit)
        /\ ~(Drawdown(m.peak, m.current) >= TotalLimit)
        /\ losses' # <<>> => ~(RecentTotal(losses') >= RapidLimit)
    BY <1>1, <1>5, CheckedWithinLimits
  <2>2. Drawdown(m.start, m.current) \in Int /\ Drawdown(m.peak, m.current) \in Int
    BY <1>2, DrawdownType DEF MoneyState
  <2>3. streak' < StreakLimit
    BY <1>1, <2>1, BreakerBounds DEF BreakerInv, ClosedWithinLimits
  <2> QED BY <2>1, <2>2, <2>3, BreakerBounds
<1>6. ClosedWithinLimits'
  BY <1>1, <1>5 DEF ClosedWithinLimits
<1> QED BY <1>1, <1>2, <1>3, <1>4, <1>6 DEF BreakerInv

LEMMA OtherBreakerSteps ==
    ASSUME BreakerInv,
           \/ RecordWin \/ RecordLoss
           \/ \E reason \in {"manual", "error"} : TripBy(reason)
           \/ \E force \in BOOLEAN : Reset(force)
           \/ \E n \in ClockSteps : ClockMoves(n)
    PROVE  BreakerInv'
<1> USE BreakerBounds
<1>1. CASE RecordWin
  BY <1>1 DEF RecordWin, BreakerInv, ClosedWithinLimits
<1>2. CASE RecordLoss
  <2>1. /\ streak' = streak + 1 /\ UNCHANGED <<minute, money, losses, checked>>
        /\ breaker' = TrippedIf(breaker, streak' >= StreakLimit, "streak")
    BY <1>2 DEF RecordLoss
  <2>2. streak' \in Nat
    BY <2>1 DEF BreakerInv
  <2>3. breaker'.open = breaker.open \/ breaker'.open = TRUE
    BY <2>1 DEF TrippedIf, Tripped
  <2>4. ~breaker'.open => ~breaker.open /\ ~(streak' >= StreakLimit)
    BY <2>1 DEF TrippedIf, Tripped
  <2>5. ClosedWithinLimits'
    BY <2>1, <2>2, <2>4 DEF BreakerInv, ClosedWithinLimits
  <2> QED BY <2>1, <2>2, <2>3, <2>5 DEF BreakerInv
<1>3. ASSUME NEW reason \in {"manual", "error"}, TripBy(reason) PROVE BreakerInv'
  <2>1. breaker'.open = TRUE /\ UNCHANGED <<minute, money, streak, losses, checked>>
    BY <1>3 DEF TripBy, Tripped, BreakerInv
  <2> QED BY <2>1 DEF BreakerInv, ClosedWithinLimits
<1>4. ASSUME NEW force \in BOOLEAN, Reset(force) PROVE BreakerInv'
  <2>1. /\ breaker' = Untripped /\ streak' = 0 /\ checked' = FALSE
        /\ UNCHANGED <<minute, money>>
    BY <1>4 DEF Reset
  <2>2. breaker'.open \in BOOLEAN
    BY <2>1 DEF Untripped
  <2>3. ~checked' /\ checked' \in BOOLEAN
    BY <2>1
  <2>4. streak' < StreakLimit /\ streak' \in Nat
    BY <2>1
  <2>5. ClosedWithinLimits'
    BY <2>3, <2>4 DEF ClosedWithinLimits
  <2> QED BY <2>1, <2>2, <2>3, <2>4, <2>5 DEF BreakerInv
<1>5. ASSUME NEW n \in ClockSteps, ClockMoves(n) PROVE BreakerInv'
  <2>1. minute' = minute + n /\ UNCHANGED <<breaker, money, streak, losses, checked>>
    BY <1>5 DEF ClockMoves
  <2> QED BY <2>1 DEF BreakerInv, ClosedWithinLimits
<1> QED BY <1>1, <1>2, <1>3, <1>4, <1>5

(* While the breaker is closed, trading is within every limit it watches,   *)
(* across days, cooldowns and forced resets (circuit.py:124, 150, 292), for *)
(* every value of the limits and every sequence of balances and results.    *)
THEOREM ClosedBreakerWithinLimits == BreakerSpec => []ClosedWithinLimits
<1>1. ASSUME BreakerInit PROVE BreakerInv
  <2>1. /\ breaker = Untripped /\ streak = 0 /\ checked = FALSE /\ minute = 0
        /\ money = [current |-> 0, peak |-> 0, start |-> 0, day |-> 0]
    BY <1>1 DEF BreakerInit
  <2>2. ~checked /\ checked \in BOOLEAN
    BY <2>1
  <2>3. breaker.open \in BOOLEAN
    BY <2>1 DEF Untripped
  <2>4. ClosedWithinLimits
    BY <2>1, <2>2, BreakerBounds DEF ClosedWithinLimits
  <2> QED BY <2>1, <2>2, <2>3, <2>4 DEF BreakerInv, MoneyState
<1>2. BreakerInv /\ [BreakerNext]_breakerVars => BreakerInv'
  <2>1. ASSUME BreakerInv, BreakerNext PROVE BreakerInv'
    BY <2>1, BalanceStep, OtherBreakerSteps DEF BreakerNext
  <2>2. ASSUME BreakerInv, UNCHANGED breakerVars PROVE BreakerInv'
    BY <2>2 DEF BreakerInv, ClosedWithinLimits, breakerVars
  <2> QED BY <2>1, <2>2
<1>3. BreakerInv => ClosedWithinLimits
  BY DEF BreakerInv
<1> QED BY <1>1, <1>2, <1>3, PTL DEF BreakerSpec

-----------------------------------------------------------------------------
(* Tuning                                                                   *)

WindowSet == [isFrom : Int, isTo : Int, oosFrom : Int, oosTo : Int]

(* A window fits on timestamps from the first on and tests on later ones,   *)
(* up to the n-th.                                                          *)
WellCut(w, n) ==
    /\ 1 <= w.isFrom /\ w.isFrom <= w.isTo /\ w.isTo < w.oosFrom
    /\ w.oosFrom <= w.oosTo /\ w.oosTo <= n

AllWellCut(ws, n) == \A i \in 1 .. Len(ws) : WellCut(ws[i], n)
InOrder(ws) == \A i \in 1 .. Len(ws) : \A j \in 1 .. Len(ws) : j < i => ws[j].oosTo < ws[i].isFrom
AllBefore(ws, first) == \A i \in 1 .. Len(ws) : ws[i].oosTo < first

TuneInv ==
    /\ stage \in {"idle", "window", "grid", "running", "validating"}
    /\ stage \in {"idle", "window"} => settings = DefaultParams
    /\ stage \notin {"idle", "window"} => saved = DefaultParams /\ window < NumWindows
    /\ window \in 0 .. NumWindows /\ stamps \in Nat
    /\ stage # "idle" => stamps >= 2 * NumWindows
    /\ reported \in Seq(WindowSet)
    /\ AllWellCut(reported, stamps)
    /\ InOrder(reported)
    /\ window < NumWindows => AllBefore(reported, WindowStart(window, stamps))

(* The share of a window that is fitted on leaves at least one timestamp    *)
(* on either side.                                                          *)
LEMMA SplitLeavesBoth ==
    ASSUME NEW size \in Nat, size >= 2
    PROVE  SplitIndex(size) \in 1 .. size - 1
<1> DEFINE share == (size * (100 - OosPct)) \div 100
<1>1. share \in Int
  <2>1. size * (100 - OosPct) \in Int
    BY TuningAssumption
  <2> QED BY <2>1, SMT
<1>2. SplitIndex(size) = LET most == IF share < size - 1 THEN share ELSE size - 1
                         IN  IF most < 1 THEN 1 ELSE most
  BY DEF SplitIndex
<1> HIDE DEF share
<1> QED BY <1>1, <1>2

(* n timestamps in d windows of equal share, the last one taking the rest.  *)
LEMMA EqualShares ==
    ASSUME NEW n \in Nat, NEW d \in Nat \ {0}, n >= 2 * d
    PROVE  /\ n \div d \in Nat /\ n \div d >= 2
           /\ \A i \in 0 .. d - 1 : /\ i * (n \div d) \in Nat
                                   /\ (i + 1) * (n \div d) = i * (n \div d) + n \div d
                                   /\ (i + 1) * (n \div d) <= n
<1> DEFINE q == n \div d
<1>1. q \in Nat /\ q * d <= n /\ q >= 2
  BY SMT
<1> HIDE DEF q
<1>2. ASSUME NEW i \in 0 .. d - 1
      PROVE  i * q \in Nat /\ (i + 1) * q = i * q + q /\ (i + 1) * q <= n
  BY <1>1, SMT
<1> QED BY <1>1, <1>2 DEF q

LEMMA SplitWellCut ==
    ASSUME NEW n \in Nat, n >= 2 * NumWindows, NEW i \in 0 .. NumWindows - 1
    PROVE  /\ Split(i, n) \in WindowSet /\ WellCut(Split(i, n), n)
           /\ Split(i, n).isFrom = WindowStart(i, n)
           /\ i + 1 < NumWindows => Split(i, n).oosTo < WindowStart(i + 1, n)
<1> DEFINE q == n \div NumWindows
           from == WindowStart(i, n)
           to == WindowEnd(i, n)
           cut == from + SplitIndex(to - from + 1)
<1>1. NumWindows \in Nat \ {0}
  BY TuningAssumption
<1>2. q \in Nat /\ q >= 2 /\ i * q \in Nat /\ (i + 1) * q = i * q + q /\ (i + 1) * q <= n
  BY <1>1, EqualShares
<1>3. from = i * q + 1 /\ to = IF i < NumWindows - 1 THEN (i + 1) * q ELSE n
  BY DEF WindowStart, WindowEnd
<1>4. WindowStart(i + 1, n) = (i + 1) * q + 1
  BY DEF WindowStart
<1>5. Split(i, n) = [isFrom |-> from, isTo |-> cut - 1, oosFrom |-> cut, oosTo |-> to]
  BY DEF Split
<1> HIDE DEF q, from, to
<1>6. from \in Nat /\ to \in Nat /\ 1 <= from /\ to - from + 1 >= 2 /\ to <= n
  BY <1>1, <1>2, <1>3
<1>7. i + 1 < NumWindows => to < (i + 1) * q + 1
  BY <1>1, <1>2, <1>3
<1>8. SplitIndex(to - from + 1) \in 1 .. to - from
  <2>1. to - from + 1 \in Nat
    BY <1>6
  <2>2. SplitIndex(to - from + 1) \in 1 .. (to - from + 1) - 1
    BY <1>6, <2>1, SplitLeavesBoth
  <2> QED BY <1>6, <2>2
<1>9. cut \in Int /\ from < cut /\ cut <= to
  BY <1>6, <1>8
<1> HIDE DEF cut
<1>10. Split(i, n) \in WindowSet
  BY <1>5, <1>6, <1>9 DEF WindowSet
<1>11. WellCut(Split(i, n), n)
  BY <1>5, <1>6, <1>9 DEF WellCut
<1> QED BY <1>4, <1>5, <1>7, <1>10, <1>11 DEF from

LEMMA ValidationStep ==
    ASSUME TuneInv, ValidationReturns
    PROVE  TuneInv'
<1> DEFINE w == Split(window, stamps)
<1>1. /\ stage = "validating" /\ stage' = "window" /\ window' = window + 1
      /\ settings' = saved /\ saved' = saved /\ stamps' = stamps
      /\ reported' = Append(reported, w)
  BY DEF ValidationReturns, NextWindow
<1>2. window \in 0 .. NumWindows - 1 /\ stamps \in Nat /\ stamps >= 2 * NumWindows
  BY <1>1, TuningAssumption DEF TuneInv
<1>3. /\ w \in WindowSet /\ WellCut(w, stamps) /\ w.isFrom = WindowStart(window, stamps)
      /\ window + 1 < NumWindows => w.oosTo < WindowStart(window + 1, stamps)
  BY <1>2, SplitWellCut
<1> HIDE DEF w
<1>4. /\ reported' \in Seq(WindowSet) /\ Len(reported') = Len(reported) + 1
      /\ reported'[Len(reported) + 1] = w
      /\ \A i \in 1 .. Len(reported) : reported'[i] = reported[i] /\ reported[i] \in WindowSet
      /\ Len(reported) \in Nat
  BY <1>1, <1>3, SMT DEF TuneInv
<1>5. AllWellCut(reported', stamps')
  BY <1>1, <1>3, <1>4 DEF TuneInv, AllWellCut
<1>6. \A i \in 1 .. Len(reported) : reported[i].oosTo < w.isFrom
  <2>1. window < NumWindows
    BY <1>2, TuningAssumption
  <2> QED BY <1>3, <2>1 DEF TuneInv, AllBefore
<1>7. InOrder(reported')
  <2> SUFFICES ASSUME NEW i \in 1 .. Len(reported'), NEW j \in 1 .. Len(reported'), j < i
               PROVE  reported'[j].oosTo < reported'[i].isFrom
    BY DEF InOrder
  <2>1. j \in 1 .. Len(reported) /\ reported'[j] = reported[j]
    BY <1>4
  <2>2. CASE i = Len(reported) + 1
    BY <1>4, <1>6, <2>1, <2>2
  <2>3. CASE i # Len(reported) + 1
    <3>1. i \in 1 .. Len(reported) /\ reported'[i] = reported[i]
      BY <1>4, <2>3
    <3> QED BY <2>1, <3>1 DEF TuneInv, InOrder
  <2> QED BY <2>2, <2>3
<1>8. ASSUME window' < NumWindows
      PROVE  AllBefore(reported', WindowStart(window', stamps'))
  <2>1. w.oosTo < WindowStart(window', stamps')
    BY <1>1, <1>3, <1>8
  <2>2. /\ w.isFrom \in Int /\ w.oosTo \in Int /\ w.isFrom <= w.oosTo
        /\ WindowStart(window', stamps') \in Int
    <3>1. w.isFrom \in Int /\ w.isTo \in Int /\ w.oosFrom \in Int /\ w.oosTo \in Int
      BY <1>3 DEF WindowSet
    <3>2. window' \in 0 .. NumWindows - 1 /\ NumWindows \in Nat \ {0}
      BY <1>1, <1>2, <1>8, TuningAssumption
    <3>3. window' * (stamps \div NumWindows) \in Nat
      BY <1>2, <3>2, EqualShares
    <3> QED BY <1>1, <1>3, <3>1, <3>3 DEF WellCut, WindowStart
  <2>3. ASSUME NEW i \in 1 .. Len(reported) PROVE reported[i].oosTo < WindowStart(window', stamps')
    <3>1. reported[i].oosTo \in Int
      BY <1>4 DEF WindowSet
    <3> QED BY <1>6, <2>1, <2>2, <3>1
  <2> QED BY <1>4, <2>1, <2>3 DEF AllBefore
<1>9. window' \in 0 .. NumWindows
  BY <1>1, <1>2, TuningAssumption
<1>10. settings' = DefaultParams
  BY <1>1 DEF TuneInv
<1> QED BY <1>1, <1>2, <1>4, <1>5, <1>7, <1>8, <1>9, <1>10 DEF TuneInv

(* A step that goes on within a window, or leaves one without a result.     *)
LEMMA OtherTuningSteps ==
    ASSUME TuneInv
    PROVE  /\ BeginOptimize => TuneInv'
           /\ TryCombination => TuneInv'
           /\ \A m \in Metrics : RunReturns(m) => TuneInv'
           /\ RunFails => TuneInv'
           /\ GridFindsNothing => TuneInv'
           /\ Validate => TuneInv'
           /\ ValidationFails => TuneInv'
           /\ Cancelled => TuneInv'
           /\ EndWalk => TuneInv'
<1>1. NumWindows \in Nat \ {0}
  BY TuningAssumption
<1>2. ASSUME BeginOptimize PROVE TuneInv'
  BY <1>1, <1>2 DEF TuneInv, BeginOptimize
<1>3. ASSUME TryCombination PROVE TuneInv'
  BY <1>3 DEF TuneInv, TryCombination
<1>4. ASSUME NEW m \in Metrics, RunReturns(m) PROVE TuneInv'
  BY <1>4 DEF TuneInv, RunReturns
<1>5. ASSUME RunFails PROVE TuneInv'
  BY <1>5 DEF TuneInv, RunFails
<1>6. ASSUME NextWindow, settings' = saved, stage \notin {"idle", "window"},
             UNCHANGED <<saved, stamps, reported>>
      PROVE  TuneInv'
  <2>1. window' \in 0 .. NumWindows /\ window \in 0 .. NumWindows - 1 /\ stage' = "window"
    BY <1>1, <1>6 DEF TuneInv, NextWindow
  <2>2. ASSUME window' < NumWindows
        PROVE  AllBefore(reported, WindowStart(window', stamps))
    <3> DEFINE q == stamps \div NumWindows
    <3>1. /\ q \in Nat /\ window * q \in Nat /\ (window + 1) * q = window * q + q
      BY <1>1, <1>6, <2>1, EqualShares DEF TuneInv
    <3>2. window' = window + 1
      BY <1>6 DEF NextWindow
    <3>3. WindowStart(window, stamps) = window * q + 1 /\ WindowStart(window', stamps) = (window + 1) * q + 1
      BY <3>2 DEF WindowStart
    <3> HIDE DEF q
    <3>4. AllBefore(reported, WindowStart(window, stamps)) /\ reported \in Seq(WindowSet)
      BY <1>1, <2>1 DEF TuneInv
    <3>5. ASSUME NEW i \in 1 .. Len(reported) PROVE reported[i].oosTo \in Int
      <4>1. reported[i] \in WindowSet
        BY <3>4, SMT
      <4> QED BY <4>1 DEF WindowSet
    <3> QED BY <3>1, <3>3, <3>4, <3>5 DEF AllBefore
  <2> QED BY <1>6, <2>1, <2>2 DEF TuneInv
<1>7. ASSUME GridFindsNothing PROVE TuneInv'
  BY <1>6, <1>7 DEF GridFindsNothing
<1>8. ASSUME Validate PROVE TuneInv'
  BY <1>8 DEF TuneInv, Validate
<1>9. ASSUME ValidationFails PROVE TuneInv'
  BY <1>6, <1>9 DEF ValidationFails
<1>10. ASSUME Cancelled PROVE TuneInv'
  BY <1>10 DEF TuneInv, Cancelled
<1>11. ASSUME EndWalk PROVE TuneInv'
  BY <1>11 DEF TuneInv, EndWalk
<1> QED BY <1>2, <1>3, <1>4, <1>5, <1>7, <1>8, <1>9, <1>10, <1>11

LEMMA TuneInvariant == TuningSpec => []TuneInv
<1>1. ASSUME TuningInit PROVE TuneInv
  <2>1. /\ stage = "idle" /\ settings = DefaultParams /\ stamps = 0 /\ window = 0
        /\ reported = <<>>
    BY <1>1 DEF TuningInit
  <2>2. reported \in Seq(WindowSet) /\ Len(reported) = 0
    BY <2>1
  <2> QED BY <2>1, <2>2, TuningAssumption DEF TuneInv, AllWellCut, InOrder, AllBefore
<1>2. TuneInv /\ [TuningNext]_tuningVars => TuneInv'
  <2>1. ASSUME TuneInv, NEW n \in StampCounts, BeginWalk(n) PROVE TuneInv'
    <3>1. /\ stage' = "window" /\ stage = "idle" /\ stamps' = n /\ window' = 0
          /\ reported' = <<>> /\ settings' = settings /\ n >= 2 * NumWindows
      BY <2>1 DEF BeginWalk
    <3>2. reported' \in Seq(WindowSet) /\ Len(reported') = 0
      BY <3>1
    <3>3. n \in Nat
      BY TuningAssumption
    <3> QED BY <2>1, <3>1, <3>2, <3>3, TuningAssumption DEF TuneInv, AllWellCut, InOrder, AllBefore
  <2>2. ASSUME TuneInv, TuningNext PROVE TuneInv'
    BY <2>1, <2>2, OtherTuningSteps, ValidationStep DEF TuningNext
  <2>3. ASSUME TuneInv, UNCHANGED tuningVars PROVE TuneInv'
    BY <2>3 DEF TuneInv, tuningVars
  <2> QED BY <2>2, <2>3
<1> QED BY <1>1, <1>2, PTL DEF TuningSpec

(* Walk-forward analysis reports only windows whose parameters were fitted  *)
(* on earlier timestamps than they are tested on, counts no timestamp       *)
(* twice, and gives the user's settings back (walk_forward.py:234), for     *)
(* every grid, number of windows, share and length of the data, whichever   *)
(* backtests fail or are cancelled.                                         *)
THEOREM WalkForwardTestsOnUnseen == TuningSpec => []TestedOnUnseen
<1>1. TuneInv => TestedOnUnseen
  <2> SUFFICES ASSUME TuneInv PROVE TestedOnUnseen
    OBVIOUS
  <2>1. DOMAIN reported = 1 .. Len(reported)
    BY DEF TuneInv
  <2> QED BY <2>1 DEF TuneInv, TestedOnUnseen, AllWellCut, WellCut, InOrder
<1> QED BY <1>1, TuneInvariant, PTL

-----------------------------------------------------------------------------
(* GridBot                                                                  *)

(* Taking one order away disturbs no other count; placing one disturbs none *)
(* for the worse.                                                           *)
LEMMA RemovedCounts ==
    ASSUME open \in [Orders -> Nat], NEW o \in Orders, open[o] > 0
    PROVE  /\ Removed(o) \in [Orders -> Nat]
           /\ \A y \in Orders : y # o => Removed(o)[y] = open[y]
<1>1. open[o] - 1 \in Nat
  BY SMT
<1> QED BY <1>1 DEF Removed

LEMMA PlacedCounts ==
    ASSUME NEW orders \in [Orders -> Nat], NEW o \in Orders
    PROVE  /\ Placed(orders, o) \in [Orders -> Nat]
           /\ Placed(orders, o)[o] > 0
           /\ \A y \in Orders : Placed(orders, o)[y] >= orders[y]
<1>1. orders[o] \in Nat /\ orders[o] + 1 \in Nat /\ orders[o] + 1 > 0
  BY SMT
<1>2. Placed(orders, o) = [orders EXCEPT ![o] = orders[o] + 1]
  BY DEF Placed
<1>3. \A y \in Orders : Placed(orders, o)[y] = IF y = o THEN orders[o] + 1 ELSE orders[y]
  BY <1>2
<1>4. Placed(orders, o) \in [Orders -> Nat]
  BY <1>1, <1>2
<1>5. ASSUME NEW y \in Orders PROVE Placed(orders, o)[y] >= orders[y]
  <2>1. orders[y] \in Nat
    OBVIOUS
  <2> QED BY <1>1, <1>3, <2>1, SMT
<1> QED BY <1>1, <1>3, <1>4, <1>5

CellKept(orders, i) == orders[<<"buy", i>>] + orders[<<"sell", i + 1>>] > 0

GridInv ==
    /\ initialized \in BOOLEAN /\ stopped \in BOOLEAN
    /\ open \in [Orders -> Nat]
    /\ initialized /\ ~stopped => \A i \in 0 .. N - 1 : CellKept(open, i)

LEMMA OrdersOfLevels ==
    \A i \in Levels : <<"buy", i>> \in Orders /\ <<"sell", i>> \in Orders
BY DEF Orders

LEMMA CellOrders ==
    \A i \in 0 .. N - 1 : /\ i \in Levels /\ i + 1 \in Levels
                          /\ <<"buy", i>> \in Orders /\ <<"sell", i + 1>> \in Orders
<1>1. \A i \in 0 .. N - 1 : i \in Levels /\ i + 1 \in Levels
  BY GridAssumption DEF Levels
<1> QED BY <1>1, OrdersOfLevels

(* A fill takes one of the two orders of a cell, and the counter-order that *)
(* answers it is the other one of the same cell.                            *)
LEMMA FillKeepsCells ==
    ASSUME open \in [Orders -> Nat], NEW o \in Orders, open[o] > 0,
           NEW x \in Orders, NEW c \in 0 .. N - 1,
           \A i \in 0 .. N - 1 : CellKept(open, i),
           \A i \in 0 .. N - 1 : i # c => o # <<"buy", i>> /\ o # <<"sell", i + 1>>,
           x \in {<<"buy", c>>, <<"sell", c + 1>>}
    PROVE  \A i \in 0 .. N - 1 : CellKept(Placed(Removed(o), x), i)
<1> DEFINE gone == Removed(o)
           next == Placed(gone, x)
<1>1. gone \in [Orders -> Nat] /\ \A y \in Orders : y # o => gone[y] = open[y]
  BY RemovedCounts
<1> HIDE DEF gone
<1>2. next \in [Orders -> Nat] /\ next[x] > 0 /\ \A y \in Orders : next[y] >= gone[y]
  BY <1>1, PlacedCounts
<1> HIDE DEF next
<1>3. ASSUME NEW i \in 0 .. N - 1 PROVE CellKept(next, i)
  <2> DEFINE b == <<"buy", i>>
             s == <<"sell", i + 1>>
  <2>1. b \in Orders /\ s \in Orders
    BY CellOrders
  <2>2. open[b] + open[s] > 0
    BY DEF CellKept
  <2>3. i # c => o # b /\ o # s
    OBVIOUS
  <2>4. i = c => x = b \/ x = s
    OBVIOUS
  <2> HIDE DEF b, s
  <2>5. /\ next[b] \in Nat /\ next[s] \in Nat /\ gone[b] \in Nat /\ gone[s] \in Nat
        /\ open[b] \in Nat /\ open[s] \in Nat
    BY <1>1, <1>2, <2>1
  <2>6. CASE i = c
    BY <1>2, <2>1, <2>4, <2>5, <2>6 DEF CellKept, b, s
  <2>7. CASE i # c
    <3>1. gone[b] = open[b] /\ gone[s] = open[s]
      BY <1>1, <2>1, <2>3, <2>7
    <3>2. next[b] >= gone[b] /\ next[s] >= gone[s]
      BY <1>2, <2>1
    <3>3. next[b] + next[s] > 0
      BY <2>2, <2>5, <3>1, <3>2
    <3> QED BY <3>3 DEF CellKept, b, s
  <2> QED BY <2>6, <2>7
<1> QED BY <1>3 DEF gone, next

(* At the end of the grid nothing answers a fill, and no cell is lost.      *)
LEMMA EndKeepsCells ==
    ASSUME open \in [Orders -> Nat], NEW o \in Orders, open[o] > 0,
           \A i \in 0 .. N - 1 : CellKept(open, i),
           \A i \in 0 .. N - 1 : o # <<"buy", i>> /\ o # <<"sell", i + 1>>
    PROVE  \A i \in 0 .. N - 1 : CellKept(Removed(o), i)
<1>1. \A y \in Orders : y # o => Removed(o)[y] = open[y]
  BY RemovedCounts
<1>2. ASSUME NEW i \in 0 .. N - 1 PROVE CellKept(Removed(o), i)
  <2>1. <<"buy", i>> \in Orders /\ <<"sell", i + 1>> \in Orders
    BY CellOrders
  <2>2. Removed(o)[<<"buy", i>>] = open[<<"buy", i>>]
    BY <1>1, <2>1
  <2>3. Removed(o)[<<"sell", i + 1>>] = open[<<"sell", i + 1>>]
    BY <1>1, <2>1
  <2> QED BY <2>2, <2>3 DEF CellKept
<1> QED BY <1>2

LEMMA BuyStep ==
    ASSUME GridInv, NEW i \in Levels, BuyFilled(i)
    PROVE  GridInv'
<1> DEFINE b == <<"buy", i>>
           s == <<"sell", i + 1>>
<1>1. /\ open[b] > 0 /\ initialized /\ ~stopped /\ initialized' = initialized /\ stopped' = stopped
      /\ i + 1 \in Levels => open' = Placed(Removed(b), s)
      /\ i + 1 \notin Levels => open' = Removed(b)
  BY DEF BuyFilled
<1>2. open \in [Orders -> Nat] /\ b \in Orders
  BY OrdersOfLevels DEF GridInv
<1>3. CASE i + 1 \in Levels
  <2>1. s \in Orders /\ i \in 0 .. N - 1
    <3>1. i \in 0 .. N - 1
      BY <1>3, GridAssumption DEF Levels
    <3> QED BY <1>3, <3>1, OrdersOfLevels
  <2>2. \A j \in 0 .. N - 1 : j # i => b # <<"buy", j>> /\ b # <<"sell", j + 1>>
    OBVIOUS
  <2>3. \A j \in 0 .. N - 1 : CellKept(open', j)
    BY <1>1, <1>2, <1>3, <2>1, <2>2, FillKeepsCells DEF GridInv
  <2>4. open' \in [Orders -> Nat]
    <3>1. Removed(b) \in [Orders -> Nat]
      BY <1>1, <1>2, RemovedCounts
    <3> QED BY <1>1, <1>3, <2>1, <3>1, PlacedCounts
  <2> QED BY <1>1, <2>3, <2>4 DEF GridInv
<1>4. CASE i + 1 \notin Levels
  <2>1. \A j \in 0 .. N - 1 : b # <<"buy", j>> /\ b # <<"sell", j + 1>>
    BY <1>4, CellOrders
  <2>2. \A j \in 0 .. N - 1 : CellKept(open', j)
    BY <1>1, <1>2, <1>4, <2>1, EndKeepsCells DEF GridInv
  <2>3. open' \in [Orders -> Nat]
    BY <1>1, <1>2, <1>4, RemovedCounts
  <2> QED BY <1>1, <2>2, <2>3 DEF GridInv
<1> QED BY <1>3, <1>4

LEMMA SellStep ==
    ASSUME GridInv, NEW i \in Levels, SellFilled(i)
    PROVE  GridInv'
<1> DEFINE s == <<"sell", i>>
           b == <<"buy", i - 1>>
<1>1. /\ open[s] > 0 /\ initialized /\ ~stopped /\ initialized' = initialized /\ stopped' = stopped
      /\ i - 1 \in Levels => open' = Placed(Removed(s), b)
      /\ i - 1 \notin Levels => open' = Removed(s)
  BY DEF SellFilled
<1>2. open \in [Orders -> Nat] /\ s \in Orders
  BY OrdersOfLevels DEF GridInv
<1>3. CASE i - 1 \in Levels
  <2>1. b \in Orders /\ i - 1 \in 0 .. N - 1 /\ s = <<"sell", (i - 1) + 1>>
    <3>1. i - 1 \in 0 .. N - 1 /\ (i - 1) + 1 = i
      BY <1>3, GridAssumption DEF Levels
    <3> QED BY <1>3, <3>1, OrdersOfLevels
  <2>2. \A j \in 0 .. N - 1 : j # i - 1 => s # <<"buy", j>> /\ s # <<"sell", j + 1>>
    BY <2>1 DEF Levels
  <2>3. \A j \in 0 .. N - 1 : CellKept(open', j)
    BY <1>1, <1>2, <1>3, <2>1, <2>2, FillKeepsCells DEF GridInv
  <2>4. open' \in [Orders -> Nat]
    <3>1. Removed(s) \in [Orders -> Nat]
      BY <1>1, <1>2, RemovedCounts
    <3> QED BY <1>1, <1>3, <2>1, <3>1, PlacedCounts
  <2> QED BY <1>1, <2>3, <2>4 DEF GridInv
<1>4. CASE i - 1 \notin Levels
  <2>1. \A j \in 0 .. N - 1 : s # <<"buy", j>> /\ s # <<"sell", j + 1>>
    BY <1>4, GridAssumption DEF Levels
  <2>2. \A j \in 0 .. N - 1 : CellKept(open', j)
    BY <1>1, <1>2, <1>4, <2>1, EndKeepsCells DEF GridInv
  <2>3. open' \in [Orders -> Nat]
    BY <1>1, <1>2, <1>4, RemovedCounts
  <2> QED BY <1>1, <2>2, <2>3 DEF GridInv
<1> QED BY <1>3, <1>4

(* While the grid runs every cell keeps a buy at its lower end or a sell at *)
(* its upper one (on_order_filled(), grid.py:104), for any number of levels *)
(* and of fills in any order.                                               *)
THEOREM GridKeepsItsCells == GridSpec => []CellsKeepOrder
<1>1. ASSUME GridInit PROVE GridInv
  BY <1>1 DEF GridInit, GridInv
<1>2. GridInv /\ [GridNext]_gridVars => GridInv'
  <2> SUFFICES ASSUME GridInv, [GridNext]_gridVars PROVE GridInv'
    OBVIOUS
  <2>1. ASSUME NEW price \in 0 - 1 .. 2 * N + 1, InitialOrders(price) PROVE GridInv'
    <3>1. open' = [o \in Orders |-> open[o] +
                     IF \/ o[1] = "buy" /\ 2 * o[2] < price
                        \/ o[1] = "sell" /\ 2 * o[2] > price THEN 1 ELSE 0]
      BY <2>1, Zenon DEF InitialOrders
    <3>2. open \in [Orders -> Nat] /\ open' \in [Orders -> Nat]
      BY <3>1 DEF GridInv
    <3>3. ASSUME NEW i \in 0 .. N - 1 PROVE CellKept(open', i)
      <4>1. <<"buy", i>> \in Orders /\ <<"sell", i + 1>> \in Orders
        BY CellOrders
      <4> DEFINE b == <<"buy", i>>
                 s == <<"sell", i + 1>>
      <4>2. b[1] = "buy" /\ b[2] = i /\ s[1] = "sell" /\ s[2] = i + 1
        OBVIOUS
      <4>3. b \in Orders /\ s \in Orders
        BY <4>1
      <4>4. i \in Int /\ price \in Int
        BY GridAssumption
      <4>5. open'[b] = open[b] + IF 2 * i < price THEN 1 ELSE 0
        <5> HIDE DEF b
        <5> QED BY <3>1, <4>2, <4>3, <4>4
      <4>6. open'[s] = open[s] + IF 2 * (i + 1) > price THEN 1 ELSE 0
        <5> HIDE DEF s
        <5> QED BY <3>1, <4>2, <4>3, <4>4
      <4>7. open[b] \in Nat /\ open[s] \in Nat
        BY <3>2, <4>3
      <4> QED BY <4>5, <4>6, <4>7, GridAssumption DEF CellKept
    <3>4. initialized' \in BOOLEAN /\ stopped' \in BOOLEAN
      BY <2>1 DEF InitialOrders, GridInv
    <3> QED BY <3>2, <3>3, <3>4 DEF GridInv
  <2>2. ASSUME NEW o \in Orders, FilledAfterStop(o) PROVE GridInv'
    <3>1. open' \in [Orders -> Nat]
      BY <2>2, RemovedCounts DEF GridInv, FilledAfterStop
    <3> QED BY <2>2, <3>1 DEF GridInv, FilledAfterStop
  <2>3. ASSUME PriceLeavesRange PROVE GridInv'
    BY <2>3 DEF GridInv, PriceLeavesRange
  <2>4. ASSUME UNCHANGED gridVars PROVE GridInv'
    BY <2>4 DEF GridInv, gridVars
  <2> QED BY <2>1, <2>2, <2>3, <2>4, BuyStep, SellStep DEF GridNext
<1>3. GridInv => CellsKeepOrder
  BY DEF GridInv, CellsKeepOrder, CellKept
<1> QED BY <1>1, <1>2, <1>3, PTL DEF GridSpec

BuysInv ==
    /\ pendingBuys \in SUBSET Levels
    /\ bought \in Nat /\ cycles \in Nat /\ replaced \in Nat
    /\ BuysAccountedFor

(* Every buy of a running grid is in a completed cycle, is pending, or was  *)
(* overwritten in _pending_buys by a second buy at its level (grid.py:118,  *)
(* 136), for any number of levels and of fills in any order.                *)
THEOREM GridAccountsForBuys == GridSpec => []BuysAccountedFor
<1>1. ASSUME GridInit PROVE BuysInv
  BY <1>1, FS_EmptySet DEF GridInit, BuysInv, BuysAccountedFor
<1>2. BuysInv /\ [GridNext]_gridVars => BuysInv'
  <2> SUFFICES ASSUME BuysInv, [GridNext]_gridVars PROVE BuysInv'
    OBVIOUS
  <2>1. IsFiniteSet(pendingBuys) /\ Cardinality(pendingBuys) \in Nat
    <3>1. IsFiniteSet(Levels)
      BY GridAssumption, FS_Interval DEF Levels
    <3> QED BY <3>1, FS_Subset, FS_CardinalityType DEF BuysInv
  <2>2. ASSUME NEW i \in Levels, BuyFilled(i) PROVE BuysInv'
    <3>1. Cardinality(pendingBuys \cup {i}) =
             IF i \in pendingBuys THEN Cardinality(pendingBuys) ELSE Cardinality(pendingBuys) + 1
      BY <2>1, FS_AddElement
    <3> QED BY <2>1, <2>2, <3>1 DEF BuyFilled, BuysInv, BuysAccountedFor
  <2>3. ASSUME NEW i \in Levels, SellFilled(i) PROVE BuysInv'
    <3>1. Cardinality(pendingBuys \ {i - 1}) =
             IF i - 1 \in pendingBuys THEN Cardinality(pendingBuys) - 1 ELSE Cardinality(pendingBuys)
      BY <2>1, FS_RemoveElement
    <3> QED BY <2>1, <2>3, <3>1 DEF SellFilled, BuysInv, BuysAccountedFor
  <2>4. ASSUME NEW price \in 0 - 1 .. 2 * N + 1, InitialOrders(price) PROVE BuysInv'
    BY <2>4 DEF InitialOrders, BuysInv, BuysAccountedFor
  <2>5. ASSUME NEW o \in Orders, FilledAfterStop(o) PROVE BuysInv'
    BY <2>5 DEF FilledAfterStop, BuysInv, BuysAccountedFor
  <2>6. ASSUME PriceLeavesRange PROVE BuysInv'
    BY <2>6 DEF PriceLeavesRange, BuysInv, BuysAccountedFor
  <2>7. ASSUME UNCHANGED gridVars PROVE BuysInv'
    BY <2>7 DEF gridVars, BuysInv, BuysAccountedFor
  <2> QED BY <2>2, <2>3, <2>4, <2>5, <2>6, <2>7 DEF GridNext
<1>3. BuysInv => BuysAccountedFor
  BY DEF BuysInv
<1> QED BY <1>1, <1>2, <1>3, PTL DEF GridSpec

-----------------------------------------------------------------------------
(* AgentCycles                                                              *)

(* What holds of the cycle k of the cycler r, whose awaited tool is c: its  *)
(* role is one of its kind, and it has spent no more than its iterations    *)
(* so far allow.                                                            *)
Spends(k) == k.stage \notin {"idle", "fallback", "fellback"}

GoodCycle(r, k, c) ==
    /\ k \in CycleState
    /\ r \in Teams => k.role \in {"none", "analyst", "risk", "executor"}
    /\ r \in Solos => k.role \in {"none", "solo"}
    /\ k.stage # "idle" => k.role # "none"
    /\ c # "none" => k.stage \in {"context", "tools", "fallback"}
    /\ ~Spends(k) \/ k.stage = "context" => k.iter = 0 /\ k.tokens = 0
    /\ k.stage = "ask" => k.iter < MaxIterations
    /\ k.iter <= MaxIterations
    /\ k.stage \in {"ask", "tools"} => k.tokens <= k.iter * CallTokens
    /\ k.tokens <= MaxPerCycle

Spenders(cyc) == {r \in Solos : Spends(cyc[r])}

(* Were every cycle that is still going on to spend all that it may, the    *)
(* tokens counted would keep the bound.                                     *)
Affordable(cyc, n) ==
    n + Cardinality(Spenders(cyc)) * MaxPerCycle
        <= Budget - 1 + Cardinality(Solos) * MaxPerCycle

CyclesInv ==
    /\ cycle \in [Cyclers -> CycleState]
    /\ call \in [Cyclers -> Categories \cup {"none"}]
    /\ \A r \in Cyclers : GoodCycle(r, cycle[r], call[r])
    /\ traded \in [Cyclers -> SUBSET {"none", "solo", "analyst", "risk", "executor"}]
    /\ OnlyExecutorTrades
    /\ counted \in Nat
    /\ Budget > 0 => (exceeded \/ counted <= Budget - 1) /\ Affordable(cycle, counted)

LEMMA CycleConstants ==
    /\ IsFiniteSet(Cyclers) /\ IsFiniteSet(Solos) /\ Solos \subseteq Cyclers /\ Teams \subseteq Cyclers
    /\ Solos \cap Teams = {}
    /\ MaxIterations \in Nat \ {0} /\ Budget \in Nat /\ CallTokens \in Nat /\ MaxBatch \in Nat \ {0}
    /\ MaxPerCycle \in Nat
<1>1. IsFiniteSet(Solos)
  BY CyclesAssumption, FS_Subset DEF Cyclers
<1>2. MaxIterations \in Nat \ {0} /\ CallTokens \in Nat /\ Budget \in Nat /\ MaxBatch \in Nat \ {0}
  BY CyclesAssumption
<1> QED BY <1>1, <1>2, CyclesAssumption, SMT DEF Cyclers, MaxPerCycle

LEMMA SpendersFinite ==
    ASSUME NEW cyc
    PROVE  /\ IsFiniteSet(Spenders(cyc)) /\ Cardinality(Spenders(cyc)) \in Nat
           /\ Cardinality(Spenders(cyc)) <= Cardinality(Solos) /\ Cardinality(Solos) \in Nat
<1>1. Spenders(cyc) \in SUBSET Solos
  BY DEF Spenders
<1> QED BY <1>1, CycleConstants, FS_Subset, FS_CardinalityType

LEMMA FewerSpendersAfford ==
    ASSUME NEW c1, NEW c2, NEW n \in Nat, Spenders(c2) \subseteq Spenders(c1), Affordable(c1, n)
    PROVE  Affordable(c2, n)
<1> DEFINE a == Cardinality(Spenders(c1))
           b == Cardinality(Spenders(c2))
<1>1. a \in Nat /\ b \in Nat /\ b <= a
  BY SpendersFinite, FS_Subset
<1>2. b * MaxPerCycle <= a * MaxPerCycle /\ b * MaxPerCycle \in Nat /\ a * MaxPerCycle \in Nat
  <2> HIDE DEF a, b
  <2> QED BY <1>1, CycleConstants, SMT
<1>3. Cardinality(Solos) * MaxPerCycle \in Nat
  BY SpendersFinite, CycleConstants, SMT
<1> HIDE DEF a, b
<1>4. n + a * MaxPerCycle <= Budget - 1 + Cardinality(Solos) * MaxPerCycle
  BY DEF Affordable, a
<1>5. n + b * MaxPerCycle <= Budget - 1 + Cardinality(Solos) * MaxPerCycle
  BY <1>2, <1>3, <1>4, CycleConstants
<1> QED BY <1>5 DEF Affordable, b

(* While nothing is over the budget, all of Solos may be spending.          *)
LEMMA UnderBudgetAffords ==
    ASSUME NEW cyc, NEW n \in Nat, n <= Budget - 1
    PROVE  Affordable(cyc, n)
<1> DEFINE b == Cardinality(Spenders(cyc))
<1>1. b \in Nat /\ b <= Cardinality(Solos) /\ Cardinality(Solos) \in Nat
  BY SpendersFinite
<1> HIDE DEF b
<1>2. b * MaxPerCycle <= Cardinality(Solos) * MaxPerCycle
  BY <1>1, CycleConstants, SMT
<1>3. b * MaxPerCycle \in Nat /\ Cardinality(Solos) * MaxPerCycle \in Nat
  BY <1>1, CycleConstants, SMT
<1> QED BY <1>2, <1>3, CycleConstants DEF Affordable, b

(* A step of one cycler that counts no tokens, and begins to spend only     *)
(* under the budget, keeps the invariant.                                   *)
LEMMA QuietStep ==
    ASSUME CyclesInv, NEW r \in Cyclers, NEW k, NEW c \in Categories \cup {"none"},
           cycle' = [cycle EXCEPT ![r] = k], call' = [call EXCEPT ![r] = c],
           GoodCycle(r, k, c),
           counted' = counted, exceeded' = exceeded,
           r \in Solos /\ Spends(k) => Spends(cycle[r]) \/ ~(exceeded /\ Budget > 0),
           traded' \in [Cyclers -> SUBSET {"none", "solo", "analyst", "risk", "executor"}],
           OnlyExecutorTrades'
    PROVE  CyclesInv'
<1>1. cycle' \in [Cyclers -> CycleState] /\ call' \in [Cyclers -> Categories \cup {"none"}]
  BY DEF CyclesInv, GoodCycle
<1>2. \A q \in Cyclers : GoodCycle(q, cycle'[q], call'[q])
  BY DEF CyclesInv
<1>3. ASSUME Budget > 0 PROVE (exceeded' \/ counted' <= Budget - 1) /\ Affordable(cycle', counted')
  <2>1. exceeded' \/ counted' <= Budget - 1
    BY <1>3 DEF CyclesInv
  <2>2. counted' \in Nat
    BY DEF CyclesInv
  <2>3. CASE counted' <= Budget - 1
    BY <2>2, <2>3, UnderBudgetAffords
  <2>4. CASE exceeded
    <3>1. Spenders(cycle') \subseteq Spenders(cycle)
      <4> SUFFICES ASSUME NEW q \in Solos, Spends(cycle'[q]) PROVE Spends(cycle[q])
        BY DEF Spenders
      <4>1. q \in Cyclers
        BY CycleConstants
      <4>2. CASE q = r
        <5>1. cycle'[q] = k
          BY <4>1, <4>2 DEF CyclesInv
        <5> QED BY <1>3, <2>4, <4>2, <5>1
      <4>3. CASE q # r
        BY <4>1, <4>3 DEF CyclesInv
      <4> QED BY <4>2, <4>3
    <3>2. Affordable(cycle, counted) /\ counted \in Nat
      BY <1>3 DEF CyclesInv
    <3> QED BY <2>1, <3>1, <3>2, FewerSpendersAfford
  <2> QED BY <2>1, <2>3, <2>4
<1>4. counted' \in Nat
  BY DEF CyclesInv
<1> QED BY <1>1, <1>2, <1>3, <1>4 DEF CyclesInv

LEMMA CycleStep ==
    ASSUME CyclesInv, NEW r \in Cyclers, NEW k,
           cycle' = [cycle EXCEPT ![r] = k], UNCHANGED <<call, counted, exceeded, traded>>,
           GoodCycle(r, k, call[r]),
           r \in Solos /\ Spends(k) => Spends(cycle[r]) \/ ~(exceeded /\ Budget > 0)
    PROVE  CyclesInv'
<1>1. call' = [call EXCEPT ![r] = call[r]] /\ call[r] \in Categories \cup {"none"}
  BY DEF CyclesInv
<1>2. traded' \in [Cyclers -> SUBSET {"none", "solo", "analyst", "risk", "executor"}]
  BY DEF CyclesInv
<1>3. OnlyExecutorTrades'
  BY DEF CyclesInv, OnlyExecutorTrades
<1> QED BY <1>1, <1>2, <1>3, QuietStep

Begun(stage0, role0) == [NoCycle EXCEPT !.stage = stage0, !.role = role0, !.batch = 1]

LEMMA BegunGood ==
    ASSUME NEW r, NEW stage0, NEW role0, NEW c,
           stage0 \in {"context", "fallback"}, role0 \in {"solo", "analyst"},
           r \in Teams => role0 # "solo", r \in Solos => role0 = "solo"
    PROVE  /\ GoodCycle(r, Begun(stage0, role0), c)
           /\ stage0 = "fallback" => ~Spends(Begun(stage0, role0))
<1> DEFINE k == Begun(stage0, role0)
<1>1. /\ k \in CycleState /\ k.stage = stage0 /\ k.role = role0 /\ k.iter = 0 /\ k.tokens = 0
  BY DEF NoCycle, CycleState, Begun
<1> HIDE DEF k
<1>2. 0 <= MaxIterations /\ 0 <= MaxPerCycle
  BY CycleConstants
<1>3. k.stage \notin {"ask", "tools"} /\ (c # "none" => k.stage \in {"context", "tools", "fallback"})
  BY <1>1
<1>4. /\ r \in Teams => k.role \in {"none", "analyst", "risk", "executor"}
      /\ r \in Solos => k.role \in {"none", "solo"}
  BY <1>1
<1> QED BY <1>1, <1>2, <1>3, <1>4 DEF GoodCycle, Spends, k

LEMMA IdleGood == \A r : GoodCycle(r, NoCycle, "none") /\ ~Spends(NoCycle)
<1>1. NoCycle \in CycleState /\ NoCycle.stage = "idle" /\ NoCycle.iter = 0 /\ NoCycle.tokens = 0
      /\ NoCycle.role = "none"
  BY DEF NoCycle, CycleState
<1>2. 0 <= MaxIterations /\ 0 <= MaxPerCycle
  BY CycleConstants
<1> QED BY <1>1, <1>2 DEF GoodCycle, Spends

LEMMA AfterToolGood ==
    ASSUME NEW r, NEW k, NEW c, GoodCycle(r, k, c), k.stage \in {"context", "tools", "fallback"}
    PROVE  /\ GoodCycle(r, AfterTool(k), "none")
           /\ Spends(AfterTool(k)) => Spends(k)
<1>1. /\ k \in CycleState /\ k.iter \in Nat /\ k.tokens \in Nat /\ k.batch \in Nat
      /\ k.iter <= MaxIterations /\ MaxIterations \in Nat \ {0}
  BY CycleConstants DEF GoodCycle, CycleState
<1>2. CASE k.batch > 1
  <2>1. AfterTool(k) = [k EXCEPT !.batch = k.batch - 1] /\ k.batch - 1 \in Nat
    BY <1>1, <1>2 DEF AfterTool
  <2>2. /\ AfterTool(k) \in CycleState /\ AfterTool(k).stage = k.stage /\ AfterTool(k).role = k.role
        /\ AfterTool(k).iter = k.iter /\ AfterTool(k).tokens = k.tokens
    BY <1>1, <2>1 DEF CycleState
  <2> QED BY <2>2 DEF GoodCycle, Spends
<1>3. ASSUME NEW st \in {"ask", "fellback", "silent"}, ~(k.batch > 1),
             AfterTool(k) = [k EXCEPT !.batch = 0, !.stage = st],
             st = "ask" => k.iter < MaxIterations /\ k.stage \in {"context", "tools"},
             st = "fellback" <=> k.stage = "fallback"
      PROVE  GoodCycle(r, AfterTool(k), "none") /\ (Spends(AfterTool(k)) => Spends(k))
  <2> DEFINE m == [k EXCEPT !.batch = 0]
  <2>1. m \in CycleState /\ m.role = k.role /\ m.iter = k.iter /\ m.tokens = k.tokens
    BY <1>1 DEF CycleState
  <2>2. AfterTool(k) = [m EXCEPT !.stage = st]
    BY <1>3
  <2> HIDE DEF m
  <2>3. /\ AfterTool(k) \in CycleState /\ AfterTool(k).stage = st /\ AfterTool(k).role = k.role
        /\ AfterTool(k).iter = k.iter /\ AfterTool(k).tokens = k.tokens
    <3>1. st \in {"idle", "context", "ask", "tools", "fallback", "fellback", "spoken", "silent"}
      BY <1>3
    <3> QED BY <2>1, <2>2, <3>1 DEF CycleState
  <2>4. st = "ask" => k.tokens <= k.iter * CallTokens
    <3>1. CASE k.stage = "tools"
      BY <3>1 DEF GoodCycle
    <3>2. CASE k.stage = "context"
      <4>1. k.iter = 0 /\ k.tokens = 0 /\ 0 * CallTokens = 0
        BY <3>2, CycleConstants DEF GoodCycle
      <4> QED BY <4>1
    <3> QED BY <1>3, <3>1, <3>2
  <2> QED BY <1>3, <2>3, <2>4 DEF GoodCycle, Spends
<1>4. CASE ~(k.batch > 1) /\ k.stage = "context"
  <2>1. AfterTool(k) = [k EXCEPT !.batch = 0, !.stage = "ask"]
    BY <1>4 DEF AfterTool
  <2>2. k.iter < MaxIterations
    BY <1>1, <1>4 DEF GoodCycle
  <2> QED BY <1>3, <1>4, <2>1, <2>2
<1>5. CASE ~(k.batch > 1) /\ k.stage = "fallback"
  <2>1. AfterTool(k) = [k EXCEPT !.batch = 0, !.stage = "fellback"]
    BY <1>5 DEF AfterTool
  <2> QED BY <1>3, <1>5, <2>1
<1>6. CASE ~(k.batch > 1) /\ k.stage = "tools" /\ k.iter < MaxIterations
  <2>1. AfterTool(k) = [k EXCEPT !.batch = 0, !.stage = "ask"]
    BY <1>6 DEF AfterTool
  <2> QED BY <1>3, <1>6, <2>1
<1>7. CASE ~(k.batch > 1) /\ k.stage = "tools" /\ ~(k.iter < MaxIterations)
  <2>1. AfterTool(k) = [k EXCEPT !.batch = 0, !.stage = "silent"]
    BY <1>7 DEF AfterTool
  <2> QED BY <1>3, <1>7, <2>1
<1> QED BY <1>2, <1>4, <1>5, <1>6, <1>7

LEMMA ToolSteps ==
    ASSUME CyclesInv, NEW r \in Cyclers
    PROVE  /\ \A cat \in Categories : ToolRefused(r, cat) => CyclesInv'
           /\ \A cat \in Categories : ToolStarts(r, cat) => CyclesInv'
           /\ ToolEnds(r) => CyclesInv'
           /\ ToolRaises(r) => CyclesInv'
<1>1. GoodCycle(r, cycle[r], call[r]) /\ call[r] \in Categories \cup {"none"}
  BY DEF CyclesInv
<1>2. ASSUME cycle[r].stage \in {"context", "tools", "fallback"},
             cycle' = [cycle EXCEPT ![r] = AfterTool(@)], call' = [call EXCEPT ![r] = "none"],
             UNCHANGED <<counted, exceeded, traded>>
      PROVE  CyclesInv'
  <2>1. /\ GoodCycle(r, AfterTool(cycle[r]), "none")
        /\ Spends(AfterTool(cycle[r])) => Spends(cycle[r])
    BY <1>1, <1>2, AfterToolGood
  <2>2. traded' \in [Cyclers -> SUBSET {"none", "solo", "analyst", "risk", "executor"}]
    BY <1>2 DEF CyclesInv
  <2>3. OnlyExecutorTrades'
    BY <1>2 DEF CyclesInv, OnlyExecutorTrades
  <2>4. cycle' = [cycle EXCEPT ![r] = AfterTool(cycle[r])]
    BY <1>2
  <2> QED BY <1>2, <2>1, <2>2, <2>3, <2>4, QuietStep
<1>3. ASSUME NEW cat \in Categories, ToolRefused(r, cat) PROVE CyclesInv'
  <2>1. /\ cycle[r].stage \in {"context", "tools", "fallback"} /\ call[r] = "none"
        /\ cycle' = [cycle EXCEPT ![r] = AfterTool(@)] /\ UNCHANGED <<call, counted, exceeded, traded>>
    BY <1>3 DEF ToolRefused, Wants
  <2>2. call' = [call EXCEPT ![r] = "none"]
    BY <2>1 DEF CyclesInv
  <2> QED BY <1>2, <2>1, <2>2
<1>4. ASSUME NEW cat \in Categories, ToolStarts(r, cat) PROVE CyclesInv'
  <2>1. /\ cycle[r].stage \in {"context", "tools", "fallback"}
        /\ cycle[r].stage # "tools" => cat = "perception"
        /\ cycle[r].stage = "tools" => cat \in AllowedCategories(cycle[r].role)
        /\ call' = [call EXCEPT ![r] = cat] /\ UNCHANGED <<cycle, counted, exceeded>>
        /\ traded' = IF cat = "execution" THEN [traded EXCEPT ![r] = @ \cup {cycle[r].role}] ELSE traded
    BY <1>4 DEF ToolStarts, Wants, MayCall
  <2>2. GoodCycle(r, cycle[r], cat) /\ cycle[r].role \in {"none", "solo", "analyst", "risk", "executor"}
    BY <1>1, <2>1 DEF GoodCycle, CycleState
  <2>3. cycle' = [cycle EXCEPT ![r] = cycle[r]]
    BY <2>1 DEF CyclesInv
  <2>4. traded' \in [Cyclers -> SUBSET {"none", "solo", "analyst", "risk", "executor"}]
    BY <2>1, <2>2 DEF CyclesInv
  <2>5. r \in Teams /\ cat = "execution" => cycle[r].role = "executor"
    BY <1>1, <2>1 DEF GoodCycle, AllowedCategories
  <2>6. OnlyExecutorTrades'
    <3> SUFFICES ASSUME NEW q \in Teams PROVE traded'[q] \subseteq {"executor"}
      BY DEF OnlyExecutorTrades
    <3>1. q \in Cyclers /\ traded[q] \subseteq {"executor"}
      BY CycleConstants DEF CyclesInv, OnlyExecutorTrades
    <3>2. traded'[q] \subseteq traded[q] \cup (IF q = r /\ cat = "execution" THEN {cycle[r].role} ELSE {})
      BY <2>1, <3>1 DEF CyclesInv
    <3> QED BY <2>5, <3>1, <3>2
  <2> QED BY <2>1, <2>2, <2>3, <2>4, <2>6, QuietStep
<1>5. ASSUME call[r] # "none" PROVE cycle[r].stage \in {"context", "tools", "fallback"}
  BY <1>1, <1>5 DEF GoodCycle
<1>6. ASSUME ToolEnds(r) PROVE CyclesInv'
  BY <1>2, <1>5, <1>6 DEF ToolEnds
<1>7. ASSUME ToolRaises(r) PROVE CyclesInv'
  BY <1>2, <1>5, <1>7 DEF ToolRaises
<1> QED BY <1>3, <1>4, <1>6, <1>7

LEMMA BeginSteps ==
    ASSUME CyclesInv, NEW r \in Cyclers
    PROVE  /\ BeginCycle(r) => CyclesInv'
           /\ SkipCycle(r) => CyclesInv'
           /\ BeginTeam(r) => CyclesInv'
<1>1. GoodCycle(r, cycle[r], call[r])
  BY DEF CyclesInv
<1>2. ASSUME cycle[r].stage = "idle" PROVE call[r] = "none"
  BY <1>1, <1>2 DEF GoodCycle
<1>3. ASSUME BeginCycle(r) PROVE CyclesInv'
  <2> DEFINE k == Begun("context", "solo")
  <2>1. /\ r \in Solos /\ cycle[r].stage = "idle" /\ ~(exceeded /\ Budget > 0)
        /\ cycle' = [cycle EXCEPT ![r] = k] /\ UNCHANGED <<call, counted, exceeded, traded>>
    BY <1>3 DEF BeginCycle, Begun
  <2>2. GoodCycle(r, k, call[r])
    <3>1. r \notin Teams
      BY <2>1, CycleConstants
    <3> QED BY <3>1, BegunGood
  <2> HIDE DEF k
  <2> QED BY <2>1, <2>2, CycleStep
<1>4. ASSUME SkipCycle(r) PROVE CyclesInv'
  <2> DEFINE k == Begun("fallback", "solo")
  <2>1. /\ r \in Solos /\ cycle[r].stage = "idle" /\ UNCHANGED <<call, counted, exceeded, traded>>
        /\ cycle' = [cycle EXCEPT ![r] = k] \/ cycle' = [cycle EXCEPT ![r] = NoCycle]
    BY <1>4 DEF SkipCycle, FallsBack, Ended, Begun
  <2>2. GoodCycle(r, k, call[r]) /\ ~Spends(k)
    <3>1. r \notin Teams
      BY <2>1, CycleConstants
    <3> QED BY <3>1, BegunGood
  <2> HIDE DEF k
  <2>3. GoodCycle(r, NoCycle, call[r]) /\ ~Spends(NoCycle)
    BY <1>2, <2>1, IdleGood
  <2>4. CASE cycle' = [cycle EXCEPT ![r] = k]
    BY <2>1, <2>2, <2>4, CycleStep
  <2>5. CASE cycle' = [cycle EXCEPT ![r] = NoCycle]
    BY <2>1, <2>3, <2>5, CycleStep
  <2> QED BY <2>1, <2>4, <2>5
<1>5. ASSUME BeginTeam(r) PROVE CyclesInv'
  <2> DEFINE k == Begun("context", "analyst")
  <2>1. /\ r \in Teams /\ cycle[r].stage = "idle"
        /\ cycle' = [cycle EXCEPT ![r] = k] /\ UNCHANGED <<call, counted, exceeded, traded>>
    BY <1>5 DEF BeginTeam, Begun
  <2>2. r \notin Solos
    BY <2>1, CycleConstants
  <2>3. GoodCycle(r, k, call[r])
    BY <2>2, BegunGood
  <2> HIDE DEF k
  <2> QED BY <2>1, <2>2, <2>3, CycleStep
<1> QED BY <1>3, <1>4, <1>5

(* An answer takes an iteration for its tokens, or every one that is left.  *)
LEMMA TokensOfAnswer ==
    ASSUME NEW i \in Nat, NEW t \in Nat, i < MaxIterations, t <= i * CallTokens
    PROVE  /\ t + CallTokens \in Nat /\ t + CallTokens <= (i + 1) * CallTokens
           /\ t + CallTokens <= MaxPerCycle
<1>1. MaxIterations \in Nat /\ CallTokens \in Nat
  BY CycleConstants
<1>2. (i + 1) * CallTokens = i * CallTokens + CallTokens /\ i * CallTokens \in Nat
  BY <1>1, SMT
<1>3. (i + 1) * CallTokens <= MaxIterations * CallTokens
  BY <1>1, SMT
<1>4. MaxIterations * CallTokens \in Nat
  BY <1>1, SMT
<1> QED BY <1>1, <1>2, <1>3, <1>4 DEF MaxPerCycle

LEMMA AskSteps ==
    ASSUME CyclesInv, NEW r \in Cyclers
    PROVE  /\ \A n \in 1 .. MaxBatch, last \in BOOLEAN : AskTools(r, n, last) => CyclesInv'
           /\ AskWords(r) => CyclesInv'
<1> DEFINE o == cycle[r]
<1>1. GoodCycle(r, o, call[r]) /\ o \in CycleState
  BY DEF CyclesInv
<1>2. ASSUME o.stage = "ask"
      PROVE  /\ call[r] = "none" /\ o.role # "none" /\ o.iter \in Nat /\ o.tokens + CallTokens \in Nat
             /\ o.iter < MaxIterations
             /\ o.tokens + CallTokens <= (o.iter + 1) * CallTokens
             /\ o.tokens + CallTokens <= MaxPerCycle
             /\ Spends(o)
  <2>1. o.iter \in Nat /\ o.tokens \in Nat
    BY <1>1 DEF CycleState
  <2>2. o.iter < MaxIterations /\ o.tokens <= o.iter * CallTokens /\ call[r] = "none" /\ o.role # "none"
    BY <1>1, <1>2 DEF GoodCycle
  <2> QED BY <1>2, <2>1, <2>2, TokensOfAnswer DEF Spends
<1>3. ASSUME NEW n \in 1 .. MaxBatch, NEW last \in BOOLEAN, AskTools(r, n, last) PROVE CyclesInv'
  <2> DEFINE i == IF last THEN MaxIterations ELSE o.iter + 1
             t == o.tokens + CallTokens
             k1 == [o EXCEPT !.stage = "tools"]
             k2 == [k1 EXCEPT !.batch = n]
             k3 == [k2 EXCEPT !.iter = i]
             k == [k3 EXCEPT !.tokens = t]
  <2>1. o.stage = "ask" /\ UNCHANGED <<call, counted, exceeded, traded>>
    BY <1>3 DEF AskTools
  <2>2. i \in Nat /\ i <= MaxIterations /\ n \in Nat
    BY <1>2, <2>1, CycleConstants
  <2>3. t <= i * CallTokens
    <3>1. CASE last
      BY <1>2, <2>1, <3>1 DEF MaxPerCycle
    <3>2. CASE ~last
      BY <1>2, <2>1, <3>2
    <3> QED BY <3>1, <3>2
  <2> HIDE DEF i, t
  <2>4. cycle' = [cycle EXCEPT ![r] = k]
    BY <1>3 DEF AskTools, i, t
  <2>5. k \in CycleState /\ k.stage = "tools" /\ k.role = o.role /\ k.iter = i /\ k.tokens = t
    <3>1. k1 \in CycleState /\ k1.stage = "tools" /\ k1.role = o.role
      BY <1>1 DEF CycleState
    <3> HIDE DEF k1
    <3>2. k2 \in CycleState /\ k2.stage = "tools" /\ k2.role = o.role
      BY <2>2, <3>1 DEF CycleState
    <3> HIDE DEF k2
    <3>3. k3 \in CycleState /\ k3.stage = "tools" /\ k3.role = o.role /\ k3.iter = i
      BY <2>2, <3>2 DEF CycleState
    <3> HIDE DEF k3
    <3>4. t \in Nat
      BY <1>2, <2>1 DEF t
    <3> QED BY <3>3, <3>4 DEF CycleState
  <2>6. /\ r \in Teams => o.role \in {"none", "analyst", "risk", "executor"}
        /\ r \in Solos => o.role \in {"none", "solo"}
    BY <1>1 DEF GoodCycle
  <2>7. t <= MaxPerCycle
    BY <1>2, <2>1 DEF t
  <2> HIDE DEF k, o
  <2>8. GoodCycle(r, k, call[r])
    BY <1>2, <2>1, <2>2, <2>3, <2>5, <2>6, <2>7 DEF GoodCycle, Spends
  <2> QED BY <1>2, <2>1, <2>4, <2>8, CycleStep DEF o
<1>4. ASSUME AskWords(r) PROVE CyclesInv'
  <2> DEFINE t == o.tokens + CallTokens
             k1 == [o EXCEPT !.stage = "spoken"]
             k == [k1 EXCEPT !.tokens = t]
  <2>1. o.stage = "ask" /\ UNCHANGED <<call, counted, exceeded, traded>>
    BY <1>4 DEF AskWords
  <2>2. cycle' = [cycle EXCEPT ![r] = k]
    BY <1>4 DEF AskWords
  <2>3. k \in CycleState /\ k.stage = "spoken" /\ k.role = o.role /\ k.iter = o.iter /\ k.tokens = t
    <3>1. k1 \in CycleState /\ k1.stage = "spoken" /\ k1.role = o.role /\ k1.iter = o.iter
      BY <1>1 DEF CycleState
    <3> HIDE DEF k1
    <3> QED BY <1>2, <2>1, <3>1 DEF CycleState
  <2>4. /\ r \in Teams => o.role \in {"none", "analyst", "risk", "executor"}
        /\ r \in Solos => o.role \in {"none", "solo"}
    BY <1>1 DEF GoodCycle
  <2>5. t <= MaxPerCycle /\ o.iter <= MaxIterations
    BY <1>1, <1>2, <2>1 DEF GoodCycle
  <2> HIDE DEF k, o
  <2>6. GoodCycle(r, k, call[r])
    BY <1>2, <2>1, <2>3, <2>4, <2>5 DEF GoodCycle, Spends
  <2> QED BY <1>2, <2>1, <2>2, <2>6, CycleStep DEF o
<1> QED BY <1>3, <1>4

LEMMA EndSteps ==
    ASSUME CyclesInv, NEW r \in Cyclers
    PROVE  /\ AskFails(r) => CyclesInv'
           /\ TeamDeclines(r) => CyclesInv'
           /\ ExecutorReports(r) => CyclesInv'
           /\ TeamAskFails(r) => CyclesInv'
           /\ AnalystSignals(r) => CyclesInv'
           /\ RiskApproves(r) => CyclesInv'
<1>1. GoodCycle(r, cycle[r], call[r]) /\ cycle[r] \in CycleState
  BY DEF CyclesInv
<1>2. ASSUME cycle[r].stage \in {"ask", "spoken", "silent"} PROVE call[r] = "none" /\ Spends(cycle[r])
  BY <1>1, <1>2 DEF GoodCycle, Spends
<1>3. ASSUME cycle[r].stage \in {"ask", "spoken", "silent"}, cycle' = [cycle EXCEPT ![r] = NoCycle],
             UNCHANGED <<call, counted, exceeded, traded>>
      PROVE  CyclesInv'
  <2>1. GoodCycle(r, NoCycle, call[r]) /\ ~Spends(NoCycle)
    BY <1>2, <1>3, IdleGood
  <2> QED BY <1>3, <2>1, CycleStep
<1>4. ASSUME AskFails(r) PROVE CyclesInv'
  <2> DEFINE k == Begun("fallback", "solo")
  <2>1. /\ r \in Solos /\ cycle[r].stage = "ask" /\ UNCHANGED <<call, counted, exceeded, traded>>
        /\ cycle' = [cycle EXCEPT ![r] = k] \/ cycle' = [cycle EXCEPT ![r] = NoCycle]
    BY <1>4 DEF AskFails, FallsBack, Ended, Begun
  <2>2. GoodCycle(r, k, call[r]) /\ ~Spends(k)
    <3>1. r \notin Teams
      BY <2>1, CycleConstants
    <3> QED BY <3>1, BegunGood
  <2> HIDE DEF k
  <2>3. CASE cycle' = [cycle EXCEPT ![r] = k]
    BY <2>1, <2>2, <2>3, CycleStep
  <2>4. CASE cycle' = [cycle EXCEPT ![r] = NoCycle]
    BY <1>3, <2>1, <2>4
  <2> QED BY <2>1, <2>3, <2>4
<1>5. ASSUME TeamDeclines(r) PROVE CyclesInv'
  BY <1>3, <1>5 DEF TeamDeclines, Ended
<1>6. ASSUME ExecutorReports(r) PROVE CyclesInv'
  BY <1>3, <1>6 DEF ExecutorReports, Ended
<1>7. ASSUME TeamAskFails(r) PROVE CyclesInv'
  BY <1>3, <1>7 DEF TeamAskFails, Ended
<1>8. ASSUME NEW role0 \in {"risk", "executor"}, cycle[r].stage = "spoken",
             cycle' = [cycle EXCEPT ![r] = NextRole(@, role0)], UNCHANGED <<call, counted, exceeded, traded>>,
             r \notin Solos
      PROVE  CyclesInv'
  <2> DEFINE o == cycle[r]
             k1 == [o EXCEPT !.stage = "ask"]
             k2 == [k1 EXCEPT !.role = role0]
             k3 == [k2 EXCEPT !.iter = 0]
             k == [k3 EXCEPT !.tokens = 0]
  <2>1. cycle' = [cycle EXCEPT ![r] = k]
    BY <1>8 DEF NextRole
  <2>2. k \in CycleState /\ k.stage = "ask" /\ k.role = role0 /\ k.iter = 0 /\ k.tokens = 0
    <3>1. k1 \in CycleState /\ k1.stage = "ask"
      BY <1>1 DEF CycleState
    <3> HIDE DEF k1
    <3>2. k2 \in CycleState /\ k2.stage = "ask" /\ k2.role = role0
      BY <1>8, <3>1 DEF CycleState
    <3> HIDE DEF k2
    <3>3. k3 \in CycleState /\ k3.stage = "ask" /\ k3.role = role0 /\ k3.iter = 0
      BY <3>2 DEF CycleState
    <3> HIDE DEF k3
    <3> QED BY <3>3 DEF CycleState
  <2> HIDE DEF k
  <2>3. 0 < MaxIterations /\ 0 <= MaxIterations /\ 0 <= MaxPerCycle /\ 0 * CallTokens = 0
    BY CycleConstants
  <2>4. GoodCycle(r, k, call[r])
    BY <1>2, <1>8, <2>2, <2>3 DEF GoodCycle, Spends
  <2> QED BY <1>8, <2>1, <2>4, CycleStep
<1>9. ASSUME cycle[r].role \in {"analyst", "risk"} PROVE r \notin Solos
  BY <1>1, <1>9 DEF GoodCycle
<1>10. ASSUME AnalystSignals(r) PROVE CyclesInv'
  BY <1>8, <1>9, <1>10 DEF AnalystSignals
<1>11. ASSUME RiskApproves(r) PROVE CyclesInv'
  BY <1>8, <1>9, <1>11 DEF RiskApproves
<1> QED BY <1>4, <1>5, <1>6, <1>7, <1>10, <1>11

(* A cycle that ends counts at most what was put aside for it.              *)
LEMMA CountedStep ==
    ASSUME CyclesInv, NEW r \in Cyclers, cycle' = [cycle EXCEPT ![r] = NoCycle],
           call[r] = "none", UNCHANGED <<call, traded>>,
           NEW n \in Nat, n <= MaxPerCycle, CountTokens(n),
           n > 0 => r \in Solos /\ Spends(cycle[r])
    PROVE  CyclesInv'
<1>1. cycle' \in [Cyclers -> CycleState]
  BY DEF CyclesInv, NoCycle, CycleState
<1>2. \A q \in Cyclers : GoodCycle(q, cycle'[q], call'[q])
  <2> SUFFICES ASSUME NEW q \in Cyclers PROVE GoodCycle(q, cycle'[q], call'[q])
    OBVIOUS
  <2>1. CASE q = r
    BY <2>1, IdleGood DEF CyclesInv
  <2>2. CASE q # r
    BY <2>2 DEF CyclesInv
  <2> QED BY <2>1, <2>2
<1>3. counted \in Nat /\ counted' = counted + n /\ counted' \in Nat
  BY DEF CyclesInv, CountTokens
<1>4. ASSUME Budget > 0 PROVE (exceeded' \/ counted' <= Budget - 1) /\ Affordable(cycle', counted')
  <2>1. exceeded' \/ counted' <= Budget - 1
    <3>1. CASE counted' >= Budget
      BY <1>4, <3>1 DEF CountTokens
    <3>2. CASE ~(counted' >= Budget)
      BY <1>3, <3>2, CycleConstants
    <3> QED BY <3>1, <3>2
  <2>2. Affordable(cycle, counted)
    BY <1>4 DEF CyclesInv
  <2>3. ~Spends(NoCycle)
    BY IdleGood
  <2>4. Spenders(cycle') = Spenders(cycle) \ {r}
    <3>1. \A q \in Solos : cycle'[q] = IF q = r THEN NoCycle ELSE cycle[q]
      BY CycleConstants DEF CyclesInv
    <3> QED BY <2>3, <3>1 DEF Spenders
  <2>5. CASE n = 0
    <3>1. counted' = counted
      BY <1>3, <2>5
    <3>2. Affordable(cycle', counted)
      BY <1>3, <2>2, <2>4, FewerSpendersAfford
    <3> QED BY <2>1, <3>1, <3>2
  <2>6. CASE n > 0
    <3> DEFINE a == Cardinality(Spenders(cycle))
               b == Cardinality(Spenders(cycle'))
    <3>1. r \in Spenders(cycle)
      BY <2>6 DEF Spenders
    <3>2. a \in Nat /\ b = a - 1 /\ b \in Nat
      BY <2>4, <3>1, SpendersFinite, FS_RemoveElement
    <3>3. counted + a * MaxPerCycle <= Budget - 1 + Cardinality(Solos) * MaxPerCycle
      BY <2>2 DEF Affordable
    <3>4. Cardinality(Solos) \in Nat
      BY SpendersFinite
    <3> HIDE DEF a, b
    <3>5. a * MaxPerCycle = b * MaxPerCycle + MaxPerCycle /\ b * MaxPerCycle \in Nat
      BY <3>2, CycleConstants, SMT
    <3>6. Cardinality(Solos) * MaxPerCycle \in Nat
      BY <3>4, CycleConstants, SMT
    <3>7. counted' + b * MaxPerCycle <= Budget - 1 + Cardinality(Solos) * MaxPerCycle
      BY <1>3, <3>3, <3>5, <3>6, CycleConstants
    <3> QED BY <2>1, <3>7 DEF Affordable, b
  <2> QED BY <2>5, <2>6
<1>5. OnlyExecutorTrades'
  BY DEF CyclesInv, OnlyExecutorTrades
<1> QED BY <1>1, <1>2, <1>3, <1>4, <1>5 DEF CyclesInv

LEMMA CountingSteps ==
    ASSUME CyclesInv, NEW r \in Cyclers
    PROVE  /\ EndCycle(r) => CyclesInv'
           /\ EndFallback(r) => CyclesInv'
<1>1. GoodCycle(r, cycle[r], call[r]) /\ cycle[r] \in CycleState
  BY DEF CyclesInv
<1>2. ASSUME EndCycle(r) PROVE CyclesInv'
  <2>1. /\ r \in Solos /\ cycle[r].stage \in {"spoken", "silent"} /\ cycle' = [cycle EXCEPT ![r] = NoCycle]
        /\ CountTokens(cycle[r].tokens) /\ UNCHANGED <<call, traded>>
    BY <1>2 DEF EndCycle, Ended
  <2>2. /\ cycle[r].tokens \in Nat /\ cycle[r].tokens <= MaxPerCycle /\ call[r] = "none"
        /\ Spends(cycle[r])
    BY <1>1, <2>1 DEF GoodCycle, CycleState, Spends
  <2> QED BY <2>1, <2>2, CountedStep
<1>3. ASSUME EndFallback(r) PROVE CyclesInv'
  <2>1. /\ cycle[r].stage = "fellback" /\ cycle' = [cycle EXCEPT ![r] = NoCycle]
        /\ CountTokens(0) /\ UNCHANGED <<call, traded>>
    BY <1>3 DEF EndFallback, Ended
  <2>2. call[r] = "none"
    BY <1>1, <2>1 DEF GoodCycle
  <2>3. 0 \in Nat /\ 0 <= MaxPerCycle /\ ~(0 > 0)
    BY CycleConstants
  <2> QED BY <2>1, <2>2, <2>3, CountedStep
<1> QED BY <1>2, <1>3

LEMMA CyclesInvariant == CyclesSpec => []CyclesInv
<1>1. ASSUME CyclesInit PROVE CyclesInv
  <2>1. /\ cycle = [r \in Cyclers |-> NoCycle] /\ call = [r \in Cyclers |-> "none"]
        /\ counted = 0 /\ traded = [r \in Cyclers |-> {}]
    BY <1>1 DEF CyclesInit
  <2>2. cycle \in [Cyclers -> CycleState] /\ call \in [Cyclers -> Categories \cup {"none"}]
    BY <2>1 DEF NoCycle, CycleState
  <2>3. \A r \in Cyclers : GoodCycle(r, cycle[r], call[r])
    BY <2>1, IdleGood
  <2>4. OnlyExecutorTrades
    BY <2>1, CycleConstants DEF OnlyExecutorTrades
  <2>5. Budget > 0 => counted <= Budget - 1 /\ Affordable(cycle, counted)
    BY <2>1, CycleConstants, UnderBudgetAffords
  <2> QED BY <2>1, <2>2, <2>3, <2>4, <2>5 DEF CyclesInv
<1>2. CyclesInv /\ [CyclesNext]_cycleVars => CyclesInv'
  <2>1. ASSUME CyclesInv, ClockTicks PROVE CyclesInv'
    BY <2>1 DEF CyclesInv, ClockTicks, OnlyExecutorTrades
  <2>2. ASSUME CyclesInv, UNCHANGED cycleVars PROVE CyclesInv'
    BY <2>2 DEF CyclesInv, cycleVars, OnlyExecutorTrades
  <2>3. ASSUME CyclesInv, CyclesNext PROVE CyclesInv'
    BY <2>1, <2>3, BeginSteps, ToolSteps, AskSteps, EndSteps, CountingSteps DEF CyclesNext
  <2> QED BY <2>2, <2>3
<1> QED BY <1>1, <1>2, PTL DEF CyclesSpec

(* However many coroutines run cycles side by side, and however often their *)
(* calls fail or fall back, the tokens counted pass the daily budget by at  *)
(* most one whole cycle of each of them: the budget is looked at when a     *)
(* cycle begins and counted when it ends (cognitive.py:288, 862).           *)
THEOREM BudgetOvershootBounded == CyclesSpec => []BudgetOvershoot
<1>1. ASSUME CyclesInv, Budget > 0
      PROVE  counted <= Budget - 1 + Cardinality(Solos) * MaxPerCycle
  <2> DEFINE b == Cardinality(Spenders(cycle))
  <2>1. b \in Nat /\ Cardinality(Solos) \in Nat
    BY SpendersFinite
  <2>2. counted \in Nat /\ counted + b * MaxPerCycle <= Budget - 1 + Cardinality(Solos) * MaxPerCycle
    BY <1>1 DEF CyclesInv, Affordable
  <2> HIDE DEF b
  <2>3. b * MaxPerCycle \in Nat /\ Cardinality(Solos) * MaxPerCycle \in Nat
    BY <2>1, CycleConstants, SMT
  <2> QED BY <2>2, <2>3, CycleConstants
<1>2. CyclesInv => BudgetOvershoot
  BY <1>1 DEF BudgetOvershoot
<1> QED BY <1>2, CyclesInvariant, PTL

(* In a team of agents an order is placed only in the executor's part, and  *)
(* so after the risk agent's approval (base_agent.py:215), for any number   *)
(* of teams, answers and tools side by side.                                *)
THEOREM TeamTradesByExecutor == CyclesSpec => []OnlyExecutorTrades
<1>1. CyclesInv => OnlyExecutorTrades
  BY DEF CyclesInv
<1> QED BY <1>1, CyclesInvariant, PTL

-----------------------------------------------------------------------------
(* RateOvershoot.  A set of natural numbers has a smallest one.             *)
LEMMA LeastOf ==
    ASSUME NEW P \in SUBSET Nat, P # {}
    PROVE  \E m \in P : \A k \in P : m <= k
<1>1. PICK m \in P : \A k \in P : <<k, m>> \notin OpToRel(<, Nat)
  BY WFMin, NatLessThanWellFounded, Zenon
<1>2. m \in Nat /\ \A k \in P : k \in Nat /\ ~(k < m)
  BY <1>1, Zenon DEF OpToRel
<1> QED BY <1>2

RateTypes == clock \in Nat /\ recent \in Seq(Nat)

LEMMA InWindowType ==
    ASSUME RateTypes
    PROVE  /\ InWindowNow \in SUBSET (1 .. Len(recent)) /\ IsFiniteSet(InWindowNow)
           /\ Cardinality(InWindowNow) \in Nat /\ Len(recent) \in Nat
<1>1. Len(recent) \in Nat /\ DOMAIN recent = 1 .. Len(recent)
  BY LenProperties DEF RateTypes
<1>2. InWindowNow \in SUBSET (1 .. Len(recent))
  BY <1>1 DEF InWindowNow
<1>3. IsFiniteSet(1 .. Len(recent))
  BY <1>1, FS_Interval
<1> QED BY <1>1, <1>2, <1>3, FS_Subset, FS_CardinalityType

(* The list that is kept has the entries of the window, and so at most one  *)
(* more once the clock is appended.                                         *)
LEMMA WindowGrowsByOne ==
    ASSUME RateTypes, recent' = Append(StillInWindow, clock), clock' = clock
    PROVE  /\ RateTypes'
           /\ Cardinality(InWindowNow)' <= Cardinality(InWindowNow) + 1
<1> DEFINE n == Len(recent)
           m == FirstInWindow
           kept == StillInWindow
<1>1. /\ InWindowNow \in SUBSET (1 .. n) /\ IsFiniteSet(InWindowNow)
      /\ Cardinality(InWindowNow) \in Nat /\ n \in Nat
      /\ DOMAIN recent = 1 .. n /\ \A i \in 1 .. n : recent[i] \in Nat
  BY InWindowType, LenProperties DEF RateTypes
<1>2. m \in 1 .. n + 1 /\ \A j \in InWindowNow : m <= j
  <2> DEFINE P == InWindowNow \cup {n + 1}
  <2>1. P \in SUBSET Nat /\ P # {} /\ P \subseteq 1 .. n + 1
    <3>1. n + 1 \in Nat /\ 1 .. n \subseteq 1 .. n + 1 /\ 1 .. n + 1 \subseteq Nat
      BY <1>1
    <3>2. n + 1 \in 1 .. n + 1
      BY <1>1
    <3> HIDE DEF n
    <3> QED BY <1>1, <3>1, <3>2
  <2>2. PICK i \in P : \A k \in P : i <= k
    <3> HIDE DEF P
    <3> QED BY <2>1, LeastOf
  <2>3. m \in P /\ \A j \in InWindowNow : m <= j
    BY <2>2 DEF FirstInWindow
  <2> QED BY <2>1, <2>3
<1>3. /\ kept \in Seq(Nat) /\ Len(kept) = n - m + 1
      /\ \A i \in 1 .. n - m + 1 : kept[i] = recent[m + i - 1]
  <2>1. \A i \in m .. n : recent[i] \in Nat
    BY <1>1, <1>2
  <2>2. m \in Int /\ n \in Int /\ (m <= n \/ n - m + 1 = 0)
    BY <1>1, <1>2
  <2> HIDE DEF m, n
  <2>3. /\ SubSeq(recent, m, n) \in Seq(Nat)
        /\ Len(SubSeq(recent, m, n)) = IF m <= n THEN n - m + 1 ELSE 0
        /\ \A i \in 1 .. n - m + 1 : SubSeq(recent, m, n)[i] = recent[m + i - 1]
    BY <2>1, <2>2, SubSeqProperties
  <2> QED BY <2>2, <2>3 DEF StillInWindow, m, n
<1> DEFINE last == n - m + 2
<1>4. /\ recent' \in Seq(Nat) /\ Len(recent') = last
      /\ \A i \in 1 .. last - 1 : recent'[i] = recent[m + i - 1]
  <2>1. clock \in Nat
    BY DEF RateTypes
  <2> HIDE DEF kept
  <2>2. /\ recent' \in Seq(Nat) /\ Len(recent') = Len(kept) + 1
        /\ \A i \in 1 .. Len(kept) : recent'[i] = kept[i]
    BY <1>3, <2>1, AppendProperties DEF kept
  <2>3. m \in Int /\ n \in Int
    BY <1>1, <1>2
  <2> HIDE DEF m, n
  <2>4. Len(kept) = n - m + 1 /\ \A i \in 1 .. n - m + 1 : kept[i] = recent[m + i - 1]
    BY <1>3
  <2> HIDE DEF kept
  <2>5. 1 .. last - 1 = 1 .. Len(kept) /\ last = Len(kept) + 1
    BY <2>3, <2>4
  <2> QED BY <2>2, <2>4, <2>5
<1>5. RateTypes'
  BY <1>4 DEF RateTypes
<1>6. /\ InWindowNow' \in SUBSET (1 .. last) /\ IsFiniteSet(InWindowNow')
      /\ Cardinality(InWindowNow') \in Nat
  <2>1. last \in Nat /\ DOMAIN recent' = 1 .. last
    BY <1>1, <1>2, <1>4, LenProperties
  <2>2. InWindowNow' \in SUBSET (1 .. last)
    BY <2>1 DEF InWindowNow
  <2>3. IsFiniteSet(1 .. last)
    BY <2>1, FS_Interval
  <2> QED BY <2>2, <2>3, FS_Subset, FS_CardinalityType
<1> DEFINE old == InWindowNow' \ {last}
           shift == [i \in old |-> m + i - 1]
<1>7. ASSUME NEW i \in old PROVE i \in 1 .. last - 1 /\ m + i - 1 \in InWindowNow
  <2>1. i \in 1 .. last - 1
    <3>1. i \in 1 .. last /\ i # last /\ last \in Int
      BY <1>1, <1>2, <1>6
    <3> HIDE DEF last
    <3> QED BY <3>1
  <2>2. clock - recent'[i] < Window
    BY DEF InWindowNow
  <2>3. recent'[i] = recent[m + i - 1] /\ m + i - 1 \in 1 .. n
    BY <1>1, <1>2, <1>4, <2>1
  <2> QED BY <1>1, <2>1, <2>2, <2>3 DEF InWindowNow
<1>8. shift \in Injection(old, InWindowNow)
  <2>1. shift \in [old -> InWindowNow]
    BY <1>7
  <2>2. \A i, j \in old : shift[i] = shift[j] => i = j
    BY <1>1, <1>2, <1>7
  <2> HIDE DEF shift, old
  <2> QED BY <2>1, <2>2 DEF Injection, IsInjective
<1>9. IsFiniteSet(old) /\ Cardinality(old) <= Cardinality(InWindowNow)
  BY <1>1, <1>8, FS_Injection
<1>10. Cardinality(InWindowNow') <= Cardinality(old) + 1 /\ Cardinality(old) \in Nat
  <2> DEFINE S == InWindowNow'
  <2>1. IsFiniteSet(S) /\ Cardinality(S) \in Nat
    BY <1>6
  <2> HIDE DEF S, last
  <2>2. /\ Cardinality(S \ {last}) = IF last \in S THEN Cardinality(S) - 1 ELSE Cardinality(S)
        /\ IsFiniteSet(S \ {last})
    BY <2>1, FS_RemoveElement
  <2>3. Cardinality(S \ {last}) \in Nat
    BY <2>2, FS_CardinalityType
  <2>4. Cardinality(S) <= Cardinality(S \ {last}) + 1
    BY <2>1, <2>2
  <2> QED BY <2>3, <2>4 DEF S
<1> HIDE DEF old
<1> QED BY <1>1, <1>5, <1>6, <1>9, <1>10

(* Ended or raised, a tool is no longer running; started, it joins those    *)
(* that run, of which there are no more than cyclers.                       *)
RateInv == RateTypes /\ RateOvershoot

LEMMA RunningBounds ==
    /\ IsFiniteSet(Running) /\ Cardinality(Running) \in Nat
    /\ Cardinality(Cyclers) \in Nat /\ Cardinality(Running) <= Cardinality(Cyclers)
<1>1. Running \in SUBSET Cyclers
  BY DEF Running
<1> QED BY <1>1, CycleConstants, FS_Subset, FS_CardinalityType

(* A cycler whose tool is over no longer runs.                              *)
LEMMA RunningLeaves ==
    ASSUME call \in [Cyclers -> Categories \cup {"none"}], NEW r \in Cyclers,
           call[r] # "none", call' = [call EXCEPT ![r] = "none"]
    PROVE  Cardinality(Running') = Cardinality(Running) - 1
<1>1. Running' = Running \ {r} /\ r \in Running
  BY DEF Running
<1> QED BY <1>1, RunningBounds, FS_RemoveElement

LEMMA RateSteps ==
    ASSUME RateInv, CyclesInv, [CyclesNext]_cycleVars
    PROVE  RateInv'
<1> USE CyclesAssumption
<1>1. /\ Cardinality(InWindowNow) \in Nat /\ Cardinality(Running) \in Nat
      /\ Cardinality(Cyclers) \in Nat /\ MaxPerMinute \in Nat /\ RateTypes
      /\ Cardinality(InWindowNow) + Cardinality(Running) <= MaxPerMinute - 1 + Cardinality(Cyclers)
      /\ call \in [Cyclers -> Categories \cup {"none"}]
  BY InWindowType, RunningBounds DEF RateInv, RateOvershoot, CyclesInv
<1>2. CASE UNCHANGED <<clock, recent, call>>
  <2>1. InWindowNow' = InWindowNow /\ Running' = Running
    BY <1>2 DEF InWindowNow, Running
  <2> QED BY <1>1, <1>2, <2>1 DEF RateInv, RateTypes, RateOvershoot
<1>3. CASE ClockTicks
  <2>1. clock' = clock + 1 /\ recent' = recent /\ call' = call /\ clock \in Nat
    BY <1>1, <1>3 DEF ClockTicks, RateTypes
  <2>2. \A i \in DOMAIN recent : recent[i] \in Nat
    <3>1. recent \in Seq(Nat)
      BY <1>1 DEF RateTypes
    <3> QED BY <3>1, LenProperties, ElementOfSeq
  <2>3. InWindowNow' \in SUBSET InWindowNow /\ Running' = Running
    BY <2>1, <2>2 DEF InWindowNow, Running
  <2>4. IsFiniteSet(InWindowNow)
    BY <1>1, InWindowType
  <2>5. Cardinality(InWindowNow') <= Cardinality(InWindowNow) /\ Cardinality(InWindowNow') \in Nat
    BY <2>3, <2>4, FS_Subset, FS_CardinalityType
  <2>6. RateTypes'
    BY <1>1, <2>1 DEF RateTypes
  <2> QED BY <1>1, <2>3, <2>5, <2>6 DEF RateInv, RateOvershoot
<1>4. ASSUME NEW r \in Cyclers, NEW cat \in Categories, ToolStarts(r, cat)
      PROVE  RateInv'
  <2>1. RateOk /\ UNCHANGED <<clock, recent>>
    BY <1>4 DEF ToolStarts
  <2>2. InWindowNow' = InWindowNow
    BY <2>1 DEF InWindowNow
  <2>3. Cardinality(InWindowNow) <= MaxPerMinute - 1
    BY <1>1, <2>1 DEF RateOk
  <2>4. Cardinality(Running') \in Nat /\ Cardinality(Running') <= Cardinality(Cyclers)
    <3>1. Running' \in SUBSET Cyclers
      BY DEF Running
    <3> QED BY <3>1, CycleConstants, FS_Subset, FS_CardinalityType
  <2> QED BY <1>1, <2>1, <2>2, <2>3, <2>4 DEF RateInv, RateTypes, RateOvershoot
<1>5. ASSUME NEW r \in Cyclers, ToolEnds(r)
      PROVE  RateInv'
  <2>1. /\ recent' = Append(StillInWindow, clock) /\ clock' = clock
        /\ call[r] # "none" /\ call' = [call EXCEPT ![r] = "none"]
    BY <1>5 DEF ToolEnds
  <2>2. RateTypes' /\ Cardinality(InWindowNow') <= Cardinality(InWindowNow) + 1
    BY <1>1, <2>1, WindowGrowsByOne
  <2>3. Cardinality(Running') = Cardinality(Running) - 1
    BY <1>1, <2>1, RunningLeaves
  <2>4. Cardinality(InWindowNow') \in Nat
    <3>1. InWindowNow' \in SUBSET (1 .. Len(recent')) /\ Len(recent') \in Nat
      BY <2>2, LenProperties DEF RateTypes, InWindowNow
    <3>2. IsFiniteSet(1 .. Len(recent'))
      BY <3>1, FS_Interval
    <3> QED BY <3>1, <3>2, FS_Subset, FS_CardinalityType
  <2> QED BY <1>1, <2>2, <2>3, <2>4 DEF RateInv, RateOvershoot
<1>6. ASSUME NEW r \in Cyclers, ToolRaises(r)
      PROVE  RateInv'
  <2>1. /\ recent' = recent /\ clock' = clock
        /\ call[r] # "none" /\ call' = [call EXCEPT ![r] = "none"]
    BY <1>6 DEF ToolRaises
  <2>2. RateTypes' /\ InWindowNow' = InWindowNow
    BY <1>1, <2>1 DEF RateTypes, InWindowNow
  <2>3. Cardinality(Running') = Cardinality(Running) - 1
    BY <1>1, <2>1, RunningLeaves
  <2> QED BY <1>1, <2>2, <2>3 DEF RateInv, RateOvershoot
<1>7. ASSUME NEW r \in Cyclers, BeginCycle(r) \/ SkipCycle(r) \/ BeginTeam(r)
                              \/ EndCycle(r) \/ EndFallback(r)
      PROVE  UNCHANGED <<clock, recent, call>>
  BY <1>7, Zenon DEF BeginCycle, SkipCycle, BeginTeam, EndCycle, EndFallback
<1>8. ASSUME NEW r \in Cyclers, NEW cat \in Categories, ToolRefused(r, cat)
      PROVE  UNCHANGED <<clock, recent, call>>
  BY <1>8, Zenon DEF ToolRefused
<1>9. ASSUME NEW r \in Cyclers, NEW n \in 1 .. MaxBatch, NEW last \in BOOLEAN,
             AskTools(r, n, last)
      PROVE  UNCHANGED <<clock, recent, call>>
  BY <1>9, Zenon DEF AskTools
<1>10. ASSUME NEW r \in Cyclers, AskWords(r) \/ AskFails(r)
       PROVE  UNCHANGED <<clock, recent, call>>
  BY <1>10, Zenon DEF AskWords, AskFails
<1>11. ASSUME NEW r \in Cyclers, AnalystSignals(r) \/ RiskApproves(r) \/ TeamDeclines(r)
                               \/ ExecutorReports(r) \/ TeamAskFails(r)
       PROVE  UNCHANGED <<clock, recent, call>>
  BY <1>11, Zenon DEF AnalystSignals, RiskApproves, TeamDeclines, ExecutorReports, TeamAskFails
<1>12. ASSUME UNCHANGED cycleVars
       PROVE  UNCHANGED <<clock, recent, call>>
  BY <1>12, Zenon DEF cycleVars
<1> QED
  BY <1>2, <1>3, <1>4, <1>5, <1>6, <1>7, <1>8, <1>9, <1>10, <1>11, <1>12, Zenon DEF CyclesNext

LEMMA RateInvariant == CyclesSpec => []RateInv
<1>1. CyclesInit => RateInv
  <2> SUFFICES ASSUME CyclesInit PROVE RateInv
    OBVIOUS
  <2>1. RateTypes /\ InWindowNow = {}
    BY DEF CyclesInit, RateTypes, InWindowNow
  <2>2. Running = {}
    BY DEF CyclesInit, Running
  <2>3. Cardinality(Cyclers) \in Nat /\ MaxPerMinute \in Nat \ {0}
    BY RunningBounds, CyclesAssumption
  <2> QED BY <2>1, <2>2, <2>3, FS_EmptySet DEF RateInv, RateOvershoot
<1>2. RateInv /\ CyclesInv /\ [CyclesNext]_cycleVars => RateInv'
  BY RateSteps
<1> QED BY <1>1, <1>2, CyclesInvariant, PTL DEF CyclesSpec

(* The rate limit is looked at before a tool runs and counted after it      *)
(* (executor.py:119, 172): whatever the cyclers do side by side, the tools  *)
(* that ran within the window and those that run pass it by the number of   *)
(* cyclers less one, and by no more.                                        *)
THEOREM RateOvershootBounded == CyclesSpec => []RateOvershoot
<1>1. RateInv => RateOvershoot
  BY DEF RateInv
<1> QED BY <1>1, RateInvariant, PTL

-----------------------------------------------------------------------------
(* Backtest: the count of open positions.                                  *)

(* What the steps need to know of an account: its fields, and that an open  *)
(* position has a side.                                                     *)
ManagerFields == {"count", "pnl", "start", "balance", "breaker", "today"}
AccountFields == {"cash", "holds", "trades", "manager"}
HoldOK(h) == h = NoHold \/ ("side" \in DOMAIN h /\ h.side # "none")
AccountOK(a) ==
    /\ DOMAIN a = AccountFields
    /\ DOMAIN a.holds = PairSet /\ DOMAIN a.manager = ManagerFields
    /\ \A s \in PairSet : HoldOK(a.holds[s])

CountInv ==
    /\ DOMAIN run = {"phase", "turn", "bars"}
    /\ DOMAIN holds = PairSet /\ DOMAIN manager = ManagerFields
    /\ \A s \in PairSet : HoldOK(holds[s])
    /\ (run.phase = "idle" /\ ~abandoned) => Held(holds) = {}
    /\ CountOfPositions

(* The loop that closes every position goes from symbol to symbol: what it  *)
(* leaves after i of them follows from what it left after i - 1.            *)
LEMMA ClosedUpToStep ==
    ASSUME NEW a, NEW order, NEW price
    PROVE  /\ ClosedUpTo(a, order, price)[0] = a
           /\ \A i \in 1 .. Len(Pairs) :
                ClosedUpTo(a, order, price)[i]
                  = ClosedIfHeld(ClosedUpTo(a, order, price)[i - 1], order[i], price)
<1> DEFINE Steps(f, n) == [i \in 0 .. n |->
             IF i = 0 THEN a ELSE ClosedIfHeld(f[i - 1], order[i], price)]
           Unsolved == {n \in Nat : ~\E f : f = Steps(f, n)}
<1>0. Len(Pairs) \in Nat
  BY BacktestAssumption
<1>1. Unsolved = {}
  <2> SUFFICES ASSUME Unsolved # {} PROVE FALSE
    OBVIOUS
  <2>1. PICK m \in Unsolved : \A k \in Unsolved : m <= k
    <3>1. Unsolved \in SUBSET Nat
      OBVIOUS
    <3> HIDE DEF Unsolved
    <3> QED BY <3>1, LeastOf
  <2>2. CASE m = 0
    <3> DEFINE f == [i \in 0 .. 0 |-> a]
    <3>1. f = Steps(f, 0)
      OBVIOUS
    <3>2. \E g : g = Steps(g, 0)
      BY <3>1
    <3> QED BY <2>2, <3>2
  <2>3. CASE m # 0
    <3>1. m \in Nat /\ m - 1 \in Nat /\ m - 1 \notin Unsolved
      BY <2>1, <2>3
    <3>2. PICK g : g = Steps(g, m - 1)
      BY <3>1
    <3> DEFINE last == ClosedIfHeld(g[m - 1], order[m], price)
               f == [i \in 0 .. m |-> IF i < m THEN g[i] ELSE last]
    <3>3. \A i \in 0 .. m : f[i] = Steps(f, m)[i]
      <4> SUFFICES ASSUME NEW i \in 0 .. m PROVE f[i] = Steps(f, m)[i]
        OBVIOUS
      <4>1. CASE i = 0
        BY <4>1, <3>1, <3>2
      <4>2. CASE i # 0 /\ i < m
        <5>1. i \in 0 .. m - 1 /\ i - 1 \in 0 .. m /\ i - 1 < m
          BY <4>2, <3>1
        <5>2. f[i] = g[i] /\ f[i - 1] = g[i - 1]
          BY <5>1, <4>2
        <5>3. g[i] = ClosedIfHeld(g[i - 1], order[i], price)
          <6>1. g[i] = Steps(g, m - 1)[i]
            BY <3>2
          <6> QED BY <6>1, <5>1, <4>2
        <5> QED BY <5>2, <5>3, <4>2
      <4>3. CASE i = m
        <5>1. f[m - 1] = g[m - 1] /\ f[m] = last
          BY <3>1
        <5> QED BY <5>1, <4>3, <2>3
      <4> QED BY <4>1, <4>2, <4>3
    <3>4. f = Steps(f, m)
      <4>1. f = [i \in 0 .. m |-> f[i]]
        OBVIOUS
      <4>2. Steps(f, m) = [i \in 0 .. m |-> Steps(f, m)[i]]
        OBVIOUS
      <4> HIDE DEF f, Steps
      <4> QED BY <4>1, <4>2, <3>3
    <3>5. \E h : h = Steps(h, m)
      BY <3>4
    <3> QED BY <2>1, <3>5
  <2> QED BY <2>2, <2>3
<1>2. \E f : f = Steps(f, Len(Pairs))
  BY <1>0, <1>1
<1>3. ClosedUpTo(a, order, price) = CHOOSE f : f = Steps(f, Len(Pairs))
  BY DEF ClosedUpTo
<1>4. ClosedUpTo(a, order, price) = Steps(ClosedUpTo(a, order, price), Len(Pairs))
  <2> HIDE DEF Steps
  <2> QED BY <1>2, <1>3
<1> HIDE DEF Unsolved
<1> QED BY <1>0, <1>4

LEMMA CloseOne ==
    ASSUME NEW a, AccountOK(a), NEW s \in PairSet, NEW price
    PROVE  LET b == Closed(a, s, price) IN
           /\ AccountOK(b) /\ Held(b.holds) = Held(a.holds) \ {s}
           /\ b.manager.count = Cardinality(Held(b.holds))
<1> DEFINE b == Closed(a, s, price)
<1>1. /\ DOMAIN b = AccountFields
      /\ b.holds = [a.holds EXCEPT ![s] = NoHold]
      /\ DOMAIN b.manager = ManagerFields
      /\ b.manager.count = Cardinality(Held(a.holds) \ {s})
  BY DEF Closed, AccountOK, AccountFields, ManagerFields
<1>2. DOMAIN b.holds = PairSet /\ \A t \in PairSet : HoldOK(b.holds[t])
  BY <1>1 DEF AccountOK, HoldOK
<1>3. Held(b.holds) = Held(a.holds) \ {s}
  BY <1>1 DEF AccountOK, Held
<1> QED BY <1>1, <1>2, <1>3 DEF AccountOK

(* After the loop nothing is held; the manager counts zero when anything    *)
(* was closed, and keeps its count, like all the rest, when nothing was.    *)
Visited(order, i) == {order[j] : j \in 1 .. i}
LEMMA CloseAll ==
    ASSUME NEW a, AccountOK(a), NEW price, NEW order \in Openings
    PROVE  LET b == AllClosed(a, order, price) IN
           /\ AccountOK(b) /\ Held(b.holds) = {}
           /\ Held(a.holds) = {} => b = a
           /\ Held(a.holds) # {} => b.manager.count = Cardinality({})
<1> DEFINE f == ClosedUpTo(a, order, price)
           Good(i) ==
             /\ AccountOK(f[i]) /\ Held(f[i].holds) = Held(a.holds) \ Visited(order, i)
             /\ f[i] = a \/ f[i].manager.count = Cardinality(Held(f[i].holds))
             /\ Held(a.holds) = {} => f[i] = a
           Bad == {i \in Nat : i <= Len(Pairs) /\ ~Good(i)}
<1>0. Len(Pairs) \in Nat
  BY BacktestAssumption, LenProperties
<1>00. /\ PairSet = Visited(order, Len(Pairs))
       /\ \A i \in 1 .. Len(Pairs) : order[i] \in PairSet
  BY DEF Openings, Visited
<1> HIDE DEF f
<1>1. Bad = {}
  <2> SUFFICES ASSUME Bad # {} PROVE FALSE
    OBVIOUS
  <2>1. PICK m \in Bad : \A k \in Bad : m <= k
    <3>1. Bad \in SUBSET Nat
      OBVIOUS
    <3> HIDE DEF Bad
    <3> QED BY <3>1, LeastOf
  <2>2. m \in Nat /\ m <= Len(Pairs) /\ ~Good(m)
    OBVIOUS
  <2>3. CASE m = 0
    <3>1. f[0] = a
      BY ClosedUpToStep DEF f
    <3>2. Visited(order, 0) = {}
      BY DEF Visited
    <3>3. Good(0)
      BY <3>1, <3>2
    <3> QED BY <2>2, <2>3, <3>3
  <2>4. CASE m # 0
    <3>1. m \in 1 .. Len(Pairs) /\ m - 1 \in Nat /\ m - 1 <= Len(Pairs)
      <4> HIDE DEF Good
      <4> QED BY <2>2, <2>4, <1>0
    <3>2. Good(m - 1)
      <4>1. m - 1 \notin Bad
        <5> HIDE DEF Bad
        <5> QED BY <2>1, <3>1
      <4> HIDE DEF Good
      <4> QED BY <4>1, <3>1
    <3> DEFINE p == f[m - 1]
               s == order[m]
    <3>3. f[m] = ClosedIfHeld(p, s, price)
      BY <3>1, ClosedUpToStep DEF f
    <3>4. Visited(order, m) = Visited(order, m - 1) \cup {s}
      BY <3>1 DEF Visited
    <3>5. s \in PairSet
      BY <3>1, <1>00
    <3>6. /\ AccountOK(p) /\ Held(p.holds) = Held(a.holds) \ Visited(order, m - 1)
          /\ p = a \/ p.manager.count = Cardinality(Held(p.holds))
          /\ Held(a.holds) = {} => p = a
      BY <3>2
    <3> HIDE DEF p, s
    <3>7. CASE p.holds[s] = NoHold
      <4>1. f[m] = p
        BY <3>3, <3>7 DEF ClosedIfHeld
      <4>2. s \notin Held(p.holds)
        BY <3>7 DEF Held
      <4>3. Held(p.holds) = Held(a.holds) \ Visited(order, m)
        BY <4>2, <3>4, <3>6
      <4> QED BY <4>1, <4>3, <3>6, <2>2 DEF Good
    <3>8. CASE p.holds[s] # NoHold
      <4>1. f[m] = Closed(p, s, price[s])
        BY <3>3, <3>8 DEF ClosedIfHeld
      <4>2. /\ AccountOK(f[m]) /\ Held(f[m].holds) = Held(p.holds) \ {s}
            /\ f[m].manager.count = Cardinality(Held(f[m].holds))
        BY <4>1, <3>5, <3>6, CloseOne
      <4>3. s \in Held(p.holds)
        BY <3>8, <3>5, <3>6 DEF Held, AccountOK
      <4>4. Held(a.holds) # {}
        BY <4>3, <3>6
      <4> QED BY <4>2, <4>4, <3>4, <3>6, <2>2 DEF Good
    <3> QED BY <3>7, <3>8
  <2> QED BY <2>3, <2>4
<1>2. Good(Len(Pairs))
  <2> HIDE DEF Good
  <2> QED BY <1>0, <1>1
<1>3. AllClosed(a, order, price) = f[Len(Pairs)]
  BY DEF AllClosed, f
<1>4. Held(a.holds) \subseteq PairSet
  BY DEF Held, AccountOK
<1> DEFINE b == f[Len(Pairs)]
<1>5. /\ AccountOK(b) /\ Held(b.holds) = {}
      /\ b = a \/ b.manager.count = Cardinality(Held(b.holds))
      /\ Held(a.holds) = {} => b = a
  BY <1>00, <1>2, <1>4
<1> HIDE DEF b
<1> QED BY <1>3, <1>5 DEF b

LEMMA AccountIsOK ==
    ASSUME CountInv
    PROVE  /\ AccountOK(Account)
           /\ Account.cash = cash /\ Account.holds = holds
           /\ Account.trades = trades /\ Account.manager = manager
BY DEF Account, AccountOK, AccountFields, CountInv

LEMMA DayResetKeepsCount ==
    ASSUME DOMAIN manager = ManagerFields
    PROVE  /\ DOMAIN DayReset(manager) = ManagerFields
           /\ DayReset(manager).count = manager.count
BY DEF DayReset, ManagerFields

LEMMA CountRunStep ==
    ASSUME CountInv,
           BeginRun \/ \E order \in Openings : ValuesAccount(order) \/ EndRun(order)
    PROVE  CountInv'
<1>1. CASE BeginRun
  <2>1. /\ run' = [phase |-> "between", turn |-> 0, bars |-> 0]
        /\ holds' = [s \in PairSet |-> NoHold] /\ manager' = manager
        /\ abandoned' = abandoned /\ run.phase = "idle"
    BY <1>1 DEF BeginRun
  <2>2. DOMAIN run' = {"phase", "turn", "bars"} /\ run'.phase = "between"
    BY <2>1
  <2>3. /\ DOMAIN holds' = PairSet /\ \A s \in PairSet : HoldOK(holds'[s])
        /\ Held(holds') = {}
    BY <2>1 DEF HoldOK, Held
  <2>4. ~abandoned => manager.count = Cardinality(Held(holds'))
    BY <2>1, <2>3 DEF CountInv, CountOfPositions
  <2> QED BY <2>1, <2>2, <2>3, <2>4 DEF CountInv, CountOfPositions
<1>2. ASSUME NEW order \in Openings, EndRun(order)
      PROVE  CountInv'
  <2> DEFINE closes == [s \in PairSet |-> bar[s].close]
             b == AllClosed(Account, order, closes)
  <2>1. /\ run' = [run EXCEPT !.phase = "idle"]
        /\ holds' = b.holds /\ manager' = b.manager
        /\ abandoned' = (abandoned /\ Held(holds) = {})
    BY <1>2 DEF EndRun, Becomes
  <2>2. /\ AccountOK(b) /\ Held(b.holds) = {}
        /\ Held(holds) = {} => b = Account
        /\ Held(holds) # {} => b.manager.count = Cardinality({})
    BY AccountIsOK, CloseAll
  <2> HIDE DEF b
  <2>3. DOMAIN run' = {"phase", "turn", "bars"}
    BY <2>1 DEF CountInv
  <2>4. ~abandoned' => manager'.count = Cardinality(Held(holds'))
    <3>1. CASE Held(holds) = {}
      BY <2>1, <2>2, <3>1, AccountIsOK DEF CountInv, CountOfPositions
    <3>2. CASE Held(holds) # {}
      BY <2>1, <2>2, <3>2
    <3> QED BY <3>1, <3>2
  <2> QED BY <2>1, <2>2, <2>3, <2>4 DEF CountInv, CountOfPositions, AccountOK
<1>3. ASSUME NEW order \in Openings, ValuesAccount(order)
      PROVE  CountInv'
  <2> DEFINE closes == [s \in PairSet |-> holds[s].price]
             broke == 100 * Equity <= InitialBalance /\ Held(holds) # {}
             after == IF broke THEN AllClosed(Account, order, closes) ELSE Account
             value == IF broke THEN after.cash ELSE Equity
             b == [after EXCEPT !.manager.balance = value]
  <2>1. /\ run' = [run EXCEPT !.phase = "between"]
        /\ holds' = b.holds /\ manager' = b.manager
        /\ abandoned' = (abandoned /\ ~broke)
    BY <1>3 DEF ValuesAccount, Becomes
  <2>2. /\ AccountOK(after)
        /\ ~broke => after = Account
        /\ broke => after.manager.count = Cardinality(Held(after.holds))
    <3> DEFINE c == AllClosed(Account, order, closes)
    <3>1. /\ AccountOK(c) /\ Held(c.holds) = {}
          /\ Held(holds) # {} => c.manager.count = Cardinality({})
      BY AccountIsOK, CloseAll
    <3>2. broke => Held(holds) # {}
      OBVIOUS
    <3> HIDE DEF c
    <3>3. AccountOK(after) /\ (broke => after = c) /\ (~broke => after = Account)
      <4> HIDE DEF broke
      <4> QED BY <3>1, AccountIsOK DEF c
    <3> HIDE DEF after, broke
    <3> QED BY <3>1, <3>2, <3>3
  <2> HIDE DEF after, broke, value
  <2>3. /\ b.holds = after.holds /\ DOMAIN b.manager = ManagerFields
        /\ b.manager.count = after.manager.count
    BY <2>2 DEF AccountOK, AccountFields, ManagerFields
  <2>4. DOMAIN run' = {"phase", "turn", "bars"} /\ run'.phase = "between"
    BY <2>1 DEF CountInv
  <2> HIDE DEF b
  <2>5. ~abandoned' => manager'.count = Cardinality(Held(holds'))
    <3>1. CASE broke
      BY <2>1, <2>2, <2>3, <3>1
    <3>2. CASE ~broke
      BY <2>1, <2>2, <2>3, <3>2, AccountIsOK DEF CountInv, CountOfPositions
    <3> QED BY <3>1, <3>2
  <2> QED BY <2>1, <2>2, <2>3, <2>4, <2>5 DEF CountInv, CountOfPositions, AccountOK
<1> QED BY <1>1, <1>2, <1>3

LEMMA CountSymbolStep ==
    ASSUME CountInv, NEW s \in PairSet,
           ExitHits(s) \/ KeepsPosition(s) \/ NoEntry(s) \/ SignalRejected(s)
    PROVE  CountInv'
<1>0. DOMAIN run = {"phase", "turn", "bars"} /\ DOMAIN holds = PairSet
  BY DEF CountInv
<1>1. /\ run' = [run EXCEPT !.turn = @ + 1] /\ run.phase = "candles"
  BY DEF ExitHits, KeepsPosition, NoEntry, SignalRejected, OnTurn, TurnEnds
<1>2. DOMAIN run' = {"phase", "turn", "bars"} /\ run'.phase = "candles"
  BY <1>0, <1>1
<1>3. CASE ExitHits(s)
  <2> DEFINE price == IF StopHit(holds[s], bar[s]) THEN holds[s].stop ELSE holds[s].take
             b == Closed(Account, s, price)
  <2>1. holds' = b.holds /\ manager' = b.manager
    BY <1>3 DEF ExitHits, Becomes
  <2>2. AccountOK(b) /\ b.manager.count = Cardinality(Held(b.holds))
    BY AccountIsOK, CloseOne
  <2> HIDE DEF b
  <2> QED BY <1>2, <2>1, <2>2 DEF CountInv, CountOfPositions, AccountOK
<1>4. CASE KeepsPosition(s)
  <2> DEFINE h == [holds[s] EXCEPT !.price = bar[s].close]
  <2>1. /\ holds' = [holds EXCEPT ![s] = h] /\ holds[s] # NoHold
        /\ manager' = manager /\ abandoned' = abandoned
    BY <1>4 DEF KeepsPosition
  <2>2. "side" \in DOMAIN holds[s] /\ holds[s].side # "none"
    BY <2>1 DEF CountInv, HoldOK
  <2>3. "side" \in DOMAIN h /\ h.side # "none"
    BY <2>2
  <2>4. h # NoHold
    BY <2>3 DEF NoHold
  <2> HIDE DEF h
  <2>5. DOMAIN holds' = PairSet /\ \A t \in PairSet : HoldOK(holds'[t])
    BY <1>0, <2>1, <2>3 DEF CountInv, HoldOK
  <2>6. Held(holds') = Held(holds)
    BY <1>0, <2>1, <2>4 DEF Held
  <2> QED BY <1>2, <2>1, <2>5, <2>6 DEF CountInv, CountOfPositions
<1>5. CASE NoEntry(s)
  <2>1. UNCHANGED <<holds, manager, abandoned>>
    BY <1>5 DEF NoEntry
  <2> QED BY <1>2, <2>1 DEF CountInv, CountOfPositions
<1>6. CASE SignalRejected(s)
  <2> DEFINE m == DayReset(manager)
  <2>1. /\ manager' = [m EXCEPT !.breaker = @ \/ LossReached(m)]
        /\ UNCHANGED <<holds, abandoned>>
    BY <1>6 DEF SignalRejected
  <2>2. DOMAIN m = ManagerFields /\ m.count = manager.count
    BY DayResetKeepsCount DEF CountInv
  <2> HIDE DEF m
  <2>3. DOMAIN manager' = ManagerFields /\ manager'.count = manager.count
    BY <2>1, <2>2 DEF ManagerFields
  <2> QED BY <1>2, <2>1, <2>3 DEF CountInv, CountOfPositions
<1> QED BY <1>3, <1>4, <1>5, <1>6

LEMMA CountSignalStep ==
    ASSUME CountInv, NEW s \in PairSet, NEW gap \in Gaps,
           \/ SizeRaises(s, gap)
           \/ \E side \in {"buy", "sell"} : SignalFills(s, side, gap)
    PROVE  CountInv'
<1>0. DOMAIN run = {"phase", "turn", "bars"} /\ DOMAIN holds = PairSet
  BY DEF CountInv
<1>1. CASE SizeRaises(s, gap)
  <2>1. /\ run' = [run EXCEPT !.phase = "idle"] /\ abandoned' = TRUE
        /\ UNCHANGED <<holds, manager>>
    BY <1>1 DEF SizeRaises
  <2>2. DOMAIN run' = {"phase", "turn", "bars"}
    BY <1>0, <2>1
  <2> QED BY <2>1, <2>2 DEF CountInv, CountOfPositions
<1>2. ASSUME NEW side \in {"buy", "sell"}, SignalFills(s, side, gap)
      PROVE  CountInv'
  <2> DEFINE m == DayReset(manager)
             fill == IF side = "buy" THEN bar[s].close + Slip ELSE bar[s].close - Slip
             away == IF side = "buy" THEN gap ELSE 0 - gap
             h == [side |-> side, entry |-> fill, price |-> fill,
                   stop |-> bar[s].close - away, take |-> bar[s].close + 2 * away,
                   since |-> run.bars * Len(Pairs) + run.turn]
  <2>1. /\ run' = [run EXCEPT !.turn = @ + 1] /\ run.phase = "candles"
        /\ holds' = [holds EXCEPT ![s] = h]
        /\ manager' = [m EXCEPT !.count = Cardinality(Held(holds'))]
    BY <1>2 DEF SignalFills, OnTurn, TurnEnds
  <2>2. DOMAIN run' = {"phase", "turn", "bars"} /\ run'.phase = "candles"
    BY <1>0, <2>1
  <2>3. "side" \in DOMAIN h /\ h.side # "none"
    OBVIOUS
  <2> HIDE DEF h
  <2>4. DOMAIN holds' = PairSet /\ \A t \in PairSet : HoldOK(holds'[t])
    BY <1>0, <2>1, <2>3 DEF CountInv, HoldOK
  <2>5. DOMAIN m = ManagerFields
    BY DayResetKeepsCount DEF CountInv
  <2> HIDE DEF m
  <2>6. DOMAIN manager' = ManagerFields /\ manager'.count = Cardinality(Held(holds'))
    BY <2>1, <2>5 DEF ManagerFields
  <2> QED BY <2>2, <2>4, <2>6 DEF CountInv, CountOfPositions
<1> QED BY <1>1, <1>2

THEOREM CountInvariant == BacktestSpec => []CountInv
<1>1. BacktestInit => CountInv
  <2> SUFFICES ASSUME BacktestInit PROVE CountInv
    OBVIOUS
  <2>1. DOMAIN run = {"phase", "turn", "bars"} /\ DOMAIN manager = ManagerFields
    BY DEF BacktestInit, ManagerFields
  <2>2. DOMAIN holds = PairSet /\ Held(holds) = {} /\ \A s \in PairSet : HoldOK(holds[s])
    BY DEF BacktestInit, Held, HoldOK
  <2>3. manager.count = 0 /\ Cardinality({}) = 0
    BY FS_EmptySet DEF BacktestInit
  <2> QED BY <2>1, <2>2, <2>3 DEF CountInv, CountOfPositions
<1>2. CountInv /\ [BacktestNext]_backtestVars => CountInv'
  <2> SUFFICES ASSUME CountInv, [BacktestNext]_backtestVars PROVE CountInv'
    OBVIOUS
  <2>1. CASE BeginRun \/ \E order \in Openings : ValuesAccount(order) \/ EndRun(order)
    BY <2>1, CountRunStep
  <2>2. ASSUME NEW bars \in [PairSet -> Bars], NextTimestamp(bars)
        PROVE  CountInv'
    <3>1. /\ run' = [phase |-> "candles", turn |-> 1, bars |-> run.bars + 1]
          /\ UNCHANGED <<holds, manager, abandoned>>
      BY <2>2 DEF NextTimestamp
    <3>2. DOMAIN run' = {"phase", "turn", "bars"} /\ run'.phase = "candles"
      BY <3>1
    <3> QED BY <3>1, <3>2 DEF CountInv, CountOfPositions
  <2>3. ASSUME NEW s \in PairSet,
               ExitHits(s) \/ KeepsPosition(s) \/ NoEntry(s) \/ SignalRejected(s)
        PROVE  CountInv'
    BY <2>3, CountSymbolStep
  <2>4. ASSUME NEW s \in PairSet, NEW gap \in Gaps,
               \/ SizeRaises(s, gap)
               \/ \E side \in {"buy", "sell"} : SignalFills(s, side, gap)
        PROVE  CountInv'
    BY <2>4, CountSignalStep
  <2>5. CASE UNCHANGED backtestVars
    BY <2>5 DEF backtestVars, CountInv, CountOfPositions
  <2> QED BY <2>1, <2>2, <2>3, <2>4, <2>5, Zenon DEF BacktestNext
<1> QED BY <1>1, <1>2, PTL DEF BacktestSpec

(* The count by which the shared risk manager limits the open positions is  *)
(* that of the positions held, in every run and whatever the bars, signals  *)
(* and limits, except after a run that an exception ended.                  *)
THEOREM PositionsCounted == BacktestSpec => []CountOfPositions
<1>1. CountInv => CountOfPositions
  BY DEF CountInv
<1> QED BY <1>1, CountInvariant, PTL

-----------------------------------------------------------------------------
(* The breaker.  What a window leaves of the losses is losses again.        *)
LossType == Nat \X Nat

LEMMA LossesInWindow ==
    ASSUME NEW s \in Seq(LossType), minute \in Nat
    PROVE  InWindow(s) \in Seq(LossType)
<1> DEFINE n == Len(s)
           m == FirstRecent(s)
<1>1. n \in Nat /\ DOMAIN s = 1 .. n /\ \A i \in 1 .. n : s[i] \in LossType
  BY LenProperties
<1>2. m \in 1 .. n + 1
  <2> DEFINE P == RecentOf(s) \cup {n + 1}
  <2>1. RecentOf(s) \subseteq 1 .. n
    BY <1>1 DEF RecentOf
  <2>2. P \in SUBSET Nat /\ P # {} /\ P \subseteq 1 .. n + 1
    <3> HIDE DEF n
    <3> QED BY <1>1, <2>1
  <2>3. PICK i \in P : \A k \in P : i <= k
    <3> HIDE DEF P
    <3> QED BY <2>2, LeastOf
  <2>4. m \in P
    BY <2>3 DEF FirstRecent
  <2> QED BY <2>2, <2>4
<1>3. m \in Int /\ n \in Int /\ \A i \in m .. n : s[i] \in LossType
  BY <1>1, <1>2
<1> HIDE DEF m, n
<1>4. SubSeq(s, m, n) \in Seq(LossType)
  BY <1>3, SubSeqProperties
<1> QED BY <1>4 DEF InWindow, m, n

Reasons == {"none", "daily", "rapid", "streak", "manual", "error"}
BreakerType == [open : BOOLEAN, since : Nat, reason : Reasons]

LEMMA TrippedType ==
    ASSUME NEW b \in BreakerType, NEW reason \in Reasons, NEW condition, minute \in Nat
    PROVE  Tripped(b, reason) \in BreakerType /\ TrippedIf(b, condition, reason) \in BreakerType
<1>1. [open |-> TRUE, reason |-> reason, since |-> minute] \in BreakerType
  BY DEF BreakerType
<1>2. Tripped(b, reason) \in BreakerType
  BY <1>1 DEF Tripped
<1> QED BY <1>2 DEF TrippedIf

(* A fall, in basis points of the balance before it.                        *)
LEMMA FallType ==
    ASSUME NEW before \in Nat, NEW b \in Nat, b < before
    PROVE  (10000 * (before - b)) \div before \in Nat
<1>1. 10000 * (before - b) \in Nat /\ before > 0
  OBVIOUS
<1> QED BY <1>1, SMT

LEMMA BalanceTypes ==
    ASSUME BreakerTypeOK, NEW b \in Balances, UpdateBreakerBalance(b)
    PROVE  BreakerTypeOK'
<1> DEFINE m == [current |-> b, peak |-> IF b > money.peak THEN b ELSE money.peak,
                 start |-> DayStart, day |-> Today]
           loss == <<minute, (10000 * (money.current - b)) \div money.current>>
<1>1. /\ money' = m /\ breaker' = CheckedAgainst(m, losses') /\ checked' = TRUE
      /\ minute' = minute /\ streak' = IF RolledOver THEN streak ELSE 0
      /\ losses' = IF b < money.current THEN InWindow(Append(LossesKept, loss)) ELSE LossesKept
  BY DEF UpdateBreakerBalance
<1>2. money \in MoneyState /\ b \in Nat /\ minute \in Nat /\ streak \in Nat
  BY BreakerBounds DEF BreakerTypeOK, MoneyState
<1>3. m \in MoneyState
  <2>1. DayStart \in Nat
    BY <1>2 DEF MoneyState, DayStart
  <2>2. Today \in Nat
    BY <1>2, BreakerBounds, SMT DEF Today
  <2> QED BY <1>2, <2>1, <2>2 DEF MoneyState
<1>4. LossesKept \in Seq(LossType)
  BY DEF LossesKept, BreakerTypeOK, LossType
<1>5. losses' \in Seq(LossType)
  <2>1. CASE b < money.current
    <3>1. loss \in LossType
      <4>1. money.current \in Nat
        BY <1>2 DEF MoneyState
      <4> QED BY <1>2, <2>1, <4>1, FallType DEF LossType
    <3> HIDE DEF loss
    <3>2. Append(LossesKept, loss) \in Seq(LossType)
      BY <1>4, <3>1, AppendProperties
    <3> QED BY <1>1, <1>2, <2>1, <3>2, LossesInWindow
  <2>2. CASE ~(b < money.current)
    BY <1>1, <1>4, <2>2
  <2> QED BY <2>1, <2>2
<1> HIDE DEF m
<1>6. breaker' \in BreakerType
  <2>1. breaker \in BreakerType
    BY DEF BreakerTypeOK, BreakerType, Reasons
  <2>2. \A c \in {"daily", "rapid"} : c \in Reasons
    BY DEF Reasons
  <2> DEFINE daily == TrippedIf(breaker, Drawdown(m.start, m.current) >= DailyLimit, "daily")
             total == TrippedIf(daily, Drawdown(m.peak, m.current) >= TotalLimit, "daily")
  <2>3. breaker' = TrippedIf(total, losses' # <<>> /\ RecentTotal(losses') >= RapidLimit, "rapid")
    BY <1>1 DEF CheckedAgainst
  <2>4. daily \in BreakerType
    BY <1>2, <2>1, <2>2, TrippedType
  <2> HIDE DEF daily
  <2>5. total \in BreakerType
    BY <1>2, <2>2, <2>4, TrippedType
  <2> HIDE DEF total
  <2> QED BY <1>2, <2>2, <2>3, <2>5, TrippedType
<1> QED BY <1>1, <1>2, <1>3, <1>5, <1>6 DEF BreakerTypeOK, BreakerType, Reasons, MoneyState, LossType

(* The breaker's state keeps its type whatever balances are recorded: a     *)
(* window leaves losses, a fall is a natural number of basis points, and    *)
(* every reason to open is one of the known ones.                           *)
THEOREM BreakerTypes == BreakerSpec => []BreakerTypeOK
<1>1. ASSUME BreakerInit PROVE BreakerTypeOK
  <2>1. losses \in Seq(Nat \X Nat)
    BY <1>1, EmptySeq DEF BreakerInit
  <2>2. breaker \in BreakerType
    BY <1>1 DEF BreakerInit, Untripped, BreakerType, Reasons
  <2>3. money \in MoneyState /\ minute \in Nat /\ streak \in Nat /\ checked \in BOOLEAN
    BY <1>1 DEF BreakerInit, MoneyState
  <2> QED BY <2>1, <2>2, <2>3 DEF BreakerTypeOK, BreakerType, Reasons, MoneyState
<1>2. ASSUME BreakerTypeOK, [BreakerNext]_breakerVars PROVE BreakerTypeOK'
  <2> USE BreakerBounds
  <2>1. breaker \in BreakerType /\ minute \in Nat
    BY <1>2 DEF BreakerTypeOK, BreakerType, Reasons
  <2>2. ASSUME RecordWin PROVE BreakerTypeOK'
    BY <1>2, <2>2 DEF RecordWin, BreakerTypeOK
  <2>3. ASSUME RecordLoss PROVE BreakerTypeOK'
    <3>1. breaker' = TrippedIf(breaker, streak' >= StreakLimit, "streak") /\ "streak" \in Reasons
      BY <2>3 DEF RecordLoss, Reasons
    <3>2. breaker' \in BreakerType
      BY <2>1, <3>1, TrippedType
    <3> QED BY <1>2, <2>3, <3>2 DEF RecordLoss, BreakerTypeOK, BreakerType, Reasons
  <2>4. ASSUME NEW reason \in {"manual", "error"}, TripBy(reason) PROVE BreakerTypeOK'
    <3>1. breaker' = Tripped(breaker, reason) /\ reason \in Reasons
      BY <2>4 DEF TripBy, Reasons
    <3>2. breaker' \in BreakerType
      BY <2>1, <3>1, TrippedType
    <3> QED BY <1>2, <2>4, <3>2 DEF TripBy, BreakerTypeOK, BreakerType, Reasons
  <2>5. ASSUME NEW force \in BOOLEAN, Reset(force) PROVE BreakerTypeOK'
    <3>1. losses' \in Seq(Nat \X Nat)
      BY <2>5, EmptySeq DEF Reset
    <3>2. breaker' \in BreakerType
      BY <2>5 DEF Reset, Untripped, BreakerType, Reasons
    <3>3. checked' \in BOOLEAN /\ streak' \in Nat /\ UNCHANGED <<minute, money>>
      BY <2>5 DEF Reset
    <3> QED BY <1>2, <3>1, <3>2, <3>3 DEF BreakerTypeOK, BreakerType, Reasons
  <2>6. ASSUME NEW n \in ClockSteps, ClockMoves(n) PROVE BreakerTypeOK'
    BY <1>2, <2>6 DEF ClockMoves, BreakerTypeOK
  <2>7. CASE UNCHANGED breakerVars
    BY <1>2, <2>7 DEF breakerVars, BreakerTypeOK
  <2> QED BY <1>2, <2>2, <2>3, <2>4, <2>5, <2>6, <2>7, BalanceTypes DEF BreakerNext
<1> QED BY <1>1, <1>2, PTL DEF BreakerSpec

-----------------------------------------------------------------------------
(* Of every level and side the grid keeps a natural number of orders open:  *)
(* no fill takes away one that is not there.                                *)
THEOREM GridTypes == GridSpec => []GridTypeOK
<1>1. ASSUME GridInit PROVE GridTypeOK
  <2>1. initialized \in BOOLEAN /\ stopped \in BOOLEAN
    BY <1>1 DEF GridInit
  <2> QED BY <1>1, <2>1 DEF GridInit, GridTypeOK
<1>2. ASSUME GridTypeOK, [GridNext]_gridVars PROVE GridTypeOK'
  <2>1. /\ open \in [Orders -> Nat]
        /\ \A o \in Orders : open[o] > 0 => Removed(o) \in [Orders -> Nat]
    BY <1>2, RemovedCounts DEF GridTypeOK
  <2>2. \A i \in Levels : /\ <<"buy", i>> \in Orders /\ <<"sell", i>> \in Orders
    BY OrdersOfLevels
  <2>3. ASSUME NEW i \in Levels, BuyFilled(i) PROVE GridTypeOK'
    <3>1. open' \in [Orders -> Nat]
      BY <2>1, <2>2, <2>3, PlacedCounts DEF BuyFilled
    <3> QED BY <1>2, <2>3, <3>1 DEF BuyFilled, GridTypeOK
  <2>4. ASSUME NEW i \in Levels, SellFilled(i) PROVE GridTypeOK'
    <3>1. open' \in [Orders -> Nat]
      BY <2>1, <2>2, <2>4, PlacedCounts DEF SellFilled
    <3> QED BY <1>2, <2>4, <3>1 DEF SellFilled, GridTypeOK
  <2>5. ASSUME NEW price \in 0 - 1 .. 2 * N + 1, InitialOrders(price) PROVE GridTypeOK'
    <3>1. open' \in [Orders -> Nat]
      BY <1>2, <2>5 DEF InitialOrders, GridTypeOK
    <3>2. fills' \in Nat
      BY <1>2, <2>5 DEF InitialOrders, GridTypeOK
    <3> QED BY <1>2, <2>5, <3>1, <3>2 DEF InitialOrders, GridTypeOK
  <2>6. ASSUME NEW o \in Orders, FilledAfterStop(o) PROVE GridTypeOK'
    BY <1>2, <2>1, <2>6 DEF FilledAfterStop, GridTypeOK
  <2>7. CASE PriceLeavesRange
    BY <1>2, <2>7 DEF PriceLeavesRange, GridTypeOK
  <2>8. CASE UNCHANGED gridVars
    BY <1>2, <2>8 DEF gridVars, GridTypeOK
  <2> QED BY <1>2, <2>3, <2>4, <2>5, <2>6, <2>7, <2>8 DEF GridNext
<1> QED BY <1>1, <1>2, PTL DEF GridSpec

-----------------------------------------------------------------------------
CycleCounters == lost \in Nat /\ errors \in Nat /\ cyclesRun \in Nat /\ exceeded \in BOOLEAN

(* The counters of the agents' cycles keep their types, however the cycles  *)
(* interleave: the count of lost tokens never falls below zero.             *)
THEOREM CyclesTypes == CyclesSpec => []CyclesTypeOK
<1>1. CyclesInit => CycleCounters
  <2>1. CyclesInit => exceeded \in BOOLEAN
    BY DEF CyclesInit
  <2> QED BY <2>1 DEF CyclesInit, CycleCounters
<1>2. ASSUME CyclesInv, CycleCounters, [CyclesNext]_cycleVars PROVE CycleCounters'
  <2>1. CASE UNCHANGED cycleVars
    BY <1>2, <2>1 DEF cycleVars, CycleCounters
  <2>2. CASE ClockTicks
    BY <1>2, <2>2 DEF ClockTicks, CycleCounters
  <2>3. ASSUME NEW r \in Cyclers,
               \/ BeginCycle(r) \/ SkipCycle(r) \/ BeginTeam(r)
               \/ \E cat \in Categories : ToolRefused(r, cat) \/ ToolStarts(r, cat)
               \/ ToolEnds(r) \/ ToolRaises(r)
               \/ \E n \in 1 .. MaxBatch, last \in BOOLEAN : AskTools(r, n, last)
               \/ AskWords(r) \/ AnalystSignals(r) \/ RiskApproves(r) \/ TeamDeclines(r)
               \/ ExecutorReports(r) \/ TeamAskFails(r)
        PROVE  CycleCounters'
    <3>1. UNCHANGED <<lost, errors, exceeded>> /\ cyclesRun' \in {cyclesRun, cyclesRun + 1}
      BY <2>3 DEF BeginCycle, SkipCycle, BeginTeam, ToolRefused, ToolStarts, ToolEnds, ToolRaises,
                  AskTools, AskWords, AnalystSignals, RiskApproves, TeamDeclines, ExecutorReports,
                  TeamAskFails
    <3> QED BY <1>2, <3>1 DEF CycleCounters
  <2>4. ASSUME NEW r \in Cyclers, AskFails(r) PROVE CycleCounters'
    <3>1. cycle[r].tokens \in Nat
      BY <1>2 DEF CyclesInv, CycleState
    <3> QED BY <1>2, <2>4, <3>1 DEF AskFails, CycleCounters
  <2>5. ASSUME NEW r \in Cyclers, EndCycle(r) \/ EndFallback(r) PROVE CycleCounters'
    <3>1. exceeded' \in BOOLEAN
      BY <1>2, <2>5 DEF EndCycle, EndFallback, CountTokens, CycleCounters
    <3> QED BY <1>2, <2>5, <3>1 DEF EndCycle, EndFallback, CycleCounters
  <2> QED BY <1>2, <2>1, <2>2, <2>3, <2>4, <2>5 DEF CyclesNext
<1>3. CyclesInv /\ RateInv /\ CycleCounters => CyclesTypeOK
  BY DEF CyclesInv, RateInv, RateTypes, CycleCounters, CyclesTypeOK
<1> QED BY <1>1, <1>2, <1>3, CyclesInvariant, RateInvariant, PTL DEF CyclesSpec

-----------------------------------------------------------------------------
(* The results of a grid search are of combinations of the grid.            *)
GridSet == {Grid[i] : i \in DOMAIN Grid}
ResultSet == [params : GridSet, metric : Int]

LEMMA GridBounds ==
    /\ Len(Grid) \in Nat /\ DOMAIN Grid = 1 .. Len(Grid) /\ Metrics \subseteq Int
    /\ \A i \in 1 .. Len(Grid) : Grid[i] \in GridSet
    /\ NumWindows \in Nat \ {0}
<1>1. Grid \in Seq(GridSet)
  BY TuningAssumption DEF GridSet
<1>2. Len(Grid) \in Nat /\ DOMAIN Grid = 1 .. Len(Grid)
  BY <1>1, LenProperties
<1> QED BY <1>2, TuningAssumption DEF GridSet

(* Of some results one is the best: the first that none beats.              *)
LEMMA BestExists ==
    ASSUME NEW rs \in Seq(ResultSet), rs # <<>>
    PROVE  Best(rs) \in 1 .. Len(rs)
<1> DEFINE n == Len(rs)
           Unbeaten(k, i) == \A j \in 1 .. k : rs[j].metric <= rs[i].metric
           Bad == {k \in Nat : k \in 1 .. n /\ ~\E i \in 1 .. k : Unbeaten(k, i)}
<1>1. n \in Nat /\ n >= 1 /\ DOMAIN rs = 1 .. n /\ \A i \in 1 .. n : rs[i] \in ResultSet
  BY LenProperties, EmptySeq
<1>2. \A i \in 1 .. n : rs[i].metric \in Int
  BY <1>1 DEF ResultSet
<1>3. Bad = {}
  <2> SUFFICES ASSUME Bad # {} PROVE FALSE
    OBVIOUS
  <2>1. PICK m \in Bad : \A k \in Bad : m <= k
    <3>1. Bad \in SUBSET Nat
      OBVIOUS
    <3> HIDE DEF Bad
    <3> QED BY <3>1, LeastOf
  <2>2. m \in 1 .. n /\ ~\E i \in 1 .. m : Unbeaten(m, i)
    OBVIOUS
  <2>3. CASE m = 1
    <3>1. 1 \in 1 .. n /\ rs[1].metric \in Int /\ \A j \in 1 .. 1 : j = 1
      <4> HIDE DEF n
      <4> QED BY <1>1, <1>2
    <3>2. Unbeaten(1, 1)
      BY <3>1
    <3> HIDE DEF Unbeaten
    <3> QED BY <2>2, <2>3, <3>2
  <2>4. CASE m # 1
    <3>1. m - 1 \in 1 .. n /\ m - 1 \in Nat /\ m - 1 \notin Bad
      <4>1. m - 1 \in 1 .. n /\ m - 1 \in Nat /\ ~(m <= m - 1)
        BY <1>1, <2>2, <2>4
      <4> HIDE DEF Bad
      <4> QED BY <2>1, <4>1
    <3>2. PICK i \in 1 .. m - 1 : Unbeaten(m - 1, i)
      <4> HIDE DEF Unbeaten
      <4> QED BY <3>1
    <3>3. /\ i \in 1 .. m /\ m \in 1 .. m /\ i \in 1 .. n /\ m \in Int
          /\ \A j \in 1 .. m : j \in 1 .. n /\ (j = m \/ j \in 1 .. m - 1)
      <4>1. m \in 1 .. n
        BY <2>2
      <4> HIDE DEF n
      <4> QED BY <1>1, <4>1
    <3>4. \A j \in 1 .. m : rs[j].metric \in Int
      BY <1>2, <3>3
    <3>5. \A j \in 1 .. m - 1 : rs[j].metric <= rs[i].metric
      BY <3>2
    <3>6. CASE rs[m].metric <= rs[i].metric
      <4>1. Unbeaten(m, i)
        BY <3>3, <3>5, <3>6
      <4> HIDE DEF Unbeaten
      <4> QED BY <2>2, <3>3, <4>1
    <3>7. CASE ~(rs[m].metric <= rs[i].metric)
      <4>1. ASSUME NEW j \in 1 .. m PROVE rs[j].metric <= rs[m].metric
        <5> HIDE DEF Bad, Unbeaten, n
        <5>1. rs[j].metric \in Int /\ rs[m].metric \in Int /\ rs[i].metric \in Int
          BY <3>3, <3>4
        <5>2. j = m \/ rs[j].metric <= rs[i].metric
          BY <3>3, <3>5
        <5>3. CASE j = m
          BY <5>1, <5>3
        <5>4. CASE rs[j].metric <= rs[i].metric
          BY <3>7, <5>1, <5>4
        <5> QED BY <5>2, <5>3, <5>4
      <4>2. Unbeaten(m, m)
        BY <4>1
      <4> HIDE DEF Unbeaten
      <4> QED BY <2>2, <3>3, <4>2
    <3> QED BY <3>6, <3>7
  <2> QED BY <2>3, <2>4
<1> DEFINE First == {i \in Nat : i \in 1 .. n /\ Unbeaten(n, i)}
<1>4. First # {} /\ First \in SUBSET Nat
  <2>1. n \notin Bad
    BY <1>3
  <2>2. \E i \in 1 .. n : Unbeaten(n, i)
    <3> HIDE DEF Unbeaten
    <3> QED BY <1>1, <2>1
  <2> HIDE DEF Unbeaten
  <2> QED BY <1>1, <2>2
<1>5. PICK i \in First : \A k \in First : i <= k
  <2> HIDE DEF First
  <2> QED BY <1>4, LeastOf
<1>6. i \in 1 .. n /\ \A j \in 1 .. n : rs[j].metric <= rs[i].metric
  BY <1>5
<1>7. ASSUME NEW j \in 1 .. i - 1 PROVE rs[j].metric < rs[i].metric
  <2>1. j \in 1 .. n /\ j \in Nat /\ ~(i <= j)
    BY <1>1, <1>6
  <2>2. ~Unbeaten(n, j)
    <3>1. j \notin First
      <4> HIDE DEF First
      <4> QED BY <1>5, <2>1
    <3> HIDE DEF Unbeaten
    <3> QED BY <2>1, <3>1
  <2>3. PICK q \in 1 .. n : ~(rs[q].metric <= rs[j].metric)
    BY <2>2
  <2>4. rs[q].metric <= rs[i].metric /\ rs[q].metric \in Int /\ rs[j].metric \in Int /\ rs[i].metric \in Int
    BY <1>2, <1>6, <2>1
  <2> QED BY <2>3, <2>4
<1>8. \E k \in DOMAIN rs : /\ \A j \in DOMAIN rs : rs[j].metric <= rs[k].metric
                           /\ \A j \in 1 .. k - 1 : rs[j].metric < rs[k].metric
  BY <1>1, <1>6, <1>7
<1> HIDE DEF n
<1>9. Best(rs) \in DOMAIN rs
  BY <1>8 DEF Best
<1> QED BY <1>1, <1>9 DEF n

(* A result joins the list only after its combination was counted.          *)
TuneTypes ==
    /\ TuningTypeOK /\ results \in Seq(ResultSet) /\ reported \in Seq(WindowSet)
    /\ stage = "running" => Len(results) < tried

LEMMA WindowSteps ==
    ASSUME TuneTypes, TuneInv, NextWindow, settings' = saved, stage \notin {"idle", "window"},
           UNCHANGED <<saved, stamps, tried, results>>,
           \/ reported' = reported
           \/ \E w : reported' = Append(reported, w) /\ w \in WindowSet
    PROVE  TuneTypes'
<1>1. window' = window + 1 /\ window' \in 0 .. NumWindows /\ stage' = "window"
  BY GridBounds DEF TuneInv, NextWindow
<1>2. reported \in Seq(WindowSet) /\ Len(reported) \in Nat /\ Len(reported) <= window /\ window \in Nat
  BY LenProperties, GridBounds DEF TuneTypes, TuningTypeOK
<1>3. reported' \in Seq(WindowSet) /\ Len(reported') <= window'
  <2>1. CASE reported' = reported
    BY <1>1, <1>2, <2>1
  <2>2. ASSUME NEW w \in WindowSet, reported' = Append(reported, w)
        PROVE  reported' \in Seq(WindowSet) /\ Len(reported') <= window'
    BY <1>1, <1>2, <2>2, AppendProperties
  <2> QED BY <2>1, <2>2
<1> QED BY <1>1, <1>3 DEF TuneTypes, TuningTypeOK

(* A grid search and a walk through the windows keep their bounds, for      *)
(* every grid: the settings are the user's or a combination of the grid,    *)
(* there are no more results than combinations tried and no more reports    *)
(* than windows.                                                            *)
THEOREM TuningTypes == TuningSpec => []TuningTypeOK
<1>1. ASSUME TuningInit PROVE TuneTypes
  <2>1. results = <<>> /\ reported = <<>> /\ tried = 0 /\ window = 0 /\ stage = "idle" /\ stamps = 0
        /\ settings = DefaultParams /\ saved = DefaultParams
    BY <1>1 DEF TuningInit
  <2>2. results \in Seq(ResultSet) /\ Len(results) = 0 /\ reported \in Seq(WindowSet) /\ Len(reported) = 0
    BY <2>1, EmptySeq
  <2> QED BY <2>1, <2>2, GridBounds DEF TuneTypes, TuningTypeOK
<1>2. ASSUME TuneInv, TuneTypes, [TuningNext]_tuningVars PROVE TuneTypes'
  <2>1. /\ Len(results) \in Nat /\ Len(reported) \in Nat /\ tried \in Nat
        /\ tried <= Len(Grid) /\ Len(results) <= tried /\ results \in Seq(ResultSet)
    BY <1>2, LenProperties, GridBounds DEF TuneTypes, TuningTypeOK
  <2>2. ASSUME NEW n \in StampCounts, BeginWalk(n) PROVE TuneTypes'
    <3>1. n \in Nat
      BY TuningAssumption
    <3>2. reported' \in Seq(WindowSet) /\ Len(reported') = 0
      BY <2>2, EmptySeq DEF BeginWalk
    <3> QED BY <1>2, <2>2, <3>1, <3>2, GridBounds DEF BeginWalk, TuneTypes, TuningTypeOK
  <2>3. CASE BeginOptimize
    <3>1. results' \in Seq(ResultSet) /\ Len(results') = 0
      BY <2>3, EmptySeq DEF BeginOptimize
    <3> QED BY <1>2, <2>3, <3>1, GridBounds DEF BeginOptimize, TuneTypes, TuningTypeOK
  <2>4. CASE TryCombination
    <3>1. settings' \in GridSet /\ tried' \in 0 .. Len(Grid) /\ Len(results) < tried'
      <4>1. tried + 1 \in 1 .. Len(Grid) /\ settings' = Grid[tried + 1] /\ tried' = tried + 1
        BY <2>1, <2>4, GridBounds DEF TryCombination
      <4> QED BY <2>1, <4>1, GridBounds
    <3> QED BY <1>2, <2>4, <3>1 DEF TryCombination, TuneTypes, TuningTypeOK, GridSet
  <2>5. ASSUME NEW m \in Metrics, RunReturns(m) PROVE TuneTypes'
    <3> DEFINE r == [params |-> Grid[tried], metric |-> m]
    <3>1. Len(results) < tried /\ results' = Append(results, r)
      BY <1>2, <2>5 DEF RunReturns, TuneTypes
    <3>2. r \in ResultSet
      BY <2>1, <3>1, GridBounds DEF ResultSet
    <3> HIDE DEF r
    <3>3. results' \in Seq(ResultSet) /\ Len(results') = Len(results) + 1
      BY <2>1, <3>1, <3>2, AppendProperties
    <3> QED BY <1>2, <2>1, <2>5, <3>1, <3>3 DEF RunReturns, TuneTypes, TuningTypeOK
  <2>6. CASE RunFails
    BY <1>2, <2>6 DEF RunFails, TuneTypes, TuningTypeOK
  <2>7. CASE Validate
    <3>1. Best(results) \in 1 .. Len(results) /\ settings' = results[Best(results)].params
      BY <2>1, <2>7, BestExists DEF Validate
    <3>2. settings' \in GridSet
      <4>1. results[Best(results)] \in ResultSet
        BY <2>1, <3>1, ElementOfSeq
      <4> QED BY <3>1, <4>1 DEF ResultSet
    <3> QED BY <1>2, <2>7, <3>2 DEF Validate, TuneTypes, TuningTypeOK, GridSet
  <2>8. CASE GridFindsNothing
    BY <1>2, <2>8, WindowSteps DEF GridFindsNothing
  <2>9. CASE ValidationFails
    BY <1>2, <2>9, WindowSteps DEF ValidationFails
  <2>10. CASE ValidationReturns
    <3>1. Split(window, stamps) \in WindowSet
      <4>1. stage = "validating" /\ window \in 0 .. NumWindows - 1
        BY <1>2, <2>10, GridBounds DEF ValidationReturns, TuneInv
      <4> QED BY <1>2, <4>1, SplitWellCut DEF TuneInv
    <3> QED BY <1>2, <2>10, <3>1, WindowSteps DEF ValidationReturns
  <2>11. CASE Cancelled
    BY <1>2, <2>11 DEF Cancelled, TuneTypes, TuningTypeOK
  <2>12. CASE EndWalk
    BY <1>2, <2>12 DEF EndWalk, TuneTypes, TuningTypeOK
  <2>13. CASE UNCHANGED tuningVars
    BY <1>2, <2>13 DEF tuningVars, TuneTypes, TuningTypeOK
  <2> QED BY <1>2, <2>2, <2>3, <2>4, <2>5, <2>6, <2>7, <2>8, <2>9, <2>10, <2>11, <2>12, <2>13
          DEF TuningNext
<1>3. TuneTypes => TuningTypeOK
  BY DEF TuneTypes
<1> QED BY <1>1, <1>2, <1>3, TuneInvariant, PTL DEF TuningSpec

-----------------------------------------------------------------------------
(* What a run keeps of an account.                                          *)
HoldSet == [side : {"none", "buy", "sell"}, entry : Int, stop : Int, take : Int, price : Int,
            since : Int]
TradeSet == [gained : Int, shorts : Nat]
ManagerOK(m) ==
    DOMAIN m = ManagerFields /\ m.count \in 0 .. Len(Pairs) /\ m.breaker \in BOOLEAN
RunSet == [phase : {"idle", "between", "candles"}, turn : 0 .. Len(Pairs) + 1, bars : 0 .. MaxBars]
TypedAccount(a) ==
    /\ DOMAIN a = AccountFields
    /\ a.cash \in Int /\ a.holds \in [PairSet -> HoldSet] /\ a.trades \in TradeSet
    /\ ManagerOK(a.manager)

BacktestTypes ==
    /\ run \in RunSet /\ bar \in [PairSet -> Bars] /\ runs \in 0 .. MaxRuns
    /\ cash \in Int /\ holds \in [PairSet -> HoldSet] /\ trades \in TradeSet
    /\ ManagerOK(manager)

LEMMA BacktestBounds ==
    /\ Len(Pairs) \in Nat /\ \A i \in 1 .. Len(Pairs) : Pairs[i] \in PairSet
    /\ IsFiniteSet(PairSet) /\ Cardinality(PairSet) \in 0 .. Len(Pairs)
    /\ Slip \in Nat /\ Commission \in Nat /\ InitialBalance \in Nat /\ MaxBars \in Nat
    /\ MaxRuns \in Nat /\ Gaps \subseteq Nat
    /\ \A b \in Bars : b.high \in Int /\ b.low \in Int /\ b.close \in Int
<1>1. /\ Len(Pairs) \in Nat /\ DOMAIN Pairs = 1 .. Len(Pairs)
      /\ \A i \in 1 .. Len(Pairs) : Pairs[i] \in PairSet
  BY BacktestAssumption, LenProperties DEF PairSet
<1> DEFINE f == [i \in 1 .. Len(Pairs) |-> Pairs[i]]
<1>2. f \in Surjection(1 .. Len(Pairs), PairSet)
  <2>1. f \in [1 .. Len(Pairs) -> PairSet]
    BY <1>1
  <2>2. \A s \in PairSet : \E i \in 1 .. Len(Pairs) : f[i] = s
    BY <1>1 DEF PairSet
  <2> HIDE DEF f
  <2> QED BY <2>1, <2>2 DEF Surjection
<1>3. IsFiniteSet(1 .. Len(Pairs)) /\ Cardinality(1 .. Len(Pairs)) = Len(Pairs)
  BY <1>1, FS_Interval
<1>4. IsFiniteSet(PairSet) /\ Cardinality(PairSet) <= Len(Pairs)
  <2> HIDE DEF f
  <2> QED BY <1>2, <1>3, FS_Surjection
<1>5. Cardinality(PairSet) \in Nat
  BY <1>4, FS_CardinalityType
<1>6. \A b \in Bars : b.high \in Int /\ b.low \in Int /\ b.close \in Int
  BY BacktestAssumption
<1> QED BY <1>1, <1>4, <1>5, <1>6, BacktestAssumption

LEMMA HeldBounds ==
    ASSUME NEW h \in [PairSet -> HoldSet], NEW T \in SUBSET Held(h)
    PROVE  Cardinality(T) \in 0 .. Len(Pairs)
<1>1. T \in SUBSET PairSet
  BY DEF Held
<1>2. IsFiniteSet(T) /\ Cardinality(T) <= Cardinality(PairSet) /\ Cardinality(T) \in Nat
  BY <1>1, BacktestBounds, FS_Subset, FS_CardinalityType
<1> QED BY <1>2, BacktestBounds

LEMMA ClosedTyped ==
    ASSUME NEW a, TypedAccount(a), NEW s \in PairSet, NEW price \in Int
    PROVE  TypedAccount(Closed(a, s, price))
<1> DEFINE h == a.holds[s]
           fill == ExitFill(h.side, price)
           b == Closed(a, s, price)
           n == Cardinality(Held(a.holds) \ {s})
<1>1. h \in HoldSet
  BY DEF TypedAccount
<1> HIDE DEF h
<1>2. fill \in Int
  BY BacktestBounds DEF ExitFill
<1>3. Pnl(h, fill) \in Int
  <2>1. h.entry \in Int
    BY <1>1 DEF HoldSet
  <2> HIDE DEF fill
  <2> QED BY <1>2, <2>1, BacktestBounds DEF Pnl
<1> HIDE DEF fill
<1>4. n \in 0 .. Len(Pairs)
  <2>1. a.holds \in [PairSet -> HoldSet] /\ Held(a.holds) \ {s} \in SUBSET Held(a.holds)
    BY DEF TypedAccount
  <2> QED BY <2>1, HeldBounds
<1> HIDE DEF n
<1>5. /\ DOMAIN b = AccountFields
      /\ b.cash = a.cash + fill /\ b.holds = [a.holds EXCEPT ![s] = NoHold]
      /\ b.trades = [gained |-> a.trades.gained + Pnl(h, fill),
                     shorts |-> a.trades.shorts + (IF h.side = "sell" THEN 1 ELSE 0)]
      /\ b.manager = [a.manager EXCEPT !.count = n, !.pnl = Pnl(h, fill)]
  BY DEF Closed, AccountFields, h, fill, n
<1> HIDE DEF b
<1>6. b.cash \in Int /\ b.holds \in [PairSet -> HoldSet]
  <2>1. NoHold \in HoldSet
    BY DEF NoHold, HoldSet
  <2> QED BY <1>2, <1>5, <2>1 DEF TypedAccount
<1>7. b.trades \in TradeSet
  BY <1>3, <1>5 DEF TypedAccount, TradeSet
<1>8. ManagerOK(b.manager)
  <2> DEFINE m == a.manager
  <2>1. DOMAIN m = ManagerFields /\ m.breaker \in BOOLEAN
    BY DEF TypedAccount, ManagerOK
  <2> HIDE DEF m
  <2>2. DOMAIN b.manager = ManagerFields /\ b.manager.breaker = m.breaker /\ b.manager.count = n
    BY <1>5, <2>1 DEF ManagerFields, m
  <2> QED BY <1>4, <2>1, <2>2 DEF ManagerOK
<1> QED BY <1>5, <1>6, <1>7, <1>8 DEF TypedAccount, b

LEMMA AllClosedTyped ==
    ASSUME NEW a, TypedAccount(a), NEW price \in [PairSet -> Int],
           NEW order \in [1 .. Len(Pairs) -> PairSet]
    PROVE  TypedAccount(AllClosed(a, order, price))
<1> DEFINE f == ClosedUpTo(a, order, price)
           Bad == {i \in Nat : i <= Len(Pairs) /\ ~TypedAccount(f[i])}
<1>1. Bad = {}
  <2> SUFFICES ASSUME Bad # {} PROVE FALSE
    OBVIOUS
  <2>1. PICK m \in Bad : \A k \in Bad : m <= k
    <3>1. Bad \in SUBSET Nat
      OBVIOUS
    <3> HIDE DEF Bad
    <3> QED BY <3>1, LeastOf
  <2>2. m \in Nat /\ m <= Len(Pairs) /\ ~TypedAccount(f[m])
    OBVIOUS
  <2>3. CASE m = 0
    <3>1. f[0] = a
      BY ClosedUpToStep
    <3> QED BY <2>2, <2>3, <3>1
  <2>4. CASE m # 0
    <3>1. m \in 1 .. Len(Pairs) /\ m - 1 \in Nat /\ m - 1 <= Len(Pairs) /\ ~(m <= m - 1)
      BY <2>2, <2>4, BacktestBounds
    <3>2. TypedAccount(f[m - 1])
      <4>1. m - 1 \notin Bad
        <5> HIDE DEF Bad
        <5> QED BY <2>1, <3>1
      <4> HIDE DEF f
      <4> QED BY <4>1, <3>1
    <3>3. f[m] = ClosedIfHeld(f[m - 1], order[m], price)
      BY <3>1, ClosedUpToStep
    <3>4. order[m] \in PairSet /\ price[order[m]] \in Int
      BY <3>1, BacktestBounds
    <3> HIDE DEF f, Bad
    <3>5. f[m] = f[m - 1] \/ f[m] = Closed(f[m - 1], order[m], price[order[m]])
      BY <3>3 DEF ClosedIfHeld
    <3>6. TypedAccount(Closed(f[m - 1], order[m], price[order[m]]))
      BY <3>2, <3>4, ClosedTyped
    <3> QED BY <2>2, <3>2, <3>5, <3>6
  <2> QED BY <2>3, <2>4
<1>2. TypedAccount(f[Len(Pairs)])
  <2> HIDE DEF f
  <2> QED BY <1>1, BacktestBounds
<1> QED BY <1>2 DEF AllClosed

LEMMA AccountTyped ==
    ASSUME BacktestTypes
    PROVE  /\ TypedAccount(Account) /\ Account.cash = cash /\ Account.holds = holds
           /\ Account.trades = trades /\ Account.manager = manager
BY DEF Account, AccountFields, TypedAccount, BacktestTypes

LEMMA BecomesTyped ==
    ASSUME NEW a, TypedAccount(a), Becomes(a)
    PROVE  cash' \in Int /\ holds' \in [PairSet -> HoldSet] /\ trades' \in TradeSet /\ ManagerOK(manager')
BY DEF Becomes, TypedAccount

LEMMA DayResetTyped ==
    ASSUME ManagerOK(manager)
    PROVE  ManagerOK(DayReset(manager))
BY DEF ManagerOK, DayReset, ManagerFields

LEMMA TurnTypes ==
    ASSUME BacktestTypes, NEW s, OnTurn(s), TurnEnds
    PROVE  run' \in RunSet
<1>1. run \in RunSet /\ run.turn <= Len(Pairs) /\ run' = [run EXCEPT !.turn = run.turn + 1]
  BY DEF OnTurn, TurnEnds, BacktestTypes
<1>2. run.turn + 1 \in 0 .. Len(Pairs) + 1
  BY <1>1, BacktestBounds DEF RunSet
<1> QED BY <1>1, <1>2 DEF RunSet

LEMMA BacktestRunTypes ==
    ASSUME BacktestTypes,
           BeginRun \/ \E order \in Openings : ValuesAccount(order) \/ EndRun(order)
    PROVE  BacktestTypes'
<1>1. CASE BeginRun
  <2>1. run' \in RunSet
    BY <1>1, BacktestBounds DEF BeginRun, RunSet
  <2>2. holds' \in [PairSet -> HoldSet]
    BY <1>1 DEF BeginRun, NoHold, HoldSet
  <2>3. trades' \in TradeSet /\ cash' \in Int
    BY <1>1, BacktestBounds DEF BeginRun, NoTrades, TradeSet
  <2>4. runs' \in 0 .. MaxRuns
    BY <1>1, BacktestBounds DEF BeginRun, BacktestTypes
  <2> QED BY <1>1, <2>1, <2>2, <2>3, <2>4 DEF BeginRun, BacktestTypes
<1>2. ASSUME NEW order \in Openings, EndRun(order)
      PROVE  BacktestTypes'
  <2> DEFINE closes == [s \in PairSet |-> bar[s].close]
             b == AllClosed(Account, order, closes)
  <2>1. run' = [run EXCEPT !.phase = "idle"] /\ Becomes(b) /\ UNCHANGED <<bar, runs>>
    BY <1>2 DEF EndRun
  <2>2. closes \in [PairSet -> Int]
    BY BacktestBounds DEF BacktestTypes
  <2> HIDE DEF closes
  <2>3. TypedAccount(b)
    BY <2>2, AccountTyped, AllClosedTyped DEF Openings
  <2> HIDE DEF b
  <2>4. run' \in RunSet
    BY <2>1 DEF BacktestTypes, RunSet
  <2> QED BY <2>1, <2>3, <2>4, BecomesTyped DEF BacktestTypes
<1>3. ASSUME NEW order \in Openings, ValuesAccount(order)
      PROVE  BacktestTypes'
  <2> DEFINE closes == [s \in PairSet |-> holds[s].price]
             broke == 100 * Equity <= InitialBalance /\ Held(holds) # {}
             after == IF broke THEN AllClosed(Account, order, closes) ELSE Account
             value == IF broke THEN after.cash ELSE Equity
             b == [after EXCEPT !.manager.balance = value]
  <2>1. run' = [run EXCEPT !.phase = "between"] /\ Becomes(b) /\ UNCHANGED <<bar, runs>>
    BY <1>3 DEF ValuesAccount
  <2>2. closes \in [PairSet -> Int]
    BY DEF BacktestTypes, HoldSet
  <2> HIDE DEF closes, broke
  <2>3. TypedAccount(after)
    BY <2>2, AccountTyped, AllClosedTyped DEF Openings
  <2> HIDE DEF after, value
  <2>4. TypedAccount(b)
    <3>1. /\ DOMAIN b = AccountFields /\ b.cash = after.cash /\ b.holds = after.holds
          /\ b.trades = after.trades
          /\ b.manager = [after.manager EXCEPT !.balance = value]
      BY <2>3 DEF TypedAccount, AccountFields
    <3>2. ManagerOK(b.manager)
      <4> DEFINE m == after.manager
      <4>1. ManagerOK(m)
        BY <2>3 DEF TypedAccount
      <4> HIDE DEF m, b
      <4> QED BY <3>1, <4>1 DEF ManagerOK, ManagerFields, m
    <3> HIDE DEF b
    <3> QED BY <2>3, <3>1, <3>2 DEF TypedAccount
  <2> HIDE DEF b
  <2>5. run' \in RunSet
    BY <2>1 DEF BacktestTypes, RunSet
  <2> QED BY <2>1, <2>4, <2>5, BecomesTyped DEF BacktestTypes
<1> QED BY <1>1, <1>2, <1>3

LEMMA BacktestSymbolTypes ==
    ASSUME BacktestTypes, NEW s \in PairSet,
           ExitHits(s) \/ KeepsPosition(s) \/ NoEntry(s) \/ SignalRejected(s)
    PROVE  BacktestTypes'
<1>1. run' \in RunSet
  BY TurnTypes DEF ExitHits, KeepsPosition, NoEntry, SignalRejected
<1>2. holds[s] \in HoldSet /\ bar[s] \in Bars
  BY DEF BacktestTypes
<1>3. CASE ExitHits(s)
  <2> DEFINE price == IF StopHit(holds[s], bar[s]) THEN holds[s].stop ELSE holds[s].take
             b == Closed(Account, s, price)
  <2>1. Becomes(b) /\ UNCHANGED <<bar, runs>>
    BY <1>3 DEF ExitHits
  <2>2. price \in Int
    BY <1>2 DEF HoldSet
  <2> HIDE DEF price
  <2>3. TypedAccount(b)
    BY <2>2, AccountTyped, ClosedTyped
  <2> HIDE DEF b
  <2> QED BY <1>1, <2>1, <2>3, BecomesTyped DEF BacktestTypes
<1>4. CASE KeepsPosition(s)
  <2>1. holds' = [holds EXCEPT ![s].price = bar[s].close] /\ UNCHANGED <<bar, cash, trades, manager, runs>>
    BY <1>4 DEF KeepsPosition
  <2>2. bar[s].close \in Int
    BY <1>2, BacktestBounds
  <2>3. holds' \in [PairSet -> HoldSet]
    BY <2>1, <2>2 DEF BacktestTypes, HoldSet
  <2> QED BY <1>1, <2>1, <2>3 DEF BacktestTypes
<1>5. CASE NoEntry(s)
  BY <1>1, <1>5 DEF NoEntry, BacktestTypes
<1>6. CASE SignalRejected(s)
  <2> DEFINE m == DayReset(manager)
             ends == m.breaker \/ LossReached(m)
  <2>1. manager' = [m EXCEPT !.breaker = ends] /\ UNCHANGED <<bar, cash, holds, trades, runs>>
    BY <1>6 DEF SignalRejected
  <2>2. ManagerOK(m)
    BY DayResetTyped DEF BacktestTypes
  <2>3. ends \in BOOLEAN
    OBVIOUS
  <2> HIDE DEF m, ends
  <2>4. ManagerOK(manager')
    BY <2>1, <2>2, <2>3 DEF ManagerOK, ManagerFields
  <2> QED BY <1>1, <2>1, <2>4 DEF BacktestTypes
<1> QED BY <1>3, <1>4, <1>5, <1>6

LEMMA BacktestSignalTypes ==
    ASSUME BacktestTypes, NEW s \in PairSet, NEW gap \in Gaps,
           \/ SizeRaises(s, gap)
           \/ \E side \in {"buy", "sell"} : SignalFills(s, side, gap)
    PROVE  BacktestTypes'
<1>1. CASE SizeRaises(s, gap)
  <2>1. run' = [run EXCEPT !.phase = "idle"] /\ UNCHANGED <<bar, cash, holds, trades, manager, runs>>
    BY <1>1 DEF SizeRaises
  <2> QED BY <2>1 DEF BacktestTypes, RunSet
<1>2. ASSUME NEW side \in {"buy", "sell"}, SignalFills(s, side, gap)
      PROVE  BacktestTypes'
  <2> DEFINE m == DayReset(manager)
             price == bar[s].close
             fill == IF side = "buy" THEN price + Slip ELSE price - Slip
             away == IF side = "buy" THEN gap ELSE 0 - gap
             since == run.bars * Len(Pairs) + run.turn
             h == [side |-> side, entry |-> fill, price |-> fill,
                   stop |-> price - away, take |-> price + 2 * away, since |-> since]
  <2>1. /\ cash' = cash - (fill + Commission) /\ holds' = [holds EXCEPT ![s] = h]
        /\ manager' = [m EXCEPT !.count = Cardinality(Held(holds'))]
        /\ UNCHANGED <<bar, trades, runs>>
    BY <1>2 DEF SignalFills
  <2>2. run' \in RunSet
    BY <1>2, TurnTypes DEF SignalFills
  <2>3. price \in Int /\ fill \in Int /\ away \in Int
    <3>1. price \in Int
      BY BacktestBounds DEF BacktestTypes
    <3> HIDE DEF price
    <3> QED BY <3>1, BacktestBounds
  <2>4. ManagerOK(m)
    BY DayResetTyped DEF BacktestTypes
  <2>9. since \in Int
    <3>1. run.bars \in Int /\ run.turn \in Int /\ Len(Pairs) \in Int
      BY BacktestBounds DEF BacktestTypes, RunSet
    <3> QED BY <3>1
  <2> HIDE DEF price, fill, away, m, since
  <2>5. h \in HoldSet
    BY <2>3, <2>9 DEF HoldSet
  <2> HIDE DEF h
  <2>6. holds' \in [PairSet -> HoldSet] /\ cash' \in Int
    BY <2>1, <2>3, <2>5, BacktestBounds DEF BacktestTypes
  <2>7. Cardinality(Held(holds')) \in 0 .. Len(Pairs)
    BY <2>6, HeldBounds
  <2>8. ManagerOK(manager')
    BY <2>1, <2>4, <2>7 DEF ManagerOK, ManagerFields
  <2> QED BY <2>1, <2>2, <2>6, <2>8 DEF BacktestTypes
<1> QED BY <1>1, <1>2

(* A backtest keeps its types for every sequence of bars, gaps and signals: *)
(* the account is of whole numbers, the bars and the turn stay within the   *)
(* run, and the risk manager counts no more positions than there are pairs. *)
THEOREM BacktestKeepsTypes == BacktestSpec => []BacktestTypeOK
<1>1. ASSUME BacktestInit PROVE BacktestTypes
  <2>1. run \in RunSet /\ runs \in 0 .. MaxRuns
    BY <1>1, BacktestBounds DEF BacktestInit, RunSet
  <2>2. bar \in [PairSet -> Bars]
    <3>1. (CHOOSE b \in Bars : TRUE) \in Bars
      BY BacktestAssumption
    <3> QED BY <1>1, <3>1 DEF BacktestInit
  <2>3. holds \in [PairSet -> HoldSet] /\ cash \in Int /\ trades \in TradeSet
    BY <1>1, BacktestBounds DEF BacktestInit, NoHold, HoldSet, NoTrades, TradeSet
  <2>4. ManagerOK(manager)
    BY <1>1, BacktestBounds DEF BacktestInit, ManagerOK, ManagerFields
  <2> QED BY <2>1, <2>2, <2>3, <2>4 DEF BacktestTypes
<1>2. BacktestTypes /\ [BacktestNext]_backtestVars => BacktestTypes'
  <2> SUFFICES ASSUME BacktestTypes, [BacktestNext]_backtestVars PROVE BacktestTypes'
    OBVIOUS
  <2>1. ASSUME NEW bars \in [PairSet -> Bars], NextTimestamp(bars)
        PROVE  BacktestTypes'
    <3>1. run.bars + 1 \in 0 .. MaxBars /\ 1 \in 0 .. Len(Pairs) + 1
      BY <2>1, BacktestBounds DEF NextTimestamp, BacktestTypes, RunSet
    <3>2. run' \in RunSet
      BY <2>1, <3>1 DEF NextTimestamp, RunSet
    <3> QED BY <2>1, <3>2 DEF NextTimestamp, BacktestTypes
  <2>2. CASE UNCHANGED backtestVars
    BY <2>2 DEF backtestVars, BacktestTypes, ManagerOK
  <2> QED BY <2>1, <2>2, BacktestRunTypes, BacktestSymbolTypes, BacktestSignalTypes, Zenon DEF BacktestNext
<1>3. BacktestTypes => BacktestTypeOK
  BY DEF BacktestTypes, BacktestTypeOK, RunSet, HoldSet, TradeSet, ManagerOK
<1> QED BY <1>1, <1>2, <1>3, PTL DEF BacktestSpec
=============================================================================
