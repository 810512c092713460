--------------------------- MODULE CircuitBreaker ---------------------------
(***************************************************************************)
(* The stand-alone circuit breaker of keryxflow/aegis/circuit.py: it looks *)
(* at balances and trade results, trips, and stays tripped until somebody  *)
(* calls reset().  No other component uses it (the risk manager has a      *)
(* breaker of its own, module Aegis), so its callers are arbitrary.        *)
(*                                                                         *)
(* Time is counted in minutes.  A loss is kept in basis points of the      *)
(* balance before it, rounded down where the code has a float.             *)
(***************************************************************************)
EXTENDS Integers, SequencesExt

CONSTANTS
    Balances,          \* balances update_balance() is given
    MinutesPerDay,     \* 1440
    DailyLimit,        \* max_daily_drawdown, 500 basis points
    TotalLimit,        \* max_total_drawdown, 1500
    RapidLimit,        \* rapid_loss_threshold, 300
    RapidWindow,       \* rapid_loss_window_minutes, 30
    StreakLimit,       \* max_consecutive_losses, 5
    Cooldown,          \* cooldown_minutes, 60
    ClockSteps,        \* by how many minutes the clock may move
    MaxMinutes,        \* bound: minutes
    MaxLosses          \* bound: losses and balances recorded in a day

ASSUME BreakerAssumption ==
    /\ Balances \subseteq Nat /\ ClockSteps \subseteq Nat \ {0}
    /\ {MinutesPerDay, StreakLimit} \subseteq Nat \ {0}
    /\ {DailyLimit, TotalLimit, RapidLimit, RapidWindow, Cooldown, MaxMinutes, MaxLosses} \subseteq Nat

VARIABLES
    minute,        \* the clock
    breaker,       \* state, and when and why it was tripped
    money,         \* current, peak and day's starting balance, day of the last reset
    streak,        \* consecutive_losses
    losses,        \* recent_losses: <<minute, basis points>>
    checked        \* history: the balance was checked since the last reset()

breakerVars == <<minute, breaker, money, streak, losses, checked>>

Untripped == [open |-> FALSE, reason |-> "none", since |-> 0]
Today == 1 + minute \div MinutesPerDay

BreakerInit ==
    /\ minute = 0 /\ breaker = Untripped /\ streak = 0 /\ losses = <<>>
    /\ money = [current |-> 0, peak |-> 0, start |-> 0, day |-> 0]
    /\ checked = FALSE

(* daily_drawdown and total_drawdown, 0 without a base.                     *)
Drawdown(base, current) ==
    IF base <= 0 THEN 0 ELSE (10000 * (base - current)) \div base

RecentTotal(s) == FoldLeft(LAMBDA sum, x : sum + x[2], 0, s)

(* _trip(): the first reason stays.                                         *)
Tripped(b, reason) ==
    IF b.open THEN b ELSE [open |-> TRUE, reason |-> reason, since |-> minute]

TrippedIf(b, condition, reason) == IF condition THEN Tripped(b, reason) ELSE b

-----------------------------------------------------------------------------
(* update_balance(): the day is rolled over with the balance known so far,  *)
(* a fall is recorded as a loss and the losses outside the window dropped,  *)
(* and then the drawdowns and the recent losses are checked in this order.  *)
(* The losses are in order of time: what stays of them is their end.        *)
RecentOf(s) == {i \in DOMAIN s : s[i][1] > minute - RapidWindow}
FirstRecent(s) == CHOOSE i \in RecentOf(s) \cup {Len(s) + 1} : \A j \in RecentOf(s) : i <= j
InWindow(s) == SubSeq(s, FirstRecent(s), Len(s))

RolledOver == money.day = Today
DayStart == IF RolledOver THEN money.start ELSE money.current
LossesKept == IF RolledOver THEN losses ELSE <<>>

(* Mutated form of CheckedAgainst: the total drawdown is forgotten.         *)
CheckedAgainstDay(m, s) ==
    TrippedIf(TrippedIf(breaker, Drawdown(m.start, m.current) >= DailyLimit, "daily"),
              s # <<>> /\ RecentTotal(s) >= RapidLimit, "rapid")

CheckedAgainst(m, s) ==
    LET daily == TrippedIf(breaker, Drawdown(m.start, m.current) >= DailyLimit, "daily")
        total == TrippedIf(daily, Drawdown(m.peak, m.current) >= TotalLimit, "daily")
    IN  TrippedIf(total, s # <<>> /\ RecentTotal(s) >= RapidLimit, "rapid")

UpdateBreakerBalance(b) ==
    LET m == [current |-> b, peak |-> IF b > money.peak THEN b ELSE money.peak,
              start |-> DayStart, day |-> Today]
        s == IF b < money.current
             THEN InWindow(Append(LossesKept,
                      <<minute, (10000 * (money.current - b)) \div money.current>>))
             ELSE LossesKept
    IN  /\ Len(losses) < MaxLosses
        /\ money' = m /\ losses' = s
        /\ streak' = IF RolledOver THEN streak ELSE 0
        /\ breaker' = CheckedAgainst(m, s)
        /\ checked' = TRUE
        /\ UNCHANGED minute

(* record_trade_result()                                                    *)
RecordWin ==
    /\ streak' = 0
    /\ UNCHANGED <<minute, breaker, money, losses, checked>>

RecordLoss ==
    /\ streak < StreakLimit + 1
    /\ streak' = streak + 1
    /\ breaker' = TrippedIf(breaker, streak' >= StreakLimit, "streak")
    /\ UNCHANGED <<minute, money, losses, checked>>

(* trip_manual(), trip_on_error()                                           *)
TripBy(reason) ==
    /\ breaker' = Tripped(breaker, reason)
    /\ UNCHANGED <<minute, money, streak, losses, checked>>

(* reset(): refused during the cooldown unless forced.  The balances stay,  *)
(* so the next update may trip it again.                                    *)
Reset(force) ==
    /\ breaker.open /\ (force \/ minute >= breaker.since + Cooldown)
    /\ breaker' = Untripped /\ streak' = 0 /\ losses' = <<>> /\ checked' = FALSE
    /\ UNCHANGED <<minute, money>>

ClockMoves(n) ==
    /\ minute + n <= MaxMinutes /\ minute' = minute + n
    /\ UNCHANGED <<breaker, money, streak, losses, checked>>

BreakerNext ==
    \/ \E b \in Balances : UpdateBreakerBalance(b)
    \/ RecordWin \/ RecordLoss
    \/ \E reason \in {"manual", "error"} : TripBy(reason)
    \/ \E force \in BOOLEAN : Reset(force)
    \/ \E n \in ClockSteps : ClockMoves(n)

BreakerSpec == BreakerInit /\ [][BreakerNext]_breakerVars

-----------------------------------------------------------------------------
BreakerTypeOK ==
    /\ minute \in Nat /\ streak \in Nat /\ checked \in BOOLEAN
    /\ breaker \in [open : BOOLEAN, since : Nat,
                    reason : {"none", "daily", "rapid", "streak", "manual", "error"}]
    /\ money \in [current : Nat, peak : Nat, start : Nat, day : Nat]
    /\ losses \in Seq(Nat \X Nat)

(* While the breaker is closed, trading is within every limit it watches:   *)
(* no losing streak of full length, and, once a balance was checked since   *)
(* the last reset, neither a drawdown at its limit nor recent losses that   *)
(* add up to theirs (circuit.py:124, 150, 292).                             *)
ClosedWithinLimits ==
    ~breaker.open =>
        /\ streak < StreakLimit
        /\ checked => /\ Drawdown(money.start, money.current) < DailyLimit
                      /\ Drawdown(money.peak, money.current) < TotalLimit
                      /\ ~(losses # <<>> /\ RecentTotal(losses) >= RapidLimit)
=============================================================================
