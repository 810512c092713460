------------------------------- MODULE Quant --------------------------------
(***************************************************************************)
(* The arithmetic of risk in keryxflow/aegis/quant.py, which the tools of  *)
(* the agent and the backtester call.  Prices and amounts are whole; a     *)
(* share, a rate or a drawdown is in percent, rounded down.  The ratios of *)
(* Sharpe, Sortino and Calmar are irrational: only their signs are given.  *)
(***************************************************************************)
EXTENDS Integers, Sequences, FiniteSets, FiniteSetsExt, SequencesExt

Distance(a, b) == IF a > b THEN a - b ELSE b - a
SignOf(x) == IF x > 0 THEN 1 ELSE IF x < 0 THEN -1 ELSE 0
Within(low, x, high) == IF x < low THEN low ELSE IF x > high THEN high ELSE x
Total(s) == FoldSeq(LAMBDA x, y : x + y, 0, s)

(* position_size(): it raises when the stop is the entry.                   *)
Sizes(entry, stop) == entry # stop

SizeOf(balance, entry, stop, riskPct) ==
    LET risk == (balance * riskPct) \div 100
    IN [risk |-> risk, quantity |-> risk \div Distance(entry, stop),
        value |-> (risk * entry) \div Distance(entry, stop)]

(* kelly_criterion() with its default fraction of a half, at most 25%.      *)
KellyDefined(rate, win, loss) == rate > 0 /\ rate < 100 /\ loss > 0 /\ win # 0
Kelly(rate, win, loss) ==
    Within(0, (rate * win - (100 - rate) * loss) \div (2 * win), 25)

(* A stop below a long and above a short.  atr_stop_loss() wants one candle *)
(* more than the period; its prices are times the period here.              *)
AtSide(side, entry, distance) == IF side = "buy" THEN entry - distance ELSE entry + distance
FixedStop(entry, side, pct) == AtSide(side, 100 * entry, entry * pct)

TrueRange(bar, before) ==
    Max({bar.high - bar.low, Distance(bar.high, before.close), Distance(bar.low, before.close)})

AtrDefined(bars, period) == Len(bars) >= period + 1
AtrStop(bars, entry, side, multiplier, period) ==
    LET last == Len(bars) - period + 1 .. Len(bars)
    IN AtSide(side, entry * period,
              multiplier * MapThenSumSet(LAMBDA i : TrueRange(bars[i], bars[i - 1]), last))

(* risk_reward_ratio(): the ratio and the win rate that breaks even.        *)
RewardDefined(entry, stop, quantity) == Distance(entry, stop) * quantity # 0
RewardOf(entry, stop, target) ==
    LET loss == Distance(entry, stop)
        profit == Distance(target, entry)
    IN [ratio |-> (100 * profit) \div loss, breakeven |-> (100 * loss) \div (loss + profit),
        favorable |-> profit >= loss]

(* calculate_drawdown(): how far the curve is under its peak so far, and    *)
(* the worst and the longest of it.  Under a peak of zero, all is lost;     *)
(* under a negative one, nothing, as the quotient is then negative.         *)
Drop(peak, equity) ==
    CASE peak > 0 -> Within(0, (100 * (peak - equity)) \div peak, 100)
      [] peak = 0 /\ equity < 0 -> 100
      [] OTHER -> 0

DrawdownStep(equity, so) ==
    LET peak == IF equity > so.peak THEN equity ELSE so.peak
        under == IF equity < peak THEN so.under + 1 ELSE 0
    IN [peak |-> peak, now |-> Drop(peak, equity), under |-> under,
        worst |-> Max({so.worst, Drop(peak, equity)}), longest |-> Max({so.longest, under})]

DrawdownOf(curve) ==
    IF curve = <<>> THEN [peak |-> 0, now |-> 0, under |-> 0, worst |-> 0, longest |-> 0]
    ELSE FoldLeft(LAMBDA so, equity : DrawdownStep(equity, so),
                  [peak |-> curve[1], now |-> 0, under |-> 0, worst |-> 0, longest |-> 0], curve)

(* With a risk-free rate of zero, as the backtester calls them.             *)
SharpeSign(returns) ==
    IF Len(returns) < 2 \/ Cardinality(Range(returns)) = 1 THEN 0 ELSE SignOf(Total(returns))

SortinoSign(returns) ==
    IF Len(returns) < 2 \/ \A i \in DOMAIN returns : returns[i] >= 0 THEN 0
    ELSE SignOf(Total(returns))

CalmarSign(curve) ==
    IF Len(curve) < 2 \/ DrawdownOf(curve).worst = 0 THEN 0
    ELSE SignOf(curve[Len(curve)] - curve[1])

Expectancy(rate, win, loss) == rate * win - (100 - rate) * loss
=============================================================================
