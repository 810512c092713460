----------------------------- MODULE Technical ------------------------------
(***************************************************************************)
(* What keryxflow/oracle/technical.py concludes from the last readings of  *)
(* the indicators, which pandas-ta computes.  A chart is a record of       *)
(* readings; the position in the bands, the changes and the ratios are     *)
(* percentages, and a confidence is in per mille, rounded down.  `ema` is  *)
(* the sequence of the averages, shortest period first, `atr` the ratio to *)
(* the average and the share of the price in per mille.                    *)
(***************************************************************************)
EXTENDS Integers, Sequences, FiniteSets, FiniteSetsExt

CONSTANTS
    Oversold,       \* rsi_oversold
    Overbought      \* rsi_overbought

ASSUME TechnicalAssumption == Oversold \in 20 .. 50 /\ Overbought \in 50 .. 80

Strong == 3
Moderate == 2
Weak == 1
None == 0
Reading(trend, strength) == [trend |-> trend, strength |-> strength]
StrongIf(b) == IF b THEN Strong ELSE Moderate

Rsi(v) ==
    CASE v > Overbought -> Reading("bearish", StrongIf(v > 80))
      [] v < Oversold   -> Reading("bullish", StrongIf(v < 20))
      [] OTHER          -> Reading("neutral", Weak)

AbsOf(x) == IF x < 0 THEN 0 - x ELSE x

(* `before` and `now` are the MACD line less its signal line.               *)
Macd(before, now, line) ==
    CASE before <= 0 /\ now > 0 -> Reading("bullish", Strong)
      [] before >= 0 /\ now < 0 -> Reading("bearish", Strong)
      [] OTHER -> Reading(IF now > 0 THEN "bullish" ELSE "bearish",
                          IF 10 * AbsOf(now) > AbsOf(line) THEN Moderate ELSE Weak)

Bands(position) ==
    CASE position > 95 -> Reading("bearish", Strong)
      [] position < 5  -> Reading("bullish", Strong)
      [] position > 70 -> Reading("bullish", Moderate)
      [] position < 30 -> Reading("bearish", Moderate)
      [] OTHER         -> Reading("neutral", Weak)

Obv(overAverage, change) ==
    CASE overAverage > 0 /\ change > 1      -> Reading("bullish", StrongIf(change > 5))
      [] overAverage < 0 /\ change < 0 - 1  -> Reading("bearish", StrongIf(change < 0 - 5))
      [] OTHER                              -> Reading("neutral", Weak)

Atr(ratio) == Reading("neutral", CASE ratio > 150 -> Strong
                                   [] ratio < 50  -> Weak
                                   [] OTHER       -> Moderate)

Ema(price, ema) ==
    LET n == Len(ema)
        above == Cardinality({i \in 1 .. n : price > ema[i]})
        rising == Cardinality({i \in 1 .. n - 1 : ema[i] > ema[i + 1]})
        pairs == IF n > 1 THEN n - 1 ELSE 1
    IN  CASE n > 0 /\ rising = pairs /\ above = n -> Reading("bullish", Strong)
          [] n > 0 /\ n - 1 - rising = pairs /\ above = 0 -> Reading("bearish", Strong)
          [] above > n \div 2 -> Reading("bullish", Moderate)
          [] above < n \div 2 -> Reading("bearish", Moderate)
          [] OTHER            -> Reading("neutral", Weak)

Indicators(c) ==
    <<Rsi(c.rsi), Macd(c.macd[1], c.macd[2], c.macd[3]), Bands(c.bands),
      Obv(c.obv[1], c.obv[2]), Atr(c.atr[1]), Ema(c.price, c.ema)>>

(* What the one of the six indicators adds to the score of a trend.         *)
ScoreShare(result, trend) == IF result.trend = trend THEN result.strength ELSE 0
Score(results, trend) ==
    ScoreShare(results[1], trend) + ScoreShare(results[2], trend) + ScoreShare(results[3], trend)
      + ScoreShare(results[4], trend) + ScoreShare(results[5], trend) + ScoreShare(results[6], trend)

Overall(results) ==
    LET up == Score(results, "bullish")
        down == Score(results, "bearish")
        flat == Score(results, "neutral")
        trend == CASE up > down /\ up > flat -> "bullish"
                   [] down > up /\ down > flat -> "bearish"
                   [] OTHER -> "neutral"
        most == CASE trend = "bullish" -> up [] trend = "bearish" -> down [] OTHER -> flat
        total == up + down + flat
        strength == CASE 10 * most > 7 * total -> Strong
                      [] 10 * most > 4 * total -> Moderate
                      [] 10 * most > 2 * total -> Weak
                      [] OTHER -> None
    IN  IF total = 0 THEN [trend |-> "neutral", strength |-> None, confidence |-> 0]
        ELSE [trend |-> trend, strength |-> strength,
              confidence |-> (1000 * most) \div total]

Analysis(c) == Overall(Indicators(c))
=============================================================================
