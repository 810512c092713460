------------------------------ MODULE Analysis ------------------------------
(***************************************************************************)
(* What is computed of the results of backtests: the simulations of        *)
(* keryxflow/backtester/monte_carlo.py, which draw the trades of one again *)
(* and again, and the comparisons of keryxflow/optimizer/comparator.py.    *)
(*                                                                         *)
(* A simulation is the sequence of the trades it drew, with replacement.   *)
(* Amounts are whole; a percentile is asked in per mille and answered      *)
(* times a thousand, an average is a sum and a count.                      *)
(***************************************************************************)
EXTENDS Quant

Curve(start, profits, drawn) ==
    [k \in 1 .. Len(drawn) + 1 |->
        start + MapThenSumSet(LAMBDA i : profits[drawn[i]], 1 .. k - 1)]

EndOf(curve) == curve[Len(curve)]
Ends(start, profits, sims) == [i \in DOMAIN sims |-> EndOf(Curve(start, profits, sims[i]))]
Drawdowns(start, profits, sims) ==
    [i \in DOMAIN sims |-> DrawdownOf(Curve(start, profits, sims[i])).worst]

Ascending(xs) == SortSeq(xs, <)

Percentile(xs, perMille) ==
    LET sorted == Ascending(xs)
        place == perMille * (Len(xs) - 1)
        at == 1 + place \div 1000
        part == place % 1000
    IN IF part = 0 THEN 1000 * sorted[at] ELSE (1000 - part) * sorted[at] + part * sorted[at + 1]

FirstLeast(xs, Cost(_)) == Min({i \in DOMAIN xs : \A j \in DOMAIN xs : Cost(xs[i]) <= Cost(xs[j])})

(* run(): the first pass finds which simulations were the worst, the median *)
(* and the best; the second draws them again, for their curves.  It draws   *)
(* the same only if the generator has a seed.                               *)
MonteCarlo(start, profits, first, second) ==
    LET ends == Ends(start, profits, first)
        curve(i) == Curve(start, profits, second[i])
    IN [worst |-> curve(FirstLeast(ends, LAMBDA e : e)),
        best |-> curve(FirstLeast(ends, LAMBDA e : -e)),
        median |-> curve(FirstLeast(ends, LAMBDA e : Distance(1000 * e, Percentile(ends, 500)))),
        equity |-> [p \in {25, 50, 250, 500, 750, 950, 975} |-> Percentile(ends, p)],
        drawdown |-> [p \in {25, 50, 250, 500, 750, 950, 975} |->
                          Percentile(Drawdowns(start, profits, first), p)]]

-----------------------------------------------------------------------------
(* A result has params, flattened, and metrics, of which one that is not    *)
(* there counts as 0.                                                       *)
LowerIsBetter == {"max_drawdown", "max_drawdown_duration", "avg_loss"}
MetricOf(result, metric) == IF metric \in DOMAIN result.metrics THEN result.metrics[metric] ELSE 0
Outdoes(metric, x, y) == IF metric \in LowerIsBetter THEN x < y ELSE x > y

(* rank_by_metric(): equal ones keep their order.                           *)
RankedBy(results, metric) ==
    LET value(i) == MetricOf(results[i], metric)
    IN SetToSortSeq(DOMAIN results, LAMBDA i, j : Outdoes(metric, value(i), value(j))
                                                  \/ (value(i) = value(j) /\ i < j))

TopN(results, n, metric) ==
    SubSeq(RankedBy(results, metric), 1, Min({n, Len(results)}))
BottomN(results, n, metric) ==
    SubSeq(RankedBy(results, metric), Max({1, Len(results) - n + 1}), Len(results))

(* filter_by(): a limit that is not given does not count.                   *)
AtLeast == {"total_trades", "win_rate", "sharpe_ratio"}
FilterBy(results, limits) ==
    SelectSeq(results, LAMBDA r : \A m \in DOMAIN limits :
        IF m \in AtLeast THEN MetricOf(r, m) >= limits[m] ELSE MetricOf(r, m) <= limits[m])

(* parameter_sensitivity(): the average of a metric for each value of a     *)
(* parameter, and the best of them, the first tested among equals.          *)
With(results, parameter, v) ==
    {i \in DOMAIN results : parameter \in DOMAIN results[i].params /\ results[i].params[parameter] = v}
TestedValues(results, parameter) ==
    {results[i].params[parameter] : i \in {k \in DOMAIN results : parameter \in DOMAIN results[k].params}}
AverageOf(results, parameter, metric, v) ==
    LET S == With(results, parameter, v)
    IN [sum |-> MapThenSumSet(LAMBDA i : MetricOf(results[i], metric), S), of |-> Cardinality(S)]

BestValue(results, parameter, metric) ==
    LET avg(v) == AverageOf(results, parameter, metric, v)
        beats(v, w) == Outdoes(metric, avg(v).sum * avg(w).of, avg(w).sum * avg(v).of)
        first(v) == Min(With(results, parameter, v))
        best == {v \in TestedValues(results, parameter) :
                    \A w \in TestedValues(results, parameter) : ~beats(w, v)}
    IN CHOOSE v \in best : \A w \in best : first(v) <= first(w)

BestParameters(results, metric) == results[RankedBy(results, metric)[1]].params

Summary(results, metric) ==
    LET values == {MetricOf(results[i], metric) : i \in DOMAIN results}
    IN [min |-> Min(values), max |-> Max(values),
        sum |-> MapThenSumSet(LAMBDA i : MetricOf(results[i], metric), DOMAIN results)]
=============================================================================
