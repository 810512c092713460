------------------------------ MODULE MCPlatform -----------------------------
(***************************************************************************)
(* Instances for TLC of the components of which none shares a variable     *)
(* with another: trailing stops, the agent's orders, the circuit breaker,  *)
(* the scheduler, the agents' cycles, the trades' memory, candles, signals,*)
(* outbound events, the backtester, the optimizer, the grid, live mode,    *)
(* the agent's tools and what they recall, news, learning.                 *)
(*                                                                         *)
(* A behaviour exercises the component `focus' names; the others keep      *)
(* their initial state.  So the reachable states are the sum of those of   *)
(* the components, not their product, and one run checks them all.         *)
(***************************************************************************)
EXTENDS TrailingStops, AgentOrders, CircuitBreaker, Scheduler, AgentCycles,
        TradeMemory, Candles, Signals, Outbound, Backtest, Tuning, GridBot,
        LiveMode, AgentTools, News, Learning, History, Analysis

CONSTANTS
    btc,                \* a market
    t1, t2, c1, c2, e1, \* tickets, walks over the pending orders, a close
    taskA, taskB, user, \* scheduled tasks, and a caller
    solo, pilot, team,  \* cognitive agents, and a team
    o1, k1, k2, k3,     \* a filled order, and closers of positions
    ws,                 \* a WebSocket client
    r1, r2,             \* readers of news
    onPrice, preloader, \* coroutines that send live orders
    telegram, discord   \* notification services

VARIABLE focus

platformVars == <<focus, trailingVars, ordersVars, breakerVars, schedVars, cycleVars,
                  memoryVars, candleVars, signalVars, outboundVars, backtestVars,
                  tuningVars, gridVars, liveVars, toolsVars, newsVars, learningVars>>

-----------------------------------------------------------------------------
MCMonths == <<2, 1>>
Plan(freq, day, at) == [freq |-> freq, day |-> day, at |-> at]
MCPlans == {Plan("once", 0, 0), Plan("daily", 0, 1), Plan("hourly", 0, 0), Plan("weekly", 1, 1),
            Plan("monthly", 1, 1), Plan("monthly", 2, 0)}

MCReturns == {-20, 10}
MCServices == <<telegram, discord>>

(* A chart that every indicator calls rising, and one they call falling.    *)
Up == [rsi |-> 50, macd |-> <<-1, 2, 5>>, bands |-> 80, obv |-> <<1, 6>>,
       atr |-> <<100, 20>>, price |-> 9, ema |-> <<8, 7, 6>>]
Down == [rsi |-> 50, macd |-> <<1, -2, -5>>, bands |-> 20, obv |-> <<-1, -6>>,
         atr |-> <<100, 20>>, price |-> 5, ema |-> <<6, 7, 8>>]
MCCharts == {Up, Down}
MCAnswers == {Context("bullish", "strong_buy", 900), Context("bearish", "strong_sell", 900)}

MCPairs == <<"btc", "eth">>
MCBars == {[high |-> 101, low |-> 99, close |-> 100], [high |-> 105, low |-> 97, close |-> 103]}
MCGrid == <<"p", "q">>

MCRules ==
    {[active |-> TRUE, priority |-> 1, symbols |-> {}, conditions |-> {}, frames |-> {},
      successPct |-> 70, confidencePct |-> 50, applied |-> 5]}
MCPatterns ==
    {[criteria |-> [rsi |-> [min |-> 20, max |-> 30]], confidencePct |-> 90, validated |-> TRUE,
      winPct |-> 60]}

MCStories ==
    {[source |-> "rss", coins |-> {"btc"}, mood |-> "unknown", dated |-> TRUE],
     [source |-> "rss", coins |-> {}, mood |-> "unknown", dated |-> FALSE],
     [source |-> "cryptopanic", coins |-> {"btc"}, mood |-> VotesMood(3, 1), dated |-> TRUE]}

MCDefaults ==
    <<NewObject("trend", [r \in {"trending_up", "breakout"} |-> IF r = "trending_up" THEN 95 ELSE 60]),
      NewObject("grid", [r \in {"ranging", "trending_up"} |-> IF r = "ranging" THEN 95 ELSE 30])>>
Proposal(id, type, suits) ==
    [id |-> id, name |-> "n", strategy_type |-> type, description |-> "d", suits |-> suits]
MCProposals ==
    {Proposal("trend", "swing", [r \in {"ranging", "sideways"} |-> 120]), [id |-> "new"],
     Proposal("new", "arbitrage", <<>>), Proposal("new", "momentum", [r \in {"trending_up"} |-> -5])}
PriceChart(n, change, range) ==
    [n |-> n, change |-> change, range |-> range, gap |-> 0, older |-> 10, recent |-> 30]
MCPriceCharts == {PriceChart(10, 0, 0), PriceChart(30, 60, 80), PriceChart(30, 0, 50)}

-----------------------------------------------------------------------------
(* The pure algorithms against a reference definition, on bounded inputs.   *)
Curves == UNION {[1 .. n -> {-1, 0, 2, 3}] : n \in 1 .. 4}
Runs(S) == {J \in SUBSET S : \A i, j \in J : i .. j \subseteq J}

(* calculate_drawdown() keeps one peak as it goes: its worst drawdown is    *)
(* the worst fall between any two points, the longest the longest stretch   *)
(* of points each of which is below an earlier one (quant.py:324).          *)
ASSUME DrawdownIsWorstFall ==
    \A s \in Curves :
        LET falls == {Drop(s[ij[1]], s[ij[2]]) : ij \in {p \in (DOMAIN s) \X (DOMAIN s) : p[1] <= p[2]}}
            under == {j \in DOMAIN s : \E i \in 1 .. j : s[i] > s[j]}
        IN /\ DrawdownOf(s).worst = Max({0} \cup falls)
           /\ DrawdownOf(s).longest = Max({Cardinality(J) : J \in Runs(under)})

(* A size risks no more than it may, and one unit more would (quant.py:58); *)
(* Kelly stakes only on a game worth playing (quant.py:128, 485).           *)
ASSUME SizesRiskWhatTheyMay ==
    /\ \A entry, stop \in 1 .. 4, pct \in {0, 1, 50} :
          Sizes(entry, stop) =>
              LET size == SizeOf(10, entry, stop, pct)
              IN /\ size.quantity * Distance(entry, stop) <= size.risk
                 /\ (size.quantity + 1) * Distance(entry, stop) > size.risk
    /\ \A rate \in {0, 20, 50, 51, 90, 100}, win, loss \in 0 .. 3 :
          KellyDefined(rate, win, loss) /\ Kelly(rate, win, loss) > 0 => Expectancy(rate, win, loss) > 0

(* Candles of one range and no gap between them have that range for their   *)
(* ATR; stops lie on opposite sides of the entry (quant.py:182, 242).       *)
Flat(n, range) == [i \in 1 .. n |-> [high |-> 10 + range, low |-> 10, close |-> 10]]
ASSUME AtrOfFlatCandles ==
    \A n \in 3 .. 4, range \in 0 .. 2 :
        /\ AtrDefined(Flat(n, range), 2)
        /\ AtrStop(Flat(n, range), 10, "buy", 3, 2) = 2 * (10 - 3 * range)
        /\ AtrStop(Flat(n, range), 10, "sell", 3, 2) = 2 * (10 + 3 * range)

(* The break-even rate is where expectation turns: at it a trade is not     *)
(* worth playing yet, a percent above it is; a reward less than the risk    *)
(* wants more than half (quant.py:264, 485).  The ratios of one curve never *)
(* disagree on their sign, and stops of one percentage lie evenly about the *)
(* entry (quant.py:242, 366, 402).                                          *)
ASSUME RatiosAgree ==
    /\ \A entry, stop, target \in 1 .. 6 :
          RewardDefined(entry, stop, 1) =>
              LET of == RewardOf(entry, stop, target)
                  profit == Distance(target, entry)
                  loss == Distance(entry, stop)
              IN /\ Expectancy(of.breakeven, profit, loss) <= 0
                 /\ Expectancy(of.breakeven + 1, profit, loss) > 0
                 /\ of.favorable = (of.ratio >= 100)
                 /\ of.breakeven > 50 => ~of.favorable
    /\ \A s \in Curves : 0 \notin {SharpeSign(s), SortinoSign(s)} => SharpeSign(s) = SortinoSign(s)
    /\ \A entry \in 1 .. 4, pct \in {0, 5, 100} :
          FixedStop(entry, "buy", pct) + FixedStop(entry, "sell", pct) = 200 * entry

(* recall_similar() answers, of the newest rows that ended, as many as it   *)
(* may of those alike enough, none of them less alike than one left out     *)
(* (episodic.py:234), though it scores and sorts row by row.                *)
Episode(result, tech, lessons) ==
    [symbol |-> Symbol, outcome |-> result, tech |-> tech, mood |-> "none", lessons |-> lessons, age |-> 0]
SomeEpisodes ==
    {Episode("open", [rsi |-> 25], FALSE), Episode("win", EngineTech, FALSE),
     Episode("loss", [rsi |-> 20, trend |-> "up"], TRUE), Episode("loss", [rsi |-> 29], FALSE)}
ASSUME RecalledAreMostAlike ==
    \A es \in UNION {[1 .. n -> SomeEpisodes] : n \in 0 .. 3},
      q \in {[Asked([rsi |-> 25, trend |-> "up"]) EXCEPT !.limit = n] : n \in 0 .. 2} :
        LET ended == {i \in DOMAIN es : es[i].outcome # "open"}
            looked == {i \in ended : Cardinality({j \in ended : j >= i}) <= RecentRows}
            alike == {i \in looked : Similarity(es[i], q) >= MinSimilarity}
            found == Recalled(es, q)
        IN /\ found \subseteq alike
           /\ Cardinality(found) = Min({q.limit, Cardinality(alike)})
           /\ \A i \in found, j \in alike \ found : Similarity(es[i], q) >= Similarity(es[j], q)

(* Loading page by page loads every candle of the range, and twice each of  *)
(* those a next page begins at, every PageSize - 1 candles (data.py:65).    *)
ASSUME PagesOverlapByOne ==
    \A candles \in SUBSET (1 .. 6), start \in 1 .. 2, end \in 4 .. 6, t \in 1 .. 6 :
        LET times == LoadedTimes(candles, start, end)
            place == Cardinality({u \in candles : start <= u /\ u < t})
            reopened == place > 0 /\ place % (PageSize - 1) = 0 /\ t < end
        IN Cardinality({i \in DOMAIN times : times[i] = t}) =
               IF t \notin candles \/ t < start \/ t > end THEN 0 ELSE IF reopened THEN 2 ELSE 1

(* Resampling in two steps is resampling in one, and no volume is lost:     *)
(* "ensures data consistency" (data.py:176, 244).                           *)
SomeBars ==
    {SelectSeq([i \in 1 .. 8 |-> [at |-> i - 1, open |-> a[i % 3], close |-> a[(i + 1) % 3],
                                  high |-> 3, low |-> a[i % 2], volume |-> i]],
               LAMBDA b : b.at \notin gone) : a \in [0 .. 2 -> 1 .. 2], gone \in SUBSET {0, 2, 3, 5}}
ASSUME ResamplingComposes ==
    \A bars \in SomeBars :
        LET all(s) == FoldSeq(LAMBDA b, sum : sum + b.volume, 0, s)
        IN /\ Resampled(Resampled(bars, 2), 4) = Resampled(bars, 4)
           /\ all(Resampled(bars, 4)) = all(bars)
           /\ MultiTimeframe(bars, {1, 2})[1] = bars

(* The simulations' curves are what they are called when both passes draw   *)
(* the same, and percentiles keep their order; without a seed the "worst"   *)
(* curve may end above the "best" (monte_carlo.py:151, 180).                *)
Draws == [1 .. 2 -> 1 .. 2]
MCProfits == <<-3, 5>>
ASSUME CurvesAreSeeded ==
    /\ \A a, b, c \in Draws :
          LET of == MonteCarlo(4, MCProfits, <<a, b, c>>, <<a, b, c>>)
              ends == Range(Ends(4, MCProfits, <<a, b, c>>))
          IN /\ EndOf(of.worst) = Min(ends) /\ EndOf(of.best) = Max(ends)
             /\ 1000 * EndOf(of.median) = of.equity[500]
             /\ \A p, q \in DOMAIN of.equity : p <= q =>
                    of.equity[p] <= of.equity[q] /\ of.drawdown[p] <= of.drawdown[q]
    /\ \E a, b \in Draws :
          LET of == MonteCarlo(4, MCProfits, <<a, b>>, <<b, a>>)
          IN EndOf(of.worst) > EndOf(of.best)

(* The best parameters are those of a result no other beats; when no value  *)
(* of a parameter was tested twice, the value that is best on average is    *)
(* theirs (comparator.py:47, 142, 256).                                     *)
Tested(xs, ys) == [i \in DOMAIN xs |-> [params |-> [p |-> xs[i]],
                                        metrics |-> [sharpe_ratio |-> ys[i], max_drawdown |-> -ys[i]]]]
ASSUME BestIsUnbeaten ==
    \A xs, ys \in [1 .. 3 -> 1 .. 3], metric \in {"sharpe_ratio", "max_drawdown"} :
        LET rs == Tested(xs, ys)
            best == RankedBy(rs, metric)[1]
        IN /\ ys[best] = Max(Range(ys)) /\ BestParameters(rs, metric).p = xs[best]
           /\ Summary(rs, "sharpe_ratio").max = ys[best]
           /\ Cardinality(Range(xs)) = 3 => BestValue(rs, "p", metric) = xs[best]
           /\ FilterBy(rs, [sharpe_ratio |-> ys[best] + 1]) = <<>>
           /\ TopN(rs, 1, metric) \o BottomN(rs, 2, metric) = RankedBy(rs, metric)

-----------------------------------------------------------------------------
Components == {"trailing", "orders", "breaker", "scheduler", "cycles", "memory",
               "candles", "signals", "outbound", "backtest", "tuning", "grid", "live",
               "tools", "news", "learning"}

(* The exchange's account and the mode are the initial values that vary.    *)
PlatformInit ==
    /\ focus \in Components
    /\ LiveInit /\ (focus # "live" => usdt = 1)
    /\ TrailingInit /\ OrdersInit /\ BreakerInit /\ SchedInit /\ CyclesInit
    /\ MemoryInit /\ CandlesInit /\ SignalsInit /\ OutboundInit /\ BacktestInit
    /\ TuningInit /\ GridInit
    /\ ToolsInit /\ (focus # "tools" => paper)
    /\ NewsInit /\ LearningInit

TrailingTurn ==
    /\ focus = "trailing" /\ TrailingNext
    /\ UNCHANGED <<focus, ordersVars, breakerVars, schedVars,
                   cycleVars, memoryVars, candleVars, signalVars,
                   outboundVars, backtestVars, tuningVars, gridVars,
                   liveVars,
                   toolsVars, newsVars, learningVars>>

OrdersTurn ==
    /\ focus = "orders" /\ OrdersNext
    /\ UNCHANGED <<focus, trailingVars, breakerVars, schedVars,
                   cycleVars, memoryVars, candleVars, signalVars,
                   outboundVars, backtestVars, tuningVars, gridVars,
                   liveVars,
                   toolsVars, newsVars, learningVars>>

BreakerTurn ==
    /\ focus = "breaker" /\ BreakerNext
    /\ UNCHANGED <<focus, trailingVars, ordersVars, schedVars,
                   cycleVars, memoryVars, candleVars, signalVars,
                   outboundVars, backtestVars, tuningVars, gridVars,
                   liveVars,
                   toolsVars, newsVars, learningVars>>

SchedTurn ==
    /\ focus = "scheduler" /\ SchedNext
    /\ UNCHANGED <<focus, trailingVars, ordersVars, breakerVars,
                   cycleVars, memoryVars, candleVars, signalVars,
                   outboundVars, backtestVars, tuningVars, gridVars,
                   liveVars,
                   toolsVars, newsVars, learningVars>>

CyclesTurn ==
    /\ focus = "cycles" /\ CyclesNext
    /\ UNCHANGED <<focus, trailingVars, ordersVars, breakerVars,
                   schedVars, memoryVars, candleVars, signalVars,
                   outboundVars, backtestVars, tuningVars, gridVars,
                   liveVars,
                   toolsVars, newsVars, learningVars>>

MemoryTurn ==
    /\ focus = "memory" /\ MemoryNext
    /\ UNCHANGED <<focus, trailingVars, ordersVars, breakerVars,
                   schedVars, cycleVars, candleVars, signalVars,
                   outboundVars, backtestVars, tuningVars, gridVars,
                   liveVars,
                   toolsVars, newsVars, learningVars>>

CandlesTurn ==
    /\ focus = "candles" /\ CandlesNext
    /\ UNCHANGED <<focus, trailingVars, ordersVars, breakerVars,
                   schedVars, cycleVars, memoryVars, signalVars,
                   outboundVars, backtestVars, tuningVars, gridVars,
                   liveVars,
                   toolsVars, newsVars, learningVars>>

SignalsTurn ==
    /\ focus = "signals" /\ SignalsNext
    /\ UNCHANGED <<focus, trailingVars, ordersVars, breakerVars,
                   schedVars, cycleVars, memoryVars, candleVars,
                   outboundVars, backtestVars, tuningVars, gridVars,
                   liveVars,
                   toolsVars, newsVars, learningVars>>

OutboundTurn ==
    /\ focus = "outbound" /\ OutboundNext
    /\ UNCHANGED <<focus, trailingVars, ordersVars, breakerVars,
                   schedVars, cycleVars, memoryVars, candleVars,
                   signalVars, backtestVars, tuningVars, gridVars,
                   liveVars,
                   toolsVars, newsVars, learningVars>>

BacktestTurn ==
    /\ focus = "backtest" /\ BacktestNext
    /\ UNCHANGED <<focus, trailingVars, ordersVars, breakerVars,
                   schedVars, cycleVars, memoryVars, candleVars,
                   signalVars, outboundVars, tuningVars, gridVars,
                   liveVars,
                   toolsVars, newsVars, learningVars>>

TuningTurn ==
    /\ focus = "tuning" /\ TuningNext
    /\ UNCHANGED <<focus, trailingVars, ordersVars, breakerVars,
                   schedVars, cycleVars, memoryVars, candleVars,
                   signalVars, outboundVars, backtestVars, gridVars,
                   liveVars,
                   toolsVars, newsVars, learningVars>>

GridTurn ==
    /\ focus = "grid" /\ GridNext
    /\ UNCHANGED <<focus, trailingVars, ordersVars, breakerVars,
                   schedVars, cycleVars, memoryVars, candleVars,
                   signalVars, outboundVars, backtestVars,
                   tuningVars, liveVars,
                   toolsVars, newsVars, learningVars>>

LiveTurn ==
    /\ focus = "live" /\ LiveNext
    /\ UNCHANGED <<focus, trailingVars, ordersVars, breakerVars,
                   schedVars, cycleVars, memoryVars, candleVars,
                   signalVars, outboundVars, backtestVars,
                   tuningVars, gridVars,
                   toolsVars, newsVars, learningVars>>

ToolsTurn ==
    /\ focus = "tools" /\ ToolsNext
    /\ UNCHANGED <<focus, trailingVars, ordersVars, breakerVars, schedVars,
                   cycleVars, memoryVars, candleVars, signalVars,
                   outboundVars, backtestVars, tuningVars, gridVars,
                   liveVars, newsVars, learningVars>>

NewsTurn ==
    /\ focus = "news" /\ NewsNext
    /\ UNCHANGED <<focus, trailingVars, ordersVars, breakerVars, schedVars,
                   cycleVars, memoryVars, candleVars, signalVars,
                   outboundVars, backtestVars, tuningVars, gridVars,
                   liveVars, toolsVars, learningVars>>

LearningTurn ==
    /\ focus = "learning" /\ LearningNext
    /\ UNCHANGED <<focus, trailingVars, ordersVars, breakerVars, schedVars,
                   cycleVars, memoryVars, candleVars, signalVars,
                   outboundVars, backtestVars, tuningVars, gridVars,
                   liveVars, toolsVars, newsVars>>

PlatformNext ==
    \/ TrailingTurn \/ OrdersTurn \/ BreakerTurn \/ SchedTurn
    \/ CyclesTurn \/ MemoryTurn \/ CandlesTurn \/ SignalsTurn
    \/ OutboundTurn \/ BacktestTurn \/ TuningTurn \/ GridTurn \/ LiveTurn
    \/ ToolsTurn \/ NewsTurn \/ LearningTurn

PlatformSpec == PlatformInit /\ [][PlatformNext]_platformVars

-----------------------------------------------------------------------------
(* The variables of the component in focus keep their types: the bounds of *)
(* queues, counters, walks and tables among them.  The others' variables   *)
(* are as at the start, which is where a behaviour of their own begins.    *)
PlatformTypeOK ==
    /\ focus = "trailing" => TrailingTypeOK
    /\ focus = "orders" => OrdersTypeOK
    /\ focus = "breaker" => BreakerTypeOK
    /\ focus = "scheduler" => SchedTypeOK
    /\ focus = "cycles" => CyclesTypeOK
    /\ focus = "memory" => MemoryTypeOK
    /\ focus = "candles" => CandlesTypeOK
    /\ focus = "signals" => SignalsTypeOK
    /\ focus = "outbound" => OutboundTypeOK
    /\ focus = "backtest" => BacktestTypeOK
    /\ focus = "tuning" => TuningTypeOK
    /\ focus = "grid" => GridTypeOK
    /\ focus = "live" => LiveTypeOK
    /\ focus = "tools" => ToolsTypeOK
    /\ focus = "news" => NewsTypeOK
    /\ focus = "learning" => LearningTypeOK
=============================================================================
