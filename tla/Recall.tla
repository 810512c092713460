------------------------------- MODULE Recall -------------------------------
(***************************************************************************)
(* What the memory answers when it is asked: the past trades that look     *)
(* alike (keryxflow/memory/episodic.py), the rules and patterns that apply *)
(* (memory/semantic.py), and how all of it moves the confidence of a       *)
(* decision (memory/manager.py).  Scores and shares are in per mille or,   *)
(* where named Pct, in percent.  A row is known by its place in its table, *)
(* episodes in the order of their entry; a technical context is a function *)
(* on the names of some readings.  A list nobody reads the order of is the *)
(* set of its members.                                                      *)
(***************************************************************************)
EXTENDS Integers, FiniteSets, FiniteSetsExt

CONSTANTS
    RecentRows,     \* rows recall_similar() looks at: 100
    RecentTrades    \* trades before recent performance counts: 10

ASSUME RecallAssumption == RecentRows \in Nat \ {0} /\ RecentTrades \in Nat \ {0}

MinSimilarity == 300
AnySymbol == "any"

Top(S, Before(_, _), n) == {x \in S : Cardinality({y \in S : Before(y, x)}) < n}

-----------------------------------------------------------------------------
(* An episode: symbol, outcome, tech, mood, lessons, age in days.           *)
RsiZone(v) ==
    CASE v >= 70 -> "overbought" [] v <= 30 -> "oversold" [] v >= 50 -> "bullish" [] OTHER -> "bearish"

ComparedKeys == {"rsi", "trend", "macd_signal", "bb_position"}
Alike(k, now, past) == IF k = "rsi" THEN RsiZone(now[k]) = RsiZone(past[k]) ELSE now[k] = past[k]

TechScore(now, past) ==
    LET shared == ComparedKeys \cap DOMAIN now \cap DOMAIN past
    IN IF shared = {} THEN 0
       ELSE (500 * Cardinality({k \in shared : Alike(k, now, past)})) \div Cardinality(shared)

MoodScore(now, past) == IF now # "none" /\ now = past THEN 300 ELSE 0
OutcomeScore(e) == IF e.outcome = "win" \/ e.lessons THEN 100 ELSE 0

Similarity(e, q) == TechScore(q.tech, e.tech) + MoodScore(q.mood, e.mood) + OutcomeScore(e)

EndedTrades(episodes, symbol, days) ==
    {i \in DOMAIN episodes : /\ episodes[i].outcome # "open" /\ episodes[i].age <= days
                             /\ symbol \in {AnySymbol, episodes[i].symbol}}

Recalled(episodes, q) ==
    LET recent == Top(EndedTrades(episodes, q.symbol, 90), LAMBDA i, j : i > j, RecentRows)
        score(i) == Similarity(episodes[i], q)
    IN Top({i \in recent : score(i) >= MinSimilarity},
           LAMBDA i, j : score(i) > score(j) \/ (score(i) = score(j) /\ i > j), q.limit)

EpisodeStats(episodes, symbol) ==
    LET all == EndedTrades(episodes, symbol, 30)
        wins == {i \in all : episodes[i].outcome = "win"}
    IN [total |-> Cardinality(all), wins |-> Cardinality(wins), losses |-> Cardinality(all \ wins),
        lessons |-> Cardinality({i \in all : episodes[i].lessons})]

-----------------------------------------------------------------------------
(* A rule: active, priority, symbols, conditions and frames (each {} when   *)
(* it names none), successPct, confidencePct, applied.                      *)
ActiveRules(rules, symbol) ==
    {i \in DOMAIN rules : /\ rules[i].active
                          /\ symbol = AnySymbol \/ rules[i].symbols = {} \/ symbol \in rules[i].symbols}

RelevancePct(r, mood, frame) ==
    LET tenths == 10 + (IF mood \in r.conditions THEN 2 ELSE 0) + (IF frame \in r.frames THEN 1 ELSE 0)
    IN Min({100, (tenths * (100 + r.successPct) * r.confidencePct) \div 2000})

RuleBefore(rules, q, i, j) ==
    LET rel(k) == RelevancePct(rules[k], q.mood, q.frame)
        first(k, l) == rules[k].priority > rules[l].priority \/ (rules[k].priority = rules[l].priority /\ k < l)
    IN rel(i) > rel(j) \/ (rel(i) = rel(j) /\ first(i, j))

RuleStats(rules) ==
    [total |-> Cardinality(DOMAIN rules), active |-> Cardinality(ActiveRules(rules, AnySymbol)),
     applied |-> Cardinality({i \in DOMAIN rules : rules[i].applied > 0})]

-----------------------------------------------------------------------------
(* A pattern: criteria, a function from names of readings to a value        *)
(* [is |-> v] or a range; confidencePct, validated, winPct.  A range needs  *)
(* both its ends, and `equals' is tried only when `min' did not hold.       *)
Satisfies(want, actual) ==
    IF "is" \in DOMAIN want THEN actual = want.is
    ELSE IF "min" \in DOMAIN want /\ actual >= want.min THEN "max" \in DOMAIN want /\ actual <= want.max
    ELSE "equals" \in DOMAIN want /\ actual = want.equals

Tried(p, tech) == DOMAIN p.criteria \cap DOMAIN tech
Met(p, tech) == {k \in Tried(p, tech) : Satisfies(p.criteria[k], tech[k])}

Matching(patterns, tech) ==
    {i \in DOMAIN patterns : 10 * Cardinality(Met(patterns[i], tech)) > 3 * Cardinality(Tried(patterns[i], tech))}

MatchPct(p, tech) ==
    Min({100, (Cardinality(Met(p, tech)) * p.confidencePct * (IF p.validated THEN 12 ELSE 10))
              \div (10 * Cardinality(Tried(p, tech)))})

PatternBefore(patterns, tech, i, j) ==
    LET pct(k) == MatchPct(patterns[k], tech)
    IN pct(i) > pct(j) \/ (pct(i) = pct(j) /\ i < j)

PatternStats(patterns) ==
    [total |-> Cardinality(DOMAIN patterns),
     validated |-> Cardinality({i \in DOMAIN patterns : patterns[i].validated})]

-----------------------------------------------------------------------------
(* build_context_for_decision().  A trade that was stopped out is a loss    *)
(* for the win rate, but not among the similar trades.                      *)
Clamped(x) == IF x > 300 THEN 300 ELSE IF x < -300 THEN -300 ELSE x

TradesAdjust(episodes, recalled) ==
    LET ended(o) == Cardinality({i \in recalled : episodes[i].outcome = o})
    IN 100 * (ended("win") - ended("loss"))

RulesAdjust(rules, q) ==
    LET first == Top(ActiveRules(rules, q.symbol), LAMBDA i, j : RuleBefore(rules, q, i, j), 3)
    IN 50 * Cardinality({i \in first : rules[i].successPct > 60 /\ rules[i].applied >= 5})

PatternsAdjust(patterns, q) ==
    LET first == Top(Matching(patterns, q.tech), LAMBDA i, j : PatternBefore(patterns, q.tech, i, j), 3)
        good == {i \in first : patterns[i].validated /\ patterns[i].winPct > 50}
    IN MapThenSumSet(LAMBDA i : MatchPct(patterns[i], q.tech) \div 2, good)

RecordAdjust(stats) ==
    CASE stats.total >= RecentTrades /\ 10 * stats.wins > 6 * stats.total -> 100
      [] stats.total >= RecentTrades /\ 10 * stats.wins < 4 * stats.total -> -100
      [] OTHER -> 0

Adjustment(episodes, rules, patterns, q) ==
    Clamped(TradesAdjust(episodes, Recalled(episodes, q)) + RulesAdjust(rules, q)
            + PatternsAdjust(patterns, q) + RecordAdjust(EpisodeStats(episodes, q.symbol)))

Advice(adjustment) ==
    IF adjustment > 100 THEN "more" ELSE IF adjustment < -100 THEN "caution" ELSE "none"

MemoryContext(episodes, rules, patterns, q) ==
    [trades |-> Recalled(episodes, q), rules |-> ActiveRules(rules, q.symbol),
     patterns |-> Matching(patterns, q.tech),
     stats |-> <<EpisodeStats(episodes, q.symbol), RuleStats(rules), PatternStats(patterns)>>,
     adjustment |-> Adjustment(episodes, rules, patterns, q)]
=============================================================================
