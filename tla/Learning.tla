------------------------------ MODULE Learning -------------------------------
(***************************************************************************)
(* What the agents learn besides their memory: the catalog of strategies   *)
(* (keryxflow/agent/strategy.py), those a model designs (strategy_gen.py)  *)
(* and the reflections on past trades (reflection.py).                     *)
(*                                                                         *)
(* A strategy is an object; the catalog maps ids to objects, and an id may *)
(* be registered again while its old object is still the current one.      *)
(* Names, prompts and parameters are left out; suitabilities and scores    *)
(* are in percent, changes of prices in per mille.  A strategy is never    *)
(* deactivated by the program, so select_strategy() always has one.        *)
(***************************************************************************)
EXTENDS Integers, Sequences, FiniteSets, FiniteSetsExt, SequencesExt

CONSTANTS
    Defaults,      \* DEFAULT_STRATEGIES, a sequence of objects
    Proposals,     \* what a model answers: records, or JSON that is no object
    PriceCharts,   \* what detect_market_regime() computes of its prices
    ProvenTrades,  \* trades before performance counts: 10
    AiEnabled,     \* ai_mode is not "disabled", and there is an API key
    MaxObjects,    \* bound: objects made
    MaxResults,    \* bound: trades recorded for an object
    MaxTries       \* bound: generations that fail, and reflections

Regimes == {"trending_up", "trending_down", "ranging", "high_volatility", "low_volatility",
            "breakout", "unknown"}
Types == {"trend_following", "mean_reversion", "breakout", "scalping", "swing", "momentum", "grid"}

NewObject(id, suits) == [id |-> id, suits |-> suits, trades |-> 0, wins |-> 0, gain |-> 0]

(* Each default has an id of its own, and percentages; an answer whose      *)
(* score is no number raises: it is one of the generations that fail.       *)
Percentages(suits) == DOMAIN suits \subseteq Regimes /\ \A r \in DOMAIN suits : suits[r] \in 0 .. 100

ASSUME LearningAssumption ==
    /\ Defaults \in Seq(Range(Defaults)) /\ Len(Defaults) > 0
    /\ \A k \in DOMAIN Defaults :
          /\ Defaults[k] = NewObject(Defaults[k].id, Defaults[k].suits)
          /\ Percentages(Defaults[k].suits)
          /\ \A l \in DOMAIN Defaults : Defaults[k].id = Defaults[l].id => k = l
    /\ \A p \in Proposals :
          "suits" \in DOMAIN p => \A r \in DOMAIN p.suits : p.suits[r] \in Int
    /\ AiEnabled \in BOOLEAN
    /\ ProvenTrades \in Nat \ {0} /\ MaxObjects \in Nat /\ MaxResults \in Nat
    /\ MaxTries \in Nat

VARIABLES
    objects,     \* every strategy object made, oldest first
    catalog,     \* _strategies: the objects, in the order of their ids' first registration
    chosen,     \* _current_strategy, or 0
    regime,      \* _current_regime
    generated,   \* the generator's statistics
    reflections  \* how often each kind of reflection was tried

learningVars == <<objects, catalog, chosen, regime, generated, reflections>>

Kinds == {"post_mortem", "daily", "weekly"}

LearningInit ==
    /\ objects = Defaults
    /\ catalog = [k \in DOMAIN Defaults |-> k]
    /\ chosen = 0 /\ regime = "unknown"
    /\ generated = [total |-> 0, ok |-> 0, failed |-> 0]
    /\ reflections = [k \in Kinds |-> 0]

-----------------------------------------------------------------------------
(* A chart: n prices, their change and range, the gap of the averages, and  *)
(* the ranges of the last five prices and of the fifteen before.            *)
DetectRegime(c) ==
    CASE c.n < 20 -> "unknown"
      [] c.change > 50 -> "trending_up"
      [] c.change < -50 -> "trending_down"
      [] c.range > 100 -> "high_volatility"
      [] c.range < 30 -> "low_volatility"
      [] c.gap > -10 /\ c.gap < 10 -> "ranging"
      [] c.older > 0 /\ c.recent > 2 * c.older -> "breakout"
      [] OTHER -> "unknown"

Bounded(x) == IF x < 0 THEN 0 ELSE IF x > 100 THEN 100 ELSE x
Suits(o, r) == IF r \in DOMAIN o.suits THEN o.suits[r] ELSE 50

Performance(o) ==
    IF o.trades < ProvenTrades THEN 0
    ELSE (IF 10 * o.wins > 6 * o.trades THEN 10 ELSE IF 10 * o.wins < 4 * o.trades THEN -10 ELSE 0)
         + (IF o.gain > 0 THEN 5 ELSE 0)

ScoreOf(o, r) == Bounded(Suits(o, r) + Performance(o))

(* The first of the best; the sort is stable.                               *)
BestFor(r) ==
    LET score(k) == ScoreOf(objects[catalog[k]], r)
        top == Max({score(k) : k \in DOMAIN catalog})
    IN catalog[Min({k \in DOMAIN catalog : score(k) = top})]

SelectStrategy ==
    /\ \E c \in PriceCharts : regime' = DetectRegime(c)
    /\ chosen' = BestFor(regime')
    /\ UNCHANGED <<objects, catalog, generated, reflections>>

(* Results go by id, to the object the catalog has now.                     *)
RecordResult ==
    \E k \in DOMAIN catalog, pct \in {-1, 1} :
        LET o == catalog[k]
        IN /\ objects[o].trades < MaxResults
           /\ objects' = [objects EXCEPT ![o].trades = @ + 1, ![o].gain = @ + pct,
                                         ![o].wins = @ + (IF pct > 0 THEN 1 ELSE 0)]
           /\ UNCHANGED <<catalog, chosen, regime, generated, reflections>>

-----------------------------------------------------------------------------
(* register_strategy(): an id keeps its place, and loses its old object.    *)
PlaceOf(id) == {k \in DOMAIN catalog : objects[catalog[k]].id = id}

Registered(id) ==
    catalog' = IF PlaceOf(id) = {} THEN Append(catalog, Len(objects) + 1)
               ELSE [catalog EXCEPT ![CHOOSE k \in PlaceOf(id) : TRUE] = Len(objects) + 1]

(* _validate_and_build(): an unknown type refuses the answer, an unknown    *)
(* regime is skipped, and a score is brought within its bounds.             *)
Valid(p) == {"id", "name", "strategy_type", "description"} \subseteq DOMAIN p /\ p.strategy_type \in Types

Built(p) ==
    LET given == IF "suits" \in DOMAIN p THEN p.suits ELSE <<>>
    IN NewObject(p.id, [r \in DOMAIN given \cap Regimes |-> Bounded(given[r])])

(* Without AI it raises before anything is counted; the model may fail.     *)
GenerateSucceeds ==
    /\ AiEnabled /\ Len(objects) < MaxObjects
    /\ \E p \in Proposals :
          /\ Valid(p)
          /\ objects' = Append(objects, Built(p)) /\ Registered(p.id)
    /\ generated' = [generated EXCEPT !.total = @ + 1, !.ok = @ + 1]
    /\ UNCHANGED <<chosen, regime, reflections>>

GenerateFails ==
    /\ AiEnabled /\ generated.failed < MaxTries
    /\ generated' = [generated EXCEPT !.total = @ + 1, !.failed = @ + 1]
    /\ UNCHANGED <<objects, catalog, chosen, regime, reflections>>

-----------------------------------------------------------------------------
(* A post-mortem of a closed episode asks the model or analyses it plainly, *)
(* then stores it with a keyword record_lessons() does not have; a daily or *)
(* weekly reflection calls a method the episodic memory does not have.      *)
(* Each raises: nothing is stored and nothing is counted.                   *)
Raises(kind) ==
    /\ reflections["post_mortem"] + reflections["daily"] + reflections["weekly"] < MaxTries
    /\ reflections' = [reflections EXCEPT ![kind] = @ + 1]
    /\ UNCHANGED <<objects, catalog, chosen, regime, generated>>

PostMortem == Raises("post_mortem")
DailyReflection == Raises("daily")
WeeklyReflection == Raises("weekly")

LearningNext ==
    \/ SelectStrategy \/ RecordResult \/ GenerateSucceeds \/ GenerateFails
    \/ PostMortem \/ DailyReflection \/ WeeklyReflection

LearningSpec == LearningInit /\ [][LearningNext]_learningVars

-----------------------------------------------------------------------------
(* A suitability is a percentage whatever the model answered, an id is in   *)
(* the catalog once, and every generation counted ended.                    *)
LearningTypeOK ==
    /\ \A i \in DOMAIN objects :
          /\ objects[i].wins <= objects[i].trades /\ objects[i].trades <= MaxResults
          /\ Percentages(objects[i].suits)
    /\ \A k, l \in DOMAIN catalog : objects[catalog[k]].id = objects[catalog[l]].id => k = l
    /\ chosen \in {0} \cup DOMAIN objects /\ regime \in Regimes
    /\ generated.total = generated.ok + generated.failed
    /\ reflections \in [Kinds -> 0 .. MaxTries]
=============================================================================
