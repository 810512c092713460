---------------------------- MODULE TradeMemory ------------------------------
(***************************************************************************)
(* Episodes of trades: keryxflow/core/engine.py records one when an order  *)
(* is filled and completes it when the trade is over; memory/manager.py    *)
(* then updates the rules and patterns it is told of (episodic.py,         *)
(* semantic.py).  One rule, one pattern; an episode goes by its order.     *)
(*                                                                         *)
(* Every update reads a row, changes some of its attributes and commits    *)
(* those; other coroutines go on in between, so an update may be lost.     *)
(* Averages, confidences and texts are left out.                           *)
(*                                                                         *)
(* In the program only a trailing stop reports an exit, and it passes no   *)
(* rule or pattern; Closers stand for callers of record_trade_exit() that  *)
(* name the order, as the tests do.                                        *)
(***************************************************************************)
EXTENDS Integers, FiniteSets

CONSTANTS
    Filled,           \* ids of filled orders
    Closers,          \* callers of record_trade_exit()
    Returns,          \* pnl percentages, in tenths
    MinOccurrences    \* min_occurrences_for_validity

ASSUME MemoryAssumption ==
    /\ IsFiniteSet(Filled) /\ IsFiniteSet(Closers)
    /\ Returns \subseteq Int /\ MinOccurrences \in Nat \ {0}

VARIABLES
    entered,    \* order -> how far recording its entry is
    outcome,    \* order -> the outcome of its episode's row
    linked,     \* _episode_by_order: orders whose episode is known
    exits,      \* closer -> the exit it records
    rule,       \* the rule's row
    pattern,    \* the pattern's row
    seen,       \* history: <<closer, order, win>> of updates of the pattern begun
    trailed     \* history: orders whose trailing stop closed them and reported it

memoryVars == <<entered, outcome, linked, exits, rule, pattern, seen, trailed>>

NoExit == [stage |-> "idle", order |-> "none", outcome |-> "open", tells |-> FALSE, n |-> 0, wins |-> 0]
NewRule == [n |-> 0, wins |-> 0]
NewPattern == [n |-> 0, wins |-> 0, valid |-> FALSE]

MemoryInit ==
    /\ entered = [o \in Filled |-> "no"]
    /\ outcome = [o \in Filled |-> "open"]
    /\ linked = {} /\ seen = {} /\ trailed = {}
    /\ exits = [c \in Closers |-> NoExit]
    /\ rule = NewRule /\ pattern = NewPattern

-----------------------------------------------------------------------------
(* _record_trade_episode(): the row is inserted, then the order is linked   *)
(* to it; an error is logged, and the trade has no episode.                 *)
EntryStored(o) ==
    /\ entered[o] = "no"
    /\ entered' = [entered EXCEPT ![o] = "stored"]
    /\ UNCHANGED <<outcome, linked, exits, rule, pattern, seen, trailed>>

EntryLinked(o) ==
    /\ entered[o] = "stored"
    /\ entered' = [entered EXCEPT ![o] = "linked"]
    /\ linked' = linked \cup {o}
    /\ UNCHANGED <<outcome, exits, rule, pattern, seen, trailed>>

EntryFails(o) ==
    /\ entered[o] = "no"
    /\ entered' = [entered EXCEPT ![o] = "failed"]
    /\ UNCHANGED <<outcome, linked, exits, rule, pattern, seen, trailed>>

-----------------------------------------------------------------------------
(* TradingEngine.record_trade_exit(): without a link it returns at once.    *)
OutcomeOf(pct) == IF pct > 0 THEN "win" ELSE IF pct < -15 THEN "stopped_out" ELSE "loss"

ExitBegins(c, o, pct, tells) ==
    /\ exits[c] = NoExit /\ o \in linked
    /\ exits' = [exits EXCEPT ![c] = [NoExit EXCEPT !.stage = "episode", !.order = o,
                                                    !.outcome = OutcomeOf(pct), !.tells = tells]]
    /\ UNCHANGED <<entered, outcome, linked, rule, pattern, seen, trailed>>

(* A trailing stop reports its close under the symbol and the entry price,  *)
(* which is not how the order was linked: the report finds no episode.      *)
TrailingExit(o) ==
    /\ entered[o] # "no" /\ o \notin trailed
    /\ trailed' = trailed \cup {o}
    /\ UNCHANGED <<entered, outcome, linked, exits, rule, pattern, seen>>

EpisodeCloses(c) ==
    /\ exits[c].stage = "episode"
    /\ outcome' = [outcome EXCEPT ![exits[c].order] = exits[c].outcome]
    /\ exits' = [exits EXCEPT ![c].stage = IF exits[c].tells THEN "rule" ELSE "unlink"]
    /\ UNCHANGED <<entered, linked, rule, pattern, seen, trailed>>

(* update_rule_performance() and update_pattern_stats(): what was read, and *)
(* one more.  The number of wins is written only when it changed, and a     *)
(* pattern is never made invalid again.  Mutated form of PatternAfter: it   *)
(* is valid one observation early.                                          *)
Wins(c) == exits[c].outcome = "win"
RuleAfter(c) ==
    [rule EXCEPT !.n = exits[c].n + 1, !.wins = IF Wins(c) THEN exits[c].wins + 1 ELSE @]

PatternAfterEarly(c) ==
    [n |-> exits[c].n + 1, wins |-> IF Wins(c) THEN exits[c].wins + 1 ELSE pattern.wins,
     valid |-> pattern.valid \/ exits[c].n + 2 >= MinOccurrences]

PatternAfter(c) ==
    [n |-> exits[c].n + 1, wins |-> IF Wins(c) THEN exits[c].wins + 1 ELSE pattern.wins,
     valid |-> pattern.valid \/ exits[c].n + 1 >= MinOccurrences]

Reads(c, stage, row) ==
    exits' = [exits EXCEPT ![c].stage = stage, ![c].n = row.n, ![c].wins = row.wins]

RuleRead(c) ==
    /\ exits[c].stage = "rule" /\ Reads(c, "ruleWrite", rule)
    /\ UNCHANGED <<entered, outcome, linked, rule, pattern, seen, trailed>>

RuleWritten(c) ==
    /\ exits[c].stage = "ruleWrite"
    /\ rule' = RuleAfter(c)
    /\ exits' = [exits EXCEPT ![c].stage = "pattern"]
    /\ UNCHANGED <<entered, outcome, linked, pattern, seen, trailed>>

PatternRead(c) ==
    /\ exits[c].stage = "pattern" /\ Reads(c, "patternWrite", pattern)
    /\ seen' = seen \cup {<<c, exits[c].order, Wins(c)>>}
    /\ UNCHANGED <<entered, outcome, linked, rule, pattern, trailed>>

PatternWritten(c) ==
    /\ exits[c].stage = "patternWrite"
    /\ pattern' = PatternAfter(c)
    /\ exits' = [exits EXCEPT ![c].stage = "unlink"]
    /\ UNCHANGED <<entered, outcome, linked, rule, seen, trailed>>

(* An error anywhere makes the manager return False, which the engine does  *)
(* not look at: the link is removed all the same.                           *)
ExitFails(c) ==
    /\ exits[c].stage \in {"episode", "rule", "ruleWrite", "pattern", "patternWrite"}
    /\ exits' = [exits EXCEPT ![c].stage = "unlink"]
    /\ UNCHANGED <<entered, outcome, linked, rule, pattern, seen, trailed>>

ExitUnlinks(c) ==
    /\ exits[c].stage = "unlink"
    /\ linked' = linked \ {exits[c].order}
    /\ exits' = [exits EXCEPT ![c] = NoExit]
    /\ UNCHANGED <<entered, outcome, rule, pattern, seen, trailed>>

MemoryNext ==
    \/ \E o \in Filled : EntryStored(o) \/ EntryLinked(o) \/ EntryFails(o) \/ TrailingExit(o)
    \/ \E c \in Closers, o \in Filled, pct \in Returns, tells \in BOOLEAN :
           ExitBegins(c, o, pct, tells)
    \/ \E c \in Closers :
          \/ EpisodeCloses(c) \/ RuleRead(c) \/ RuleWritten(c) \/ PatternRead(c)
          \/ PatternWritten(c) \/ ExitFails(c) \/ ExitUnlinks(c)

MemorySpec == MemoryInit /\ [][MemoryNext]_memoryVars

-----------------------------------------------------------------------------
Outcomes == {"open", "win", "loss", "stopped_out"}
ExitState == [stage : {"idle", "episode", "rule", "ruleWrite", "pattern", "patternWrite", "unlink"},
              order : Filled \cup {"none"}, outcome : Outcomes, tells : BOOLEAN,
              n : Nat, wins : Nat]

MemoryTypeOK ==
    /\ entered \in [Filled -> {"no", "stored", "linked", "failed"}]
    /\ outcome \in [Filled -> Outcomes]
    /\ linked \subseteq Filled /\ trailed \subseteq Filled
    /\ exits \in [Closers -> ExitState]
    /\ rule \in [n : Nat, wins : Nat]
    /\ pattern \in [n : Nat, wins : Nat, valid : BOOLEAN]
    /\ seen \subseteq Closers \X Filled \X BOOLEAN

(* However updates overlap and overwrite each other, the count of a pattern *)
(* and the count of its wins only fall behind: a pattern that is called     *)
(* validated was observed as often as that takes, and no win is invented    *)
(* (semantic.py:473-493).  The count itself may fall below again.           *)
PatternEarnsValidity ==
    /\ pattern.n <= Cardinality(seen)
    /\ pattern.wins <= Cardinality({x \in seen : x[3]})
    /\ pattern.valid => Cardinality(seen) >= MinOccurrences

(* "Record trade exit in memory", says the engine of a trailing stop's      *)
(* close (engine.py:1056): after it the episode has an outcome.             *)
TrailingExitRecorded ==
    \A o \in trailed : entered[o] = "linked" => outcome[o] # "open"
=============================================================================
