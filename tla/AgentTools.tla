----------------------------- MODULE AgentTools ------------------------------
(***************************************************************************)
(* The tools by which an agent looks around (keryxflow/agent/              *)
(* perception_tools.py and analysis_tools.py), the registry they are in    *)
(* (tools.py), and the memory they and the decisions ask (Recall).  Of an  *)
(* answer only its success and its length are kept; what it reads of other *)
(* components, a price, positions or orders, may be there or not.          *)
(*                                                                         *)
(* No exchange adapter has fetch_ticker(), fetch_ohlcv() or                *)
(* fetch_order_book(): a tool that calls one always fails.  The tools that *)
(* place orders are in AgentOrders and Aegis.                              *)
(***************************************************************************)
EXTENDS Recall, Quant

CONSTANTS
    PlacePrices,    \* prices an agent asks about: entries, stops, targets
    SomeRules,      \* rules create_rule() is given, by the callers of the package
    SomePatterns,   \* patterns create_pattern() is given, likewise
    MaxEpisodes,    \* bound: episodes stored
    MaxLessons      \* bound: rules, and patterns

ASSUME ToolsAssumption ==
    PlacePrices \subseteq Nat \ {0} /\ MaxEpisodes \in Nat /\ MaxLessons \in Nat

VARIABLES
    registered,  \* the tools in the registry
    ready,       \* agents that are initialized
    paper,       \* whether the order manager is in paper mode
    episodes, rules, patterns,
    reply,       \* the last answer
    shown        \* history: episodes an answer or a decision's context held

toolsMemory == <<episodes, rules, patterns>>
toolsVars == <<registered, ready, paper, toolsMemory, reply, shown>>

Symbol == "s"
PerceptionTools == {"price", "ohlcv", "book", "portfolio", "balance", "positions", "orders"}
AnalysisTools == {"indicators", "size", "reward", "rules", "recall", "patterns", "stop"}
ExecutionTools == {"place", "close", "setStop", "setTake", "cancel", "closeAll"}
AllTools == PerceptionTools \cup AnalysisTools \cup ExecutionTools

Answer(tool, ok, count) == [tool |-> tool, ok |-> ok, count |-> IF ok THEN count ELSE 0]
NoAnswer == Answer("none", FALSE, 0)

ToolsInit ==
    /\ registered = {} /\ ready = {} /\ paper \in BOOLEAN
    /\ episodes = <<>> /\ rules = <<>> /\ patterns = <<>>
    /\ reply = NoAnswer /\ shown = {}

-----------------------------------------------------------------------------
(* register_all_tools() raises at the first tool that is there already. The *)
(* orchestrator and its agents register only into an empty registry; the    *)
(* cognitive agent does not look, and stays uninitialized when it raises:   *)
(* a session after a cycle of the engine's team cannot start.               *)
TeamInitializes ==
    /\ "team" \notin ready
    /\ registered' = IF registered = {} THEN AllTools ELSE registered
    /\ ready' = ready \cup {"team"}
    /\ UNCHANGED <<paper, toolsMemory, reply, shown>>

SoloInitializes ==
    /\ "solo" \notin ready /\ reply = NoAnswer
    /\ IF registered = {}
       THEN registered' = AllTools /\ ready' = ready \cup {"solo"} /\ UNCHANGED reply
       ELSE reply' = Answer("initialize", FALSE, 0) /\ UNCHANGED <<registered, ready>>
    /\ UNCHANGED <<paper, toolsMemory, shown>>

-----------------------------------------------------------------------------
(* A trade's episode is stored under readings recall does not compare,      *)
(* without a sentiment, and ends.  Only a user of the package creates rules *)
(* and patterns: every reflection of the program raises before it would.    *)
EngineReadings == {"confidence", "strength", "entry_price", "stop_loss", "take_profit"}
EngineTech == [k \in EngineReadings |-> 0]

EpisodeStored ==
    /\ Len(episodes) < MaxEpisodes
    /\ episodes' = Append(episodes, [symbol |-> Symbol, outcome |-> "open", tech |-> EngineTech,
                                     mood |-> "none", lessons |-> FALSE, age |-> 0])
    /\ UNCHANGED <<registered, ready, paper, rules, patterns, reply, shown>>

EpisodeEnds(i, outcome) ==
    /\ episodes[i].outcome = "open"
    /\ episodes' = [episodes EXCEPT ![i].outcome = outcome]
    /\ UNCHANGED <<registered, ready, paper, rules, patterns, reply, shown>>

MemoryGrows ==
    /\ \/ Len(rules) < MaxLessons /\ UNCHANGED patterns
          /\ \E r \in SomeRules : rules' = Append(rules, r)
       \/ Len(patterns) < MaxLessons /\ UNCHANGED rules
          /\ \E p \in SomePatterns : patterns' = Append(patterns, p)
    /\ UNCHANGED <<registered, ready, paper, episodes, reply, shown>>

-----------------------------------------------------------------------------
(* TradingToolkit.execute(): an unknown tool and a missing parameter are    *)
(* refused.  An answer is read before the next question.                    *)
AnswerRead ==
    /\ reply # NoAnswer /\ reply' = NoAnswer
    /\ UNCHANGED <<registered, ready, paper, toolsMemory, shown>>

Replies(tool, ok, count) ==
    /\ reply = NoAnswer /\ tool \in registered
    /\ reply' = Answer(tool, ok, count)
    /\ UNCHANGED <<registered, ready, paper, toolsMemory>>

RepliesUnseen(tool, ok, count) == Replies(tool, ok, count) /\ UNCHANGED shown

ToolRefusedUnknown ==
    /\ reply = NoAnswer /\ reply' = Answer("unknown", FALSE, 0)
    /\ UNCHANGED <<registered, ready, paper, toolsMemory, shown>>

ParametersInvalid == \E tool \in AllTools \ {"portfolio"} : RepliesUnseen(tool, FALSE, 0)

(* Without a price in the paper engine, it is the exchange's turn.          *)
GetCurrentPrice == \E priced \in BOOLEAN : RepliesUnseen("price", paper /\ priced, 1)
GetOHLCV == RepliesUnseen("ohlcv", FALSE, 0)
GetOrderBook == RepliesUnseen("book", FALSE, 0)
CalculateIndicators == RepliesUnseen("indicators", FALSE, 0)
GetPortfolioState == \E held \in 0 .. 1 : RepliesUnseen("portfolio", TRUE, held)

(* In live mode both connect to the exchange first, which may fail.         *)
GetBalance == \E ok \in BOOLEAN : (paper => ok) /\ RepliesUnseen("balance", ok, 1)
GetOpenOrders ==
    \E ok \in BOOLEAN, resting \in 0 .. 1 : (paper => ok) /\ RepliesUnseen("orders", ok, resting)

(* The rows are the paper engine's, in live mode too.                       *)
GetPositions == \E rows \in 0 .. 1 : RepliesUnseen("positions", TRUE, rows)

CalculatePositionSize ==
    \E entry, stop \in PlacePrices : RepliesUnseen("size", Sizes(entry, stop), 1)

CalculateRiskReward ==
    \E entry, stop \in PlacePrices, n \in 0 .. 1 :
        RepliesUnseen("reward", RewardDefined(entry, stop, n), 1)

(* get_matching_rules() has no parameter `context', so with one it raises.  *)
GetTradingRules ==
    \E context \in BOOLEAN :
        RepliesUnseen("rules", ~context, Cardinality(ActiveRules(rules, Symbol)))

(* An episode has no `side': an answer that holds one fails.                *)
Asked(tech) == [symbol |-> Symbol, tech |-> tech, mood |-> "none", frame |-> "none", limit |-> 5]
AskedTechs == {[rsi |-> 25], [trend |-> "up"], [rsi |-> 60, macd_signal |-> "bullish"]}

RecallSimilarTrades ==
    \E tech \in AskedTechs :
        LET found == Recalled(episodes, Asked(tech))
        IN /\ Replies("recall", found = {}, 0)
           /\ shown' = shown \cup found

(* Nor has a pattern a symbol, or a match a match_score.                    *)
GetMarketPatterns ==
    \E tech \in AskedTechs \cup {<<>>} :
        RepliesUnseen("patterns", Matching(patterns, tech) = {}, 0)

(* The fixed stop needs nothing; that by ATR has no candles to work on.     *)
CalculateStopLoss ==
    \E method \in {"fixed", "atr", "other"} : RepliesUnseen("stop", method = "fixed", 1)

(* The engine asks the memory about the readings it stores, an agent about  *)
(* none; the context goes to the episode or to the model.                   *)
BuildContext ==
    /\ reply = NoAnswer
    /\ \E tech \in {EngineTech, <<>>} :
          LET context == MemoryContext(episodes, rules, patterns, Asked(tech))
          IN /\ reply' = [tool |-> Advice(context.adjustment), ok |-> TRUE,
                          count |-> Cardinality(context.rules)]
             /\ shown' = shown \cup context.trades
    /\ UNCHANGED <<registered, ready, paper, toolsMemory>>

ToolsNext ==
    \/ TeamInitializes \/ SoloInitializes
    \/ EpisodeStored \/ MemoryGrows
    \/ \E i \in DOMAIN episodes, o \in {"win", "loss", "stopped_out"} : EpisodeEnds(i, o)
    \/ AnswerRead \/ ToolRefusedUnknown \/ ParametersInvalid
    \/ GetCurrentPrice \/ GetOHLCV \/ GetOrderBook \/ CalculateIndicators \/ GetPortfolioState
    \/ GetBalance \/ GetOpenOrders \/ GetPositions \/ CalculatePositionSize
    \/ CalculateRiskReward \/ GetTradingRules \/ RecallSimilarTrades \/ GetMarketPatterns
    \/ CalculateStopLoss \/ BuildContext

ToolsSpec == ToolsInit /\ [][ToolsNext]_toolsVars

-----------------------------------------------------------------------------
ToolsTypeOK ==
    /\ registered \in {{}, AllTools} /\ ready \subseteq {"solo", "team"}
    /\ paper \in BOOLEAN
    /\ Len(episodes) <= MaxEpisodes /\ Len(rules) <= MaxLessons /\ Len(patterns) <= MaxLessons
    /\ reply.ok \in BOOLEAN /\ reply.count \in Nat
    /\ shown \subseteq DOMAIN episodes

(* No past trade ever reaches an agent or a decision.  The engine stores an *)
(* episode under readings that episodic.py:349-372 does not compare and     *)
(* with no sentiment (engine.py:827-839), no caller asks with a sentiment,  *)
(* and the bonus for its outcome is less than the similarity wanted.        *)
NothingRecalled == shown = {}
=============================================================================
