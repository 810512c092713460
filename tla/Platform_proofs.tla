--------------------------- MODULE Platform_proofs ---------------------------
(***************************************************************************)
(* The components of the platform that share no variable, for every value  *)
(* of the constants: what the agent's tools recall (AgentTools, Recall),   *)
(* what is learnt (Learning), the arithmetic of risk (Quant), and that the *)
(* platform runs each component as it is specified, so that what is proved *)
(* of one holds in the platform.                                           *)
(***************************************************************************)
EXTENDS MCPlatform, Orders_proofs, Boundary_proofs, Decisions_proofs

-----------------------------------------------------------------------------
(* A trade's episode, as the engine stores it.                              *)
TradeEnds == {"win", "loss", "stopped_out"}
EngineEpisodes ==
    [symbol : {Symbol}, outcome : {"open"} \cup TradeEnds, tech : {EngineTech}, mood : {"none"},
     lessons : {FALSE}, age : {0}]

ToolsInv ==
    /\ ToolsTypeOK
    /\ episodes \in Seq(EngineEpisodes) /\ rules \in Seq(SomeRules)
    /\ patterns \in Seq(SomePatterns)
    /\ NothingRecalled

LEMMA NotAlike ==
    ASSUME NEW e \in EngineEpisodes, NEW tech
    PROVE  ~(Similarity(e, Asked(tech)) >= MinSimilarity)
<1>1. e.tech = EngineTech /\ e.mood = "none" /\ e.lessons = FALSE
  BY DEF EngineEpisodes
<1>2. TechScore(tech, e.tech) = 0
  <2>1. DOMAIN e.tech = EngineReadings
    BY <1>1 DEF EngineTech
  <2>2. ComparedKeys \cap DOMAIN tech \cap DOMAIN e.tech = {}
    BY <2>1 DEF ComparedKeys, EngineReadings
  <2> QED BY <2>2, Zenon DEF TechScore
<1>3. MoodScore("none", e.mood) = 0
  BY DEF MoodScore
<1>4. OutcomeScore(e) \in {0, 100}
  BY DEF OutcomeScore
<1>5. Asked(tech).tech = tech /\ Asked(tech).mood = "none"
  BY DEF Asked
<1>6. Similarity(e, Asked(tech)) = 0 + 0 + OutcomeScore(e)
  BY <1>2, <1>3, <1>5 DEF Similarity
<1> QED BY <1>4, <1>6 DEF MinSimilarity

LEMMA RecallsNothing ==
    ASSUME ToolsInv, NEW tech
    PROVE  Recalled(episodes, Asked(tech)) = {}
<1> DEFINE of(i) == Similarity(episodes[i], Asked(tech))
<1>1. \A i \in DOMAIN episodes : episodes[i] \in EngineEpisodes
  BY LenProperties, ElementOfSeq DEF ToolsInv
<1>2. \A S \in SUBSET DOMAIN episodes : {i \in S : of(i) >= MinSimilarity} = {}
  BY <1>1, NotAlike
<1> HIDE DEF of
<1>3. Top(EndedTrades(episodes, Asked(tech).symbol, 90), LAMBDA i, j : i > j, RecentRows)
        \in SUBSET DOMAIN episodes
  BY DEF Top, EndedTrades
<1>4. \A k : k \notin Recalled(episodes, Asked(tech))
  BY <1>2, <1>3 DEF Recalled, Top, of
<1> QED BY <1>4

LEMMA ListedRules ==
    ASSUME ToolsInv, NEW s
    PROVE  Cardinality(ActiveRules(rules, s)) \in Nat
<1>1. Len(rules) \in Nat /\ DOMAIN rules = 1 .. Len(rules)
  BY LenProperties DEF ToolsInv
<1>2. ActiveRules(rules, s) \in SUBSET (1 .. Len(rules))
  BY <1>1 DEF ActiveRules
<1>3. IsFiniteSet(1 .. Len(rules))
  BY <1>1, FS_Interval
<1> QED BY <1>2, <1>3, FS_Subset, FS_CardinalityType

LEMMA AnswerTyped ==
    ASSUME NEW name, NEW ok \in BOOLEAN, NEW count \in Nat
    PROVE  Answer(name, ok, count).ok \in BOOLEAN /\ Answer(name, ok, count).count \in Nat
BY DEF Answer

LEMMA RepliesTyped ==
    ASSUME ToolsInv, NEW name, NEW ok \in BOOLEAN, NEW count \in Nat, RepliesUnseen(name, ok, count)
    PROVE  ToolsInv'
BY AnswerTyped DEF RepliesUnseen, Replies, ToolsInv, ToolsTypeOK, NothingRecalled, toolsMemory

LEMMA MemoryTyped ==
    ASSUME ToolsInv,
           \/ EpisodeStored \/ MemoryGrows
           \/ \E i \in DOMAIN episodes, o \in TradeEnds : EpisodeEnds(i, o)
    PROVE  ToolsInv'
<1>1. CASE EpisodeStored
  <2> DEFINE e == [symbol |-> Symbol, outcome |-> "open", tech |-> EngineTech, mood |-> "none",
                   lessons |-> FALSE, age |-> 0]
  <2>1. e \in EngineEpisodes
    BY DEF EngineEpisodes
  <2>2. episodes' = Append(episodes, e)
    BY <1>1 DEF EpisodeStored
  <2> HIDE DEF e
  <2>3. /\ episodes \in Seq(EngineEpisodes) /\ Len(episodes) < MaxEpisodes
        /\ Len(episodes) \in Nat /\ MaxEpisodes \in Nat
    BY <1>1, LenProperties, ToolsAssumption DEF EpisodeStored, ToolsInv
  <2>4. episodes' \in Seq(EngineEpisodes) /\ Len(episodes') <= MaxEpisodes
    BY <2>1, <2>2, <2>3, AppendProperties
  <2> QED BY <1>1, <2>4 DEF EpisodeStored, ToolsInv, ToolsTypeOK, NothingRecalled
<1>2. CASE MemoryGrows
  <2>1. CASE Len(rules) < MaxLessons /\ UNCHANGED patterns /\ \E r \in SomeRules : rules' = Append(rules, r)
    <3>1. rules \in Seq(SomeRules) /\ Len(rules) \in Nat /\ MaxLessons \in Nat
      BY LenProperties, ToolsAssumption DEF ToolsInv
    <3>2. rules' \in Seq(SomeRules) /\ Len(rules') <= MaxLessons
      BY <2>1, <3>1, AppendProperties
    <3> QED BY <1>2, <2>1, <3>2 DEF MemoryGrows, ToolsInv, ToolsTypeOK, NothingRecalled
  <2>2. CASE Len(patterns) < MaxLessons /\ UNCHANGED rules
             /\ \E p \in SomePatterns : patterns' = Append(patterns, p)
    <3>1. patterns \in Seq(SomePatterns) /\ Len(patterns) \in Nat /\ MaxLessons \in Nat
      BY LenProperties, ToolsAssumption DEF ToolsInv
    <3>2. patterns' \in Seq(SomePatterns) /\ Len(patterns') <= MaxLessons
      BY <2>2, <3>1, AppendProperties
    <3> QED BY <1>2, <2>2, <3>2 DEF MemoryGrows, ToolsInv, ToolsTypeOK, NothingRecalled
  <2> QED BY <1>2, <2>1, <2>2 DEF MemoryGrows
<1>3. ASSUME NEW i \in DOMAIN episodes, NEW o \in TradeEnds, EpisodeEnds(i, o) PROVE ToolsInv'
  <2>1. episodes \in Seq(EngineEpisodes)
    BY DEF ToolsInv
  <2>2. episodes[i] \in EngineEpisodes
    BY <2>1, LenProperties, ElementOfSeq
  <2>3. [episodes[i] EXCEPT !.outcome = o] \in EngineEpisodes
    BY <2>2 DEF EngineEpisodes, TradeEnds
  <2>4. episodes' = [episodes EXCEPT ![i] = [episodes[i] EXCEPT !.outcome = o]]
    BY <1>3 DEF EpisodeEnds
  <2>5. /\ episodes' \in Seq(EngineEpisodes) /\ Len(episodes') = Len(episodes)
    BY <2>1, <2>3, <2>4, ExceptSeq
  <2> QED BY <1>3, <2>5 DEF EpisodeEnds, ToolsInv, ToolsTypeOK, NothingRecalled
<1> QED BY <1>1, <1>2, <1>3

LEMMA AgentsTyped ==
    ASSUME ToolsInv, TeamInitializes \/ SoloInitializes \/ AnswerRead \/ ToolRefusedUnknown
    PROVE  ToolsInv'
<1>1. FALSE \in BOOLEAN /\ 0 \in Nat
  OBVIOUS
<1>2. \A t : Answer(t, FALSE, 0).ok \in BOOLEAN /\ Answer(t, FALSE, 0).count \in Nat
  BY <1>1, AnswerTyped
<1>3. CASE TeamInitializes
  BY <1>3 DEF TeamInitializes, ToolsInv, ToolsTypeOK, NothingRecalled, toolsMemory
<1>4. CASE SoloInitializes
  BY <1>2, <1>4 DEF SoloInitializes, ToolsInv, ToolsTypeOK, NothingRecalled, toolsMemory
<1>5. CASE AnswerRead \/ ToolRefusedUnknown
  BY <1>2, <1>5
  DEF AnswerRead, ToolRefusedUnknown, NoAnswer, ToolsInv, ToolsTypeOK, NothingRecalled, toolsMemory
<1> QED BY <1>3, <1>4, <1>5

LEMMA RecallTyped ==
    ASSUME ToolsInv, RecallSimilarTrades \/ BuildContext
    PROVE  ToolsInv'
<1>1. CASE RecallSimilarTrades
  <2>1. PICK tech \in AskedTechs :
           /\ Replies("recall", Recalled(episodes, Asked(tech)) = {}, 0)
           /\ shown' = shown \cup Recalled(episodes, Asked(tech))
    BY <1>1 DEF RecallSimilarTrades
  <2>2. Recalled(episodes, Asked(tech)) = {}
    BY RecallsNothing
  <2>3. shown' = {}
    BY <2>1, <2>2 DEF ToolsInv, NothingRecalled
  <2>4. PICK ok \in BOOLEAN : reply' = Answer("recall", ok, 0)
    BY <2>1 DEF Replies
  <2>5. reply'.ok \in BOOLEAN /\ reply'.count \in Nat
    BY <2>4, AnswerTyped
  <2> QED BY <2>1, <2>3, <2>5 DEF Replies, toolsMemory, ToolsInv, ToolsTypeOK, NothingRecalled
<1>2. CASE BuildContext
  <2>1. PICK tech \in {EngineTech, <<>>} :
          LET context == MemoryContext(episodes, rules, patterns, Asked(tech))
          IN /\ reply' = [tool |-> Advice(context.adjustment), ok |-> TRUE,
                          count |-> Cardinality(context.rules)]
             /\ shown' = shown \cup context.trades
    BY <1>2 DEF BuildContext
  <2>2. /\ MemoryContext(episodes, rules, patterns, Asked(tech)).trades = Recalled(episodes, Asked(tech))
        /\ MemoryContext(episodes, rules, patterns, Asked(tech)).rules
             = ActiveRules(rules, Asked(tech).symbol)
    BY DEF MemoryContext
  <2>3. shown' = {}
    BY <2>1, <2>2, RecallsNothing DEF ToolsInv, NothingRecalled
  <2>4. reply'.ok = TRUE /\ reply'.count = Cardinality(ActiveRules(rules, Asked(tech).symbol))
    BY <2>1, <2>2
  <2>5. TRUE \in BOOLEAN /\ reply'.count \in Nat
    BY <2>4, ListedRules
  <2> QED BY <1>2, <2>3, <2>4, <2>5
      DEF BuildContext, toolsMemory, ToolsInv, ToolsTypeOK, NothingRecalled
<1> QED BY <1>1, <1>2

LEMMA AnswersTyped ==
    ASSUME ToolsInv,
           \/ ParametersInvalid \/ GetCurrentPrice \/ GetOHLCV \/ GetOrderBook
           \/ CalculateIndicators \/ GetPortfolioState \/ GetBalance \/ GetOpenOrders
           \/ GetPositions \/ CalculatePositionSize \/ CalculateRiskReward \/ GetTradingRules
           \/ GetMarketPatterns \/ CalculateStopLoss
    PROVE  ToolsInv'
<1>1. \E name : \E ok \in BOOLEAN : \E count \in Nat : RepliesUnseen(name, ok, count)
  <2>1. CASE ParametersInvalid \/ GetOHLCV \/ GetOrderBook \/ CalculateIndicators
    <3>1. FALSE \in BOOLEAN /\ 0 \in Nat
      OBVIOUS
    <3> QED BY <2>1, <3>1, Zenon DEF ParametersInvalid, GetOHLCV, GetOrderBook, CalculateIndicators
  <2>2. CASE GetPortfolioState \/ GetPositions \/ GetOpenOrders
    <3>1. TRUE \in BOOLEAN /\ 0 .. 1 \subseteq Nat
      OBVIOUS
    <3> QED BY <2>2, <3>1, Zenon DEF GetPortfolioState, GetPositions, GetOpenOrders
  <2>3. CASE GetCurrentPrice \/ GetBalance
    <3>1. 1 \in Nat /\ \A b \in BOOLEAN : (paper /\ b) \in BOOLEAN
      OBVIOUS
    <3> QED BY <2>3, <3>1, Zenon DEF GetCurrentPrice, GetBalance
  <2>4. CASE CalculatePositionSize \/ CalculateRiskReward \/ CalculateStopLoss
    <3>1. 1 \in Nat /\ \A m : (m = "fixed") \in BOOLEAN
      OBVIOUS
    <3>2. CASE CalculatePositionSize
      <4>1. PICK entry \in PlacePrices, stop \in PlacePrices : RepliesUnseen("size", entry # stop, 1)
        BY <3>2, Zenon DEF CalculatePositionSize, Sizes
      <4>2. (entry # stop) \in BOOLEAN
        OBVIOUS
      <4> QED BY <3>1, <4>1, <4>2, Zenon
    <3>3. CASE CalculateRiskReward
      <4>1. PICK entry \in PlacePrices, stop \in PlacePrices, n \in 0 .. 1 :
               RepliesUnseen("reward", Distance(entry, stop) * n # 0, 1)
        BY <3>3, Zenon DEF CalculateRiskReward, RewardDefined
      <4>2. (Distance(entry, stop) * n # 0) \in BOOLEAN
        OBVIOUS
      <4> QED BY <3>1, <4>1, <4>2, Zenon
    <3>4. CASE CalculateStopLoss
      <4>1. PICK m \in {"fixed", "atr", "other"} : RepliesUnseen("stop", m = "fixed", 1)
        BY <3>4, Zenon DEF CalculateStopLoss
      <4> QED BY <3>1, <4>1, Zenon
    <3> QED BY <2>4, <3>2, <3>3, <3>4
  <2>5. CASE GetTradingRules
    <3>1. \A c \in BOOLEAN : (~c) \in BOOLEAN
      OBVIOUS
    <3> QED BY <2>5, <3>1, ListedRules, Zenon DEF GetTradingRules
  <2>6. CASE GetMarketPatterns
    <3>1. 0 \in Nat /\ \A t : (Matching(patterns, t) = {}) \in BOOLEAN
      OBVIOUS
    <3> QED BY <2>6, <3>1, Zenon DEF GetMarketPatterns
  <2> QED BY <2>1, <2>2, <2>3, <2>4, <2>5, <2>6
<1> QED BY <1>1, RepliesTyped

LEMMA ToolsInvariant == ToolsSpec => []ToolsInv
<1>1. ToolsInit => ToolsInv
  <2> SUFFICES ASSUME ToolsInit PROVE ToolsInv
    OBVIOUS
  <2>1. /\ <<>> \in Seq(EngineEpisodes) /\ <<>> \in Seq(SomeRules) /\ <<>> \in Seq(SomePatterns)
        /\ Len(<<>>) = 0
    BY EmptySeq
  <2>2. FALSE \in BOOLEAN /\ 0 \in Nat
    OBVIOUS
  <2>3. NoAnswer.ok \in BOOLEAN /\ NoAnswer.count \in Nat
    BY <2>2, AnswerTyped DEF NoAnswer
  <2> QED BY <2>1, <2>3, ToolsAssumption DEF ToolsInit, ToolsInv, ToolsTypeOK, NothingRecalled
<1>2. ToolsInv /\ [ToolsNext]_toolsVars => ToolsInv'
  <2> SUFFICES ASSUME ToolsInv, [ToolsNext]_toolsVars PROVE ToolsInv'
    OBVIOUS
  <2>1. CASE UNCHANGED toolsVars
    BY <2>1 DEF toolsVars, toolsMemory, ToolsInv, ToolsTypeOK, NothingRecalled
  <2> QED BY <2>1, AgentsTyped, MemoryTyped, AnswersTyped, RecallTyped, Zenon DEF ToolsNext, TradeEnds
<1> QED BY <1>1, <1>2, PTL DEF ToolsSpec

(* The agent's tools keep their types: all of them are registered or none,  *)
(* a reply counts a natural number, and what was shown are episodes stored. *)
THEOREM ToolsTypes == ToolsSpec => []ToolsTypeOK
<1>1. ToolsInv => ToolsTypeOK
  BY DEF ToolsInv
<1> QED BY <1>1, ToolsInvariant, PTL

(* No past trade ever reaches an agent or a decision, however many are      *)
(* stored and whatever is asked: the engine stores its episodes under       *)
(* readings that episodic.py:349-372 does not compare (engine.py:827-839).  *)
THEOREM RecallIsIdle == ToolsSpec => []NothingRecalled
<1>1. ToolsInv => NothingRecalled
  BY DEF ToolsInv
<1> QED BY <1>1, ToolsInvariant, PTL

-----------------------------------------------------------------------------
StrategyFields == {"id", "suits", "trades", "wins", "gain"}
StrategyOK(o) ==
    /\ DOMAIN o = StrategyFields
    /\ Percentages(o.suits)
    /\ o.trades \in 0 .. MaxResults /\ o.wins \in 0 .. o.trades /\ o.gain \in Int

(* The catalog names each object made once, and no two of them share an id. *)
CatalogOK ==
    /\ catalog \in Seq(DOMAIN objects) /\ Len(catalog) > 0
    /\ \A k, l \in DOMAIN catalog : objects[catalog[k]].id = objects[catalog[l]].id => k = l

CountsOK ==
    /\ DOMAIN generated = {"total", "ok", "failed"}
    /\ generated.ok \in Nat /\ generated.failed \in Nat
    /\ generated.total = generated.ok + generated.failed
    /\ reflections \in [Kinds -> 0 .. MaxTries]

ObjectsOK ==
    /\ \E S : objects \in Seq(S)
    /\ \A i \in DOMAIN objects : StrategyOK(objects[i])

LearningInv ==
    /\ ObjectsOK /\ CatalogOK /\ CountsOK
    /\ chosen \in {0} \cup DOMAIN objects /\ regime \in Regimes

LEMMA LearningTypesHold == LearningInv => LearningTypeOK
<1> SUFFICES ASSUME LearningInv PROVE LearningTypeOK
  OBVIOUS
<1>1. ASSUME NEW i \in DOMAIN objects
      PROVE  /\ objects[i].wins <= objects[i].trades /\ objects[i].trades <= MaxResults
             /\ Percentages(objects[i].suits)
  <2>1. StrategyOK(objects[i])
    BY DEF LearningInv, ObjectsOK
  <2> QED BY <2>1, LearningAssumption DEF StrategyOK
<1> QED BY <1>1 DEF LearningTypeOK, LearningInv, CatalogOK, CountsOK

LEMMA ScoreTyped ==
    ASSUME NEW o, StrategyOK(o), NEW r
    PROVE  ScoreOf(o, r) \in 0 .. 100
<1>1. Suits(o, r) \in 0 .. 100
  BY DEF StrategyOK, Suits, Percentages
<1>2. Performance(o) \in Int
  BY LearningAssumption DEF StrategyOK, Performance
<1>3. \A x \in Int : Bounded(x) \in 0 .. 100
  BY DEF Bounded
<1>4. Suits(o, r) + Performance(o) \in Int
  BY <1>1, <1>2
<1> QED BY <1>3, <1>4 DEF ScoreOf

LEMMA MaxOfPercents ==
    ASSUME NEW S \in SUBSET (0 .. 100), S # {}
    PROVE  Max(S) \in S
<1> DEFINE P == {k \in Nat : \E x \in S : k = 100 - x}
<1>1. P \in SUBSET Nat
  OBVIOUS
<1>2. P # {}
  <2>1. PICK x \in S : TRUE
    OBVIOUS
  <2>2. 100 - x \in P
    BY <2>1
  <2> QED BY <2>2
<1>3. \A x \in S : x \in Int /\ 100 - x \in P
  OBVIOUS
<1>4. \A k \in P : \E x \in S : k = 100 - x
  OBVIOUS
<1> HIDE DEF P
<1>5. PICK m \in P : \A k \in P : m <= k
  BY <1>1, <1>2, LeastOf
<1>6. PICK x \in S : m = 100 - x
  BY <1>4, <1>5
<1>7. \A y \in S : x >= y
  BY <1>3, <1>5, <1>6
<1> QED BY <1>6, <1>7 DEF Max

LEMMA MinOfNaturals ==
    ASSUME NEW S \in SUBSET Nat, S # {}
    PROVE  Min(S) \in S
<1>1. \E x \in S : \A y \in S : x <= y
  BY LeastOf
<1> QED BY <1>1 DEF Min

LEMMA BestTyped ==
    ASSUME LearningInv, NEW r
    PROVE  BestFor(r) \in DOMAIN objects
<1> DEFINE score(k) == ScoreOf(objects[catalog[k]], r)
           S == {score(k) : k \in DOMAIN catalog}
           K == {k \in DOMAIN catalog : score(k) = Max(S)}
<1>1. /\ DOMAIN catalog = 1 .. Len(catalog) /\ Len(catalog) \in Nat /\ Len(catalog) > 0
      /\ \A k \in DOMAIN catalog : catalog[k] \in DOMAIN objects
  BY LenProperties, ElementOfSeq DEF LearningInv, CatalogOK
<1>2. \A k \in DOMAIN catalog : score(k) \in 0 .. 100
  BY <1>1, ScoreTyped DEF LearningInv, ObjectsOK
<1> HIDE DEF score
<1>3. S \in SUBSET (0 .. 100) /\ S # {}
  <2>1. S \in SUBSET (0 .. 100)
    BY <1>2
  <2>2. 1 \in DOMAIN catalog
    BY <1>1
  <2>3. score(1) \in S
    BY <2>2
  <2> QED BY <2>1, <2>3
<1>4. Max(S) \in S
  BY <1>3, MaxOfPercents
<1>5. K \in SUBSET Nat /\ K # {}
  <2>1. PICK k \in DOMAIN catalog : Max(S) = score(k)
    BY <1>4
  <2>2. k \in K
    BY <2>1
  <2>3. K \in SUBSET Nat
    BY <1>1
  <2> QED BY <2>2, <2>3
<1>6. Min(K) \in K
  BY <1>5, MinOfNaturals
<1>7. BestFor(r) = catalog[Min(K)]
  BY Zenon DEF BestFor, score
<1> QED BY <1>1, <1>6, <1>7

LEMMA RegimeTyped == ASSUME NEW c PROVE DetectRegime(c) \in Regimes
BY DEF DetectRegime, Regimes

LEMMA SelectTyped == ASSUME LearningInv, SelectStrategy PROVE LearningInv'
<1>1. regime' \in Regimes
  BY RegimeTyped DEF SelectStrategy
<1>2. chosen' \in DOMAIN objects
  BY BestTyped DEF SelectStrategy
<1> QED BY <1>1, <1>2 DEF SelectStrategy, LearningInv, ObjectsOK, CatalogOK, CountsOK

LEMMA ResultTyped == ASSUME LearningInv, RecordResult PROVE LearningInv'
<1>1. PICK k \in DOMAIN catalog, pct \in {-1, 1} :
         LET o == catalog[k]
         IN /\ objects[o].trades < MaxResults
            /\ objects' = [objects EXCEPT ![o].trades = @ + 1, ![o].gain = @ + pct,
                                          ![o].wins = @ + (IF pct > 0 THEN 1 ELSE 0)]
            /\ UNCHANGED <<catalog, chosen, regime, generated, reflections>>
  BY DEF RecordResult
<1> DEFINE o == catalog[k]
           was == objects[o]
           now == objects'[o]
<1>2. o \in DOMAIN objects
  BY LenProperties, ElementOfSeq DEF LearningInv, CatalogOK
<1>3. StrategyOK(was)
  BY <1>2 DEF LearningInv, ObjectsOK
<1>4. /\ DOMAIN now = StrategyFields /\ now.id = was.id /\ now.suits = was.suits
      /\ now.trades = was.trades + 1 /\ now.gain = was.gain + pct
      /\ now.wins = was.wins + (IF pct > 0 THEN 1 ELSE 0)
      /\ DOMAIN objects' = DOMAIN objects
      /\ \A i \in DOMAIN objects : i # o => objects'[i] = objects[i]
  BY <1>1, <1>2, <1>3 DEF StrategyOK, StrategyFields
<1>5. was.trades < MaxResults
  BY <1>1
<1> HIDE DEF was, now, o
<1>6. StrategyOK(now)
  BY <1>3, <1>4, <1>5, LearningAssumption DEF StrategyOK
<1>7. ObjectsOK'
  <2>1. \A i \in DOMAIN objects' : StrategyOK(objects'[i])
    BY <1>4, <1>6 DEF LearningInv, ObjectsOK, now
  <2>2. PICK S : objects \in Seq(S)
    BY DEF LearningInv, ObjectsOK
  <2>3. objects' \in Seq({objects'[i] : i \in DOMAIN objects'})
    <3>1. DOMAIN objects = 1 .. Len(objects) /\ Len(objects) \in Nat
      BY <2>2, LenProperties
    <3>2. objects' = [i \in 1 .. Len(objects) |-> objects'[i]]
      BY <1>1, <3>1
    <3> QED BY <3>1, <3>2, IsASeq
  <2> QED BY <2>1, <2>3 DEF ObjectsOK
<1>8. \A i \in DOMAIN objects : objects'[i].id = objects[i].id
  BY <1>4 DEF was, now
<1>9. CatalogOK'
  <2>1. catalog' = catalog /\ \A l \in DOMAIN catalog : catalog[l] \in DOMAIN objects
    BY <1>1, LenProperties, ElementOfSeq DEF LearningInv, CatalogOK
  <2> QED BY <1>4, <1>8, <2>1 DEF LearningInv, CatalogOK
<1> QED BY <1>1, <1>4, <1>7, <1>9 DEF LearningInv, CountsOK

LEMMA BuiltTyped ==
    ASSUME NEW p \in Proposals
    PROVE  StrategyOK(Built(p)) /\ Built(p).id = p.id
<1> DEFINE given == IF "suits" \in DOMAIN p THEN p.suits ELSE <<>>
           suits == [r \in DOMAIN given \cap Regimes |-> Bounded(given[r])]
<1>1. \A r \in DOMAIN given : given[r] \in Int
  BY LearningAssumption
<1>2. \A x \in Int : Bounded(x) \in 0 .. 100
  BY DEF Bounded
<1> HIDE DEF given
<1>3. suits \in [DOMAIN given \cap Regimes -> 0 .. 100]
  BY <1>1, <1>2
<1>4. Percentages(suits)
  BY <1>3 DEF Percentages
<1>5. Built(p) = NewObject(p.id, suits)
  BY DEF Built, given
<1> HIDE DEF suits
<1> QED BY <1>4, <1>5, LearningAssumption DEF NewObject, StrategyOK, StrategyFields

LEMMA GenerateTyped == ASSUME LearningInv, GenerateSucceeds PROVE LearningInv'
<1>1. PICK p \in Proposals : objects' = Append(objects, Built(p)) /\ Registered(p.id)
  BY DEF GenerateSucceeds
<1> DEFINE b == Built(p)
           n == Len(objects) + 1
<1>2. StrategyOK(b) /\ b.id = p.id
  BY BuiltTyped
<1> HIDE DEF b
<1>3. PICK S : objects \in Seq(S)
  BY DEF LearningInv, ObjectsOK
<1>4. /\ objects' \in Seq(S \cup {b}) /\ DOMAIN objects = 1 .. Len(objects) /\ Len(objects) \in Nat
      /\ DOMAIN objects' = 1 .. n /\ objects'[n] = b
      /\ \A i \in 1 .. Len(objects) : objects'[i] = objects[i]
  <2>1. objects \in Seq(S \cup {b}) /\ b \in S \cup {b}
    BY <1>3
  <2>2. objects' = Append(objects, b)
    BY <1>1 DEF b
  <2>3. Len(objects') = n /\ objects' \in Seq(S \cup {b})
    BY <2>1, <2>2, AppendProperties
  <2> QED BY <2>1, <2>2, <2>3, AppendProperties, LenProperties
<1>5. ObjectsOK'
  BY <1>2, <1>4 DEF LearningInv, ObjectsOK
<1>6. /\ catalog \in Seq(DOMAIN objects) /\ DOMAIN catalog = 1 .. Len(catalog)
      /\ Len(catalog) \in Nat /\ Len(catalog) > 0
      /\ \A k \in DOMAIN catalog : catalog[k] \in DOMAIN objects
  BY LenProperties, ElementOfSeq DEF LearningInv, CatalogOK
<1>7. catalog \in Seq(DOMAIN objects') /\ n \in DOMAIN objects' /\ n \notin DOMAIN objects
      /\ DOMAIN objects \subseteq DOMAIN objects'
  BY <1>4, <1>6
<1>8. CatalogOK'
  <2>1. CASE PlaceOf(p.id) = {}
    <3>1. catalog' = Append(catalog, n)
      BY <1>1, <2>1 DEF Registered
    <3>2. /\ catalog' \in Seq(DOMAIN objects') /\ DOMAIN catalog' = 1 .. Len(catalog) + 1
          /\ Len(catalog') > 0 /\ catalog'[Len(catalog) + 1] = n
          /\ \A k \in 1 .. Len(catalog) : catalog'[k] = catalog[k]
      <4> HIDE DEF n
      <4>1. catalog' \in Seq(DOMAIN objects') /\ Len(catalog') = Len(catalog) + 1
        BY <1>7, <3>1, AppendProperties
      <4> QED BY <1>6, <1>7, <3>1, <4>1, AppendProperties, LenProperties
    <3>3. \A k \in DOMAIN catalog : objects[catalog[k]].id # p.id
      BY <2>1 DEF PlaceOf
    <3>4. \A k \in DOMAIN catalog : objects'[catalog'[k]].id = objects[catalog[k]].id
      BY <1>4, <1>6, <3>2
    <3>5. objects'[catalog'[Len(catalog) + 1]].id = p.id
      BY <1>2, <1>4, <3>2
    <3> HIDE DEF n
    <3>6. \A k, l \in DOMAIN catalog' : objects'[catalog'[k]].id = objects'[catalog'[l]].id => k = l
      BY <1>6, <3>2, <3>3, <3>4, <3>5 DEF LearningInv, CatalogOK
    <3> QED BY <3>2, <3>6 DEF CatalogOK
  <2>2. CASE PlaceOf(p.id) # {}
    <3>1. PICK j \in DOMAIN catalog :
             objects[catalog[j]].id = p.id /\ catalog' = [catalog EXCEPT ![j] = n]
      <4>1. (CHOOSE k \in PlaceOf(p.id) : TRUE) \in PlaceOf(p.id)
        BY <2>2
      <4> QED BY <1>1, <2>2, <4>1 DEF Registered, PlaceOf
    <3>2. catalog' \in Seq(DOMAIN objects') /\ Len(catalog') = Len(catalog)
      BY <1>7, <3>1, ExceptSeq
    <3>3. DOMAIN catalog' = DOMAIN catalog
      BY <3>1
    <3>4. \A k \in DOMAIN catalog : objects'[catalog'[k]].id = objects[catalog[k]].id
      BY <1>2, <1>4, <1>6, <3>1
    <3> QED BY <1>6, <3>2, <3>3, <3>4 DEF LearningInv, CatalogOK
  <2> QED BY <2>1, <2>2
<1>9. CountsOK'
  BY DEF GenerateSucceeds, LearningInv, CountsOK
<1> QED BY <1>5, <1>7, <1>8, <1>9 DEF GenerateSucceeds, LearningInv

LEMMA TriesTyped ==
    ASSUME LearningInv, GenerateFails \/ \E k \in Kinds : Raises(k)
    PROVE  LearningInv'
<1>1. CASE GenerateFails
  BY <1>1 DEF GenerateFails, LearningInv, ObjectsOK, CatalogOK, CountsOK
<1>2. ASSUME NEW k \in Kinds, Raises(k) PROVE LearningInv'
  <2>1. /\ reflections \in [Kinds -> 0 .. MaxTries] /\ MaxTries \in Nat
    BY LearningAssumption DEF LearningInv, CountsOK
  <2>2. \A l \in Kinds : reflections[l] \in Nat
    BY <2>1
  <2>3. reflections[k] < MaxTries
    BY <1>2, <2>1, <2>2 DEF Raises, Kinds
  <2>4. reflections' \in [Kinds -> 0 .. MaxTries]
    BY <1>2, <2>1, <2>3 DEF Raises
  <2> QED BY <1>2, <2>4 DEF Raises, LearningInv, ObjectsOK, CatalogOK, CountsOK
<1> QED BY <1>1, <1>2

LEMMA LearningStarts == LearningInit => LearningInv
<1> SUFFICES ASSUME LearningInit PROVE LearningInv
  OBVIOUS
<1>1. /\ objects \in Seq(Range(Defaults)) /\ DOMAIN objects = 1 .. Len(objects)
      /\ Len(objects) \in Nat /\ Len(objects) > 0
  BY LearningAssumption, LenProperties DEF LearningInit
<1>2. \A i \in DOMAIN objects : StrategyOK(objects[i])
  <2> SUFFICES ASSUME NEW i \in DOMAIN objects PROVE StrategyOK(objects[i])
    OBVIOUS
  <2> DEFINE d == objects[i]
  <2>1. d = NewObject(d.id, d.suits) /\ Percentages(d.suits)
    BY LearningAssumption DEF LearningInit
  <2> HIDE DEF d
  <2> DEFINE suits == d.suits
             id == d.id
  <2>2. d = NewObject(id, suits) /\ Percentages(suits)
    BY <2>1
  <2> HIDE DEF suits, id
  <2> QED BY <2>2, LearningAssumption DEF NewObject, StrategyOK, StrategyFields, d
<1>3. catalog = [k \in 1 .. Len(objects) |-> k] /\ \A k \in 1 .. Len(objects) : k \in DOMAIN objects
  BY <1>1 DEF LearningInit
<1>4. catalog \in Seq(DOMAIN objects) /\ Len(catalog) = Len(objects)
  BY <1>1, <1>3, IsASeq, LenProperties
<1>5. \A k, l \in DOMAIN catalog : objects[catalog[k]].id = objects[catalog[l]].id => k = l
  BY <1>1, <1>3, LearningAssumption DEF LearningInit
<1>6. CountsOK
  BY LearningAssumption DEF LearningInit, CountsOK
<1> QED BY <1>1, <1>2, <1>4, <1>5, <1>6 DEF LearningInit, LearningInv, ObjectsOK, CatalogOK, Regimes

(* The catalog holds an id once, and the strategy that is chosen was made;  *)
(* a suitability is a percentage whatever the model answered, no object won *)
(* more than it traded, and every generation counted ended.                 *)
THEOREM LearningTypes == LearningSpec => []LearningTypeOK
<1>1. LearningInv /\ [LearningNext]_learningVars => LearningInv'
  <2> SUFFICES ASSUME LearningInv, [LearningNext]_learningVars PROVE LearningInv'
    OBVIOUS
  <2>1. CASE UNCHANGED learningVars
    BY <2>1 DEF learningVars, LearningInv, ObjectsOK, CatalogOK, CountsOK
  <2>2. CASE PostMortem \/ DailyReflection \/ WeeklyReflection
    <3>1. \E k \in Kinds : Raises(k)
      BY <2>2 DEF PostMortem, DailyReflection, WeeklyReflection, Kinds
    <3> QED BY <3>1, TriesTyped
  <2> QED BY <2>1, <2>2, SelectTyped, ResultTyped, GenerateTyped, TriesTyped, Zenon DEF LearningNext
<1> QED BY <1>1, LearningStarts, LearningTypesHold, PTL DEF LearningSpec

-----------------------------------------------------------------------------
(* What \div leaves is less than the divisor.                               *)
LEMMA DivideDown ==
    ASSUME NEW a \in Int, NEW b \in Nat, b > 0
    PROVE  /\ a \div b \in Int
           /\ b * (a \div b) <= a /\ a < b * (a \div b) + b
OBVIOUS

LEMMA DistanceType ==
    ASSUME NEW a \in Nat, NEW b \in Nat
    PROVE  Distance(a, b) \in Nat /\ (a # b => Distance(a, b) > 0)
BY DEF Distance

(* A size risks no more than the share of the balance it may, and one unit  *)
(* more would (position_size(), quant.py:58), for every balance and price.  *)
THEOREM SizeWithinRisk ==
    ASSUME NEW balance \in Nat, NEW entry \in Nat, NEW stop \in Nat, NEW pct \in Nat,
           Sizes(entry, stop)
    PROVE  LET size == SizeOf(balance, entry, stop, pct)
           IN /\ 100 * size.risk <= balance * pct
              /\ size.quantity * Distance(entry, stop) <= size.risk
              /\ (size.quantity + 1) * Distance(entry, stop) > size.risk
<1> DEFINE d == Distance(entry, stop)
           risk == (balance * pct) \div 100
           q == risk \div d
<1>1. d \in Nat /\ d > 0
  BY DistanceType DEF Sizes
<1>2. risk \in Int /\ 100 * risk <= balance * pct
  BY DivideDown
<1>3. q \in Int /\ d * q <= risk /\ risk < d * q + d
  <2> HIDE DEF d, risk
  <2> QED BY <1>1, <1>2, DivideDown
<1> HIDE DEF d, risk, q
<1>4. q * d <= risk /\ (q + 1) * d > risk
  BY <1>1, <1>2, <1>3
<1>5. SizeOf(balance, entry, stop, pct).risk = risk /\ SizeOf(balance, entry, stop, pct).quantity = q
  BY DEF SizeOf, d, risk, q
<1> QED BY <1>2, <1>4, <1>5 DEF d

(* Kelly stakes on a game only if it is worth playing: its criterion and    *)
(* the expectancy of quant.py:128 and 485 never disagree on the sign.       *)
THEOREM KellyWantsAnEdge ==
    ASSUME NEW rate \in 0 .. 100, NEW win \in Nat, NEW loss \in Nat,
           KellyDefined(rate, win, loss), Kelly(rate, win, loss) > 0
    PROVE  Expectancy(rate, win, loss) > 0
<1> DEFINE e == rate * win - (100 - rate) * loss
<1>1. e \in Int /\ win > 0
  BY DEF KellyDefined
<1>2. e = Expectancy(rate, win, loss)
  BY DEF Expectancy
<1>3. Kelly(rate, win, loss) = Within(0, e \div (2 * win), 25)
  BY DEF Kelly
<1> HIDE DEF e
<1>4. (e \div (2 * win)) \in Int /\ (2 * win) * (e \div (2 * win)) <= e
  BY <1>1, DivideDown
<1> DEFINE k == e \div (2 * win)
<1> HIDE DEF k
<1>5. k > 0
  BY <1>3, <1>4 DEF Within, k
<1>6. k \in Int /\ (2 * win) * k <= e
  BY <1>4 DEF k
<1>7. (2 * win) * k > 0
  BY <1>1, <1>5, <1>6
<1> QED BY <1>1, <1>2, <1>6, <1>7

(* The break-even rate of a reward (risk_reward_ratio(), quant.py:264) is   *)
(* where the expectancy of quant.py:485 turns: at that rate a trade is not  *)
(* worth playing yet, one percent above it is; and a trade is favorable     *)
(* just when its ratio is at least one, which a rate above half denies.     *)
THEOREM RewardBreaksEven ==
    ASSUME NEW entry \in Nat, NEW stop \in Nat, NEW target \in Nat, RewardDefined(entry, stop, 1)
    PROVE  LET of == RewardOf(entry, stop, target)
               profit == Distance(target, entry)
               loss == Distance(entry, stop)
           IN /\ Expectancy(of.breakeven, profit, loss) <= 0
              /\ Expectancy(of.breakeven + 1, profit, loss) > 0
              /\ of.favorable = (of.ratio >= 100)
              /\ of.breakeven > 50 => ~of.favorable
<1> DEFINE p == Distance(target, entry)
           l == Distance(entry, stop)
           b == (100 * l) \div (l + p)
           r == (100 * p) \div l
<1>1. p \in Nat /\ l \in Nat /\ l > 0
  <2>1. p \in Nat /\ l \in Nat /\ l * 1 # 0
    BY DistanceType DEF RewardDefined
  <2> HIDE DEF p, l
  <2> QED BY <2>1
<1>2. /\ RewardOf(entry, stop, target).breakeven = b /\ RewardOf(entry, stop, target).ratio = r
      /\ RewardOf(entry, stop, target).favorable = (p >= l)
  BY DEF RewardOf
<1> HIDE DEF p, l
<1>3. b \in Int /\ (l + p) * b <= 100 * l /\ 100 * l < (l + p) * b + (l + p)
  BY <1>1, DivideDown
<1>4. r \in Int /\ l * r <= 100 * p /\ 100 * p < l * r + l
  BY <1>1, DivideDown
<1> HIDE DEF b, r
<1>5. Expectancy(b, p, l) <= 0 /\ Expectancy(b + 1, p, l) > 0
  BY <1>1, <1>3 DEF Expectancy
<1>6. (p >= l) = (r >= 100)
  <2>1. CASE p >= l
    <3>1. l * r + l > l * 100
      BY <1>1, <1>4, <2>1
    <3>2. r + 1 > 100
      BY <1>1, <1>4, <3>1
    <3> QED BY <1>4, <2>1, <3>2
  <2>2. CASE ~(p >= l)
    <3>1. l * r < l * 100
      BY <1>1, <1>4, <2>2
    <3> QED BY <1>1, <1>4, <2>2, <3>1
  <2> QED BY <2>1, <2>2
<1>7. b > 50 => ~(p >= l)
  <2> SUFFICES ASSUME b > 50, p >= l PROVE FALSE
    OBVIOUS
  <2>1. (l + p) * b >= (l + p) * 51
    BY <1>1, <1>3
  <2> QED BY <1>1, <1>3, <2>1
<1> DEFINE of == RewardOf(entry, stop, target)
<1>8. of.breakeven = b /\ of.ratio = r /\ of.favorable = (p >= l)
  BY <1>2
<1> HIDE DEF of
<1>9. /\ Expectancy(of.breakeven, p, l) <= 0 /\ Expectancy(of.breakeven + 1, p, l) > 0
      /\ of.favorable = (of.ratio >= 100) /\ (of.breakeven > 50 => ~of.favorable)
  BY <1>5, <1>6, <1>7, <1>8
<1> QED BY <1>9 DEF p, l, of

(* Stops of one percentage lie evenly about the entry (quant.py:242).       *)
LEMMA FixedStopsAreEven ==
    ASSUME NEW entry \in Nat, NEW pct \in Nat
    PROVE  FixedStop(entry, "buy", pct) + FixedStop(entry, "sell", pct) = 200 * entry
BY DEF FixedStop, AtSide

(* A fall from a peak is a percentage, whatever the equity: calculate_      *)
(* drawdown(), quant.py:324, divides by no peak that is zero or negative.   *)
LEMMA DropIsPercentage ==
    ASSUME NEW peak \in Int, NEW equity \in Int
    PROVE  Drop(peak, equity) \in 0 .. 100
<1>1. CASE peak > 0
  <2> DEFINE x == (100 * (peak - equity)) \div peak
  <2>1. x \in Int
    BY <1>1
  <2>2. Drop(peak, equity) = Within(0, x, 100)
    BY <1>1 DEF Drop
  <2> HIDE DEF x
  <2> QED BY <2>1, <2>2 DEF Within
<1> QED BY <1>1 DEF Drop

-----------------------------------------------------------------------------
(* A component's turn leaves the variables of the others alone.             *)
ComponentSteps ==
    /\ [TrailingNext]_trailingVars
    /\ [OrdersNext]_ordersVars
    /\ [BreakerNext]_breakerVars
    /\ [SchedNext]_schedVars
    /\ [CyclesNext]_cycleVars
    /\ [MemoryNext]_memoryVars
    /\ [CandlesNext]_candleVars
    /\ [SignalsNext]_signalVars
    /\ [OutboundNext]_outboundVars
    /\ [BacktestNext]_backtestVars
    /\ [TuningNext]_tuningVars
    /\ [GridNext]_gridVars
    /\ [LiveNext]_liveVars
    /\ [ToolsNext]_toolsVars
    /\ [NewsNext]_newsVars
    /\ [LearningNext]_learningVars

LEMMA TurnsAreSteps == [PlatformNext]_platformVars => ComponentSteps
<1>1. UNCHANGED platformVars => ComponentSteps
  BY DEF platformVars, ComponentSteps
<1>2. TrailingTurn => ComponentSteps
  BY DEF TrailingTurn, ComponentSteps
<1>3. OrdersTurn => ComponentSteps
  BY DEF OrdersTurn, ComponentSteps
<1>4. BreakerTurn => ComponentSteps
  BY DEF BreakerTurn, ComponentSteps
<1>5. SchedTurn => ComponentSteps
  BY DEF SchedTurn, ComponentSteps
<1>6. CyclesTurn => ComponentSteps
  BY DEF CyclesTurn, ComponentSteps
<1>7. MemoryTurn => ComponentSteps
  BY DEF MemoryTurn, ComponentSteps
<1>8. CandlesTurn => ComponentSteps
  BY DEF CandlesTurn, ComponentSteps
<1>9. SignalsTurn => ComponentSteps
  BY DEF SignalsTurn, ComponentSteps
<1>10. OutboundTurn => ComponentSteps
  BY DEF OutboundTurn, ComponentSteps
<1>11. BacktestTurn => ComponentSteps
  BY DEF BacktestTurn, ComponentSteps
<1>12. TuningTurn => ComponentSteps
  BY DEF TuningTurn, ComponentSteps
<1>13. GridTurn => ComponentSteps
  BY DEF GridTurn, ComponentSteps
<1>14. LiveTurn => ComponentSteps
  BY DEF LiveTurn, ComponentSteps
<1>15. ToolsTurn => ComponentSteps
  BY DEF ToolsTurn, ComponentSteps
<1>16. NewsTurn => ComponentSteps
  BY DEF NewsTurn, ComponentSteps
<1>17. LearningTurn => ComponentSteps
  BY DEF LearningTurn, ComponentSteps
<1> QED
  BY <1>1, <1>2, <1>3, <1>4, <1>5, <1>6, <1>7, <1>8, <1>9, <1>10, <1>11, <1>12, <1>13, <1>14, <1>15, <1>16, <1>17
  DEF PlatformNext

(* A behaviour of the platform is one of each of its components, of which   *)
(* one moves and the others stay as they began: so what holds of a          *)
(* component holds in the platform, and a run of the platform is a run of   *)
(* each component.                                                          *)
THEOREM PlatformRunsComponents ==
    PlatformSpec =>
        /\ TrailingSpec /\ OrdersSpec /\ BreakerSpec /\ SchedSpec
        /\ CyclesSpec /\ MemorySpec /\ CandlesSpec /\ SignalsSpec
        /\ OutboundSpec /\ BacktestSpec /\ TuningSpec /\ GridSpec
        /\ LiveSpec /\ ToolsSpec /\ NewsSpec /\ LearningSpec
<1>1. PlatformSpec => TrailingSpec
  <2>1. PlatformInit => TrailingInit
    BY DEF PlatformInit
  <2>2. [PlatformNext]_platformVars => [TrailingNext]_trailingVars
    BY TurnsAreSteps DEF ComponentSteps
  <2> QED BY <2>1, <2>2, PTL DEF PlatformSpec, TrailingSpec
<1>2. PlatformSpec => OrdersSpec
  <2>1. PlatformInit => OrdersInit
    BY DEF PlatformInit
  <2>2. [PlatformNext]_platformVars => [OrdersNext]_ordersVars
    BY TurnsAreSteps DEF ComponentSteps
  <2> QED BY <2>1, <2>2, PTL DEF PlatformSpec, OrdersSpec
<1>3. PlatformSpec => BreakerSpec
  <2>1. PlatformInit => BreakerInit
    BY DEF PlatformInit
  <2>2. [PlatformNext]_platformVars => [BreakerNext]_breakerVars
    BY TurnsAreSteps DEF ComponentSteps
  <2> QED BY <2>1, <2>2, PTL DEF PlatformSpec, BreakerSpec
<1>4. PlatformSpec => SchedSpec
  <2>1. PlatformInit => SchedInit
    BY DEF PlatformInit
  <2>2. [PlatformNext]_platformVars => [SchedNext]_schedVars
    BY TurnsAreSteps DEF ComponentSteps
  <2> QED BY <2>1, <2>2, PTL DEF PlatformSpec, SchedSpec
<1>5. PlatformSpec => CyclesSpec
  <2>1. PlatformInit => CyclesInit
    BY DEF PlatformInit
  <2>2. [PlatformNext]_platformVars => [CyclesNext]_cycleVars
    BY TurnsAreSteps DEF ComponentSteps
  <2> QED BY <2>1, <2>2, PTL DEF PlatformSpec, CyclesSpec
<1>6. PlatformSpec => MemorySpec
  <2>1. PlatformInit => MemoryInit
    BY DEF PlatformInit
  <2>2. [PlatformNext]_platformVars => [MemoryNext]_memoryVars
    BY TurnsAreSteps DEF ComponentSteps
  <2> QED BY <2>1, <2>2, PTL DEF PlatformSpec, MemorySpec
<1>7. PlatformSpec => CandlesSpec
  <2>1. PlatformInit => CandlesInit
    BY DEF PlatformInit
  <2>2. [PlatformNext]_platformVars => [CandlesNext]_candleVars
    BY TurnsAreSteps DEF ComponentSteps
  <2> QED BY <2>1, <2>2, PTL DEF PlatformSpec, CandlesSpec
<1>8. PlatformSpec => SignalsSpec
  <2>1. PlatformInit => SignalsInit
    BY DEF PlatformInit
  <2>2. [PlatformNext]_platformVars => [SignalsNext]_signalVars
    BY TurnsAreSteps DEF ComponentSteps
  <2> QED BY <2>1, <2>2, PTL DEF PlatformSpec, SignalsSpec
<1>9. PlatformSpec => OutboundSpec
  <2>1. PlatformInit => OutboundInit
    BY DEF PlatformInit
  <2>2. [PlatformNext]_platformVars => [OutboundNext]_outboundVars
    BY TurnsAreSteps DEF ComponentSteps
  <2> QED BY <2>1, <2>2, PTL DEF PlatformSpec, OutboundSpec
<1>10. PlatformSpec => BacktestSpec
  <2>1. PlatformInit => BacktestInit
    BY DEF PlatformInit
  <2>2. [PlatformNext]_platformVars => [BacktestNext]_backtestVars
    BY TurnsAreSteps DEF ComponentSteps
  <2> QED BY <2>1, <2>2, PTL DEF PlatformSpec, BacktestSpec
<1>11. PlatformSpec => TuningSpec
  <2>1. PlatformInit => TuningInit
    BY DEF PlatformInit
  <2>2. [PlatformNext]_platformVars => [TuningNext]_tuningVars
    BY TurnsAreSteps DEF ComponentSteps
  <2> QED BY <2>1, <2>2, PTL DEF PlatformSpec, TuningSpec
<1>12. PlatformSpec => GridSpec
  <2>1. PlatformInit => GridInit
    BY DEF PlatformInit
  <2>2. [PlatformNext]_platformVars => [GridNext]_gridVars
    BY TurnsAreSteps DEF ComponentSteps
  <2> QED BY <2>1, <2>2, PTL DEF PlatformSpec, GridSpec
<1>13. PlatformSpec => LiveSpec
  <2>1. PlatformInit => LiveInit
    BY DEF PlatformInit
  <2>2. [PlatformNext]_platformVars => [LiveNext]_liveVars
    BY TurnsAreSteps DEF ComponentSteps
  <2> QED BY <2>1, <2>2, PTL DEF PlatformSpec, LiveSpec
<1>14. PlatformSpec => ToolsSpec
  <2>1. PlatformInit => ToolsInit
    BY DEF PlatformInit
  <2>2. [PlatformNext]_platformVars => [ToolsNext]_toolsVars
    BY TurnsAreSteps DEF ComponentSteps
  <2> QED BY <2>1, <2>2, PTL DEF PlatformSpec, ToolsSpec
<1>15. PlatformSpec => NewsSpec
  <2>1. PlatformInit => NewsInit
    BY DEF PlatformInit
  <2>2. [PlatformNext]_platformVars => [NewsNext]_newsVars
    BY TurnsAreSteps DEF ComponentSteps
  <2> QED BY <2>1, <2>2, PTL DEF PlatformSpec, NewsSpec
<1>16. PlatformSpec => LearningSpec
  <2>1. PlatformInit => LearningInit
    BY DEF PlatformInit
  <2>2. [PlatformNext]_platformVars => [LearningNext]_learningVars
    BY TurnsAreSteps DEF ComponentSteps
  <2> QED BY <2>1, <2>2, PTL DEF PlatformSpec, LearningSpec
<1> QED
  BY <1>1, <1>2, <1>3, <1>4, <1>5, <1>6, <1>7, <1>8, <1>9, <1>10, <1>11, <1>12, <1>13, <1>14, <1>15, <1>16

(* Whichever component moves, its variables keep their types: the bounds of *)
(* every queue, counter, walk and table of the platform among them.         *)
THEOREM PlatformTypes == PlatformSpec => []PlatformTypeOK
<1>1. /\ TrailingInv => TrailingTypeOK
      /\ SchedInv => SchedTypeOK
      /\ MemoryInv => MemoryTypeOK
      /\ CandlesInv => CandlesTypeOK
      /\ SignalsInv => SignalsTypeOK
      /\ LiveInv => LiveTypeOK
  BY DEF TrailingInv, SchedInv, MemoryInv, CandlesInv, SignalsInv, LiveInv
<1>2. /\ TrailingTypeOK /\ OrdersTypeOK /\ BreakerTypeOK /\ SchedTypeOK
      /\ CyclesTypeOK /\ MemoryTypeOK /\ CandlesTypeOK /\ SignalsTypeOK
      /\ OutboundTypeOK /\ BacktestTypeOK /\ TuningTypeOK /\ GridTypeOK
      /\ LiveTypeOK /\ ToolsTypeOK /\ NewsTypeOK /\ LearningTypeOK
      => PlatformTypeOK
  BY DEF PlatformTypeOK
<1> QED
  BY <1>1, <1>2, PlatformRunsComponents,
     TrailingInvariant, OrdersTypes, BreakerTypes, SchedInvariant,
     CyclesTypes, MemoryInvariant, CandlesInvariant, SignalsInvariant,
     OutboundKeepsTypes, BacktestKeepsTypes, TuningTypes, GridTypes,
     LiveInvariant, ToolsTypes, NewsTypes, LearningTypes, PTL

(* What is checked of the platform, proved of it: the invariants of its     *)
(* components, that a trailing stop never retreats and is dropped for a     *)
(* cause only, and that the order manager keeps its promise.                *)
THEOREM PlatformKeepsPromises ==
    PlatformSpec =>
        /\ [](/\ LotsOutsideRow /\ ClosedWithinLimits /\ NextIsNextOccurrence
              /\ RateOvershoot /\ BudgetOvershoot /\ PatternEarnsValidity
              /\ CandlesFromTicks /\ StreamIsNewest /\ HeardIsCurrent
              /\ AgainstFilterOnlyByModel /\ CountOfPositions /\ TestedOnUnseen
              /\ OneOrderPerApproval /\ ServedIsRecent)
        /\ StopNeverRetreats /\ StopDroppedForCause /\ KeepsOrderPromise
BY PlatformRunsComponents,
   LotsAddUp, ClosedBreakerWithinLimits, NextRunIsNextOccurrence,
   RateOvershootBounded, BudgetOvershootBounded, PatternsEarnValidity,
   CandlesTellPrices, SlowClientGetsNewest, SubscribersHearCurrent,
   FilterYieldsToModelOnly, PositionsCounted, WalkForwardTestsOnUnseen,
   OrderSentOnce, NewsServedIsRecent, TrailingStopNeverRetreats, TrailingStopDroppedForCause,
   OrderManagerKeepsPromise, PTL
=============================================================================
