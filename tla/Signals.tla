------------------------------ MODULE Signals -------------------------------
(***************************************************************************)
(* The signals of one symbol: keryxflow/oracle/signals.py, mtf_signals.py, *)
(* mtf_analyzer.py, the answers of brain.py and the engine's publication   *)
(* (keryxflow/core/engine.py).                                             *)
(*                                                                         *)
(* A signal starts from the technical analysis, is filtered by the trend   *)
(* of the longer timeframe, and is adjusted by what the model answers,     *)
(* which is awaited.  The generator publishes a significant change and     *)
(* then records it, to compare the next ones with.  The engine asks for    *)
(* signals from its price handler and, beside it, from the task that       *)
(* preloads candles, and publishes whatever it gets back, significant or   *)
(* not, once more.  The terminal calls the engine's generator from a       *)
(* thread of its own, with one timeframe and without the model, and        *)
(* publishes nothing itself.                                               *)
(* Confidences are in per mille, the price is Base.                        *)
(***************************************************************************)
EXTENDS Technical

CONSTANTS
    Charts,          \* readings of the primary timeframe
    FilterCharts,    \* readings of the filter timeframe
    LlmAnswers,      \* what the model answers: bias, recommendation, confidence
    MinFilter,       \* min_filter_confidence
    Mtf,             \* oracle.mtf.enabled: the engine analyses several timeframes
    MaxSignals       \* bound: signals generated

(* What the model says of its confidence is taken over as it is, whether it *)
(* is between 0 and 1 or not (brain.py:317).                                *)
ASSUME SignalsAssumption ==
    /\ MinFilter \in 0 .. 1000 /\ MaxSignals \in Nat /\ Mtf \in BOOLEAN
    /\ \A c \in Charts : c.atr[2] \in Int
    /\ \A a \in LlmAnswers : a.confidence \in Int

VARIABLES
    enough,      \* the primary timeframe has the 50 candles an analysis needs
    making,      \* caller -> the signal it is working on
    recorded,    \* _last_signals, or NoSignal
    heard,       \* the last signal that was published
    newest,      \* the last signal that was returned, and what it came from
    overlapped,  \* history: a signal was compared while another was still to be told
    made         \* bound

signalVars == <<enough, making, recorded, heard, newest, overlapped, made>>

Engines == {"prices", "preload"}
Generators == Engines \cup {"terminal"}
NoSignal == [type |-> "none", strength |-> None, confidence |-> 0, stop |-> 0, take |-> 0]
NoFilter == [trend |-> "neutral", confidence |-> 0]
(* What a signal came from: the filter and the recommendation that applied. *)
NotMade == [signal |-> NoSignal, filter |-> NoFilter, advice |-> "none"]
NotMaking == [phase |-> "idle", type |-> "none", confidence |-> 0, atr |-> 0,
              technical |-> "neutral", filter |-> NoFilter, result |-> NotMade]

SignalsInit ==
    /\ enough = FALSE /\ making = [g \in Generators |-> NotMaking]
    /\ recorded = NoSignal /\ heard = NoSignal /\ newest = NotMade
    /\ overlapped = FALSE /\ made = 0

-----------------------------------------------------------------------------
TechnicalToSignal(t) ==
    CASE t.trend = "bullish" /\ t.strength \in {Strong, Moderate} -> "long"
      [] t.trend = "bearish" /\ t.strength \in {Strong, Moderate} -> "short"
      [] OTHER -> "no_action"

FilteredUp(type, filter) ==                                      \* with a bug
    IF filter.confidence >= MinFilter /\ filter.trend = "bullish" /\ type = "short"
    THEN "no_action" ELSE type
Filtered(type, filter) ==
    IF /\ filter.confidence >= MinFilter
       /\ <<filter.trend, type>> \in {<<"bullish", "short">>, <<"bearish", "long">>}
    THEN "no_action" ELSE type

AlignedTrends(trends) == Cardinality(trends \ {"neutral"}) <= 1

AdjustedByFilter(confidence, aligned) ==
    IF ~aligned THEN (8 * confidence) \div 10
    ELSE Min({1000, (12 * confidence) \div 10})

Context(bias, advice, confidence) ==
    [bias |-> bias, advice |-> advice, confidence |-> confidence]
NoContext == Context("none", "none", 0)
Unparsed == Context("uncertain", "wait", 300)

(* Asked without news, the brain falls back on the technical trend.         *)
FallbackContext(technical) ==
    CASE technical = "bullish" -> Context("bullish", "buy", 500)
      [] technical = "bearish" -> Context("bearish", "sell", 500)
      [] OTHER                 -> Context("neutral", "hold", 500)

Answers(technical) == LlmAnswers \cup {NoContext, Unparsed, FallbackContext(technical)}

Against(type) == IF type = "long" THEN {"bearish", "strongly_bearish"}
                                  ELSE {"bullish", "strongly_bullish"}
Blend(confidence, llm, share) == (60 * confidence + 4 * share * llm.confidence) \div 100

(* _adjust_with_llm() and the weighted average: <<type, confidence>>.       *)
AdjustedByModel(type, confidence, llm) ==
    CASE llm = NoContext -> <<type, confidence>>
      [] llm # NoContext /\ type # "no_action" /\ llm.bias \in Against(type) ->
           <<"no_action", Blend(confidence, llm, 5)>>
      [] llm # NoContext /\ type # "no_action" /\ llm.bias \notin Against(type)
           /\ llm.advice = "wait" -> <<"no_action", Blend(confidence, llm, 7)>>
      [] type = "no_action" /\ llm.advice = "strong_buy" ->
           <<"long", Blend(confidence, llm, 8)>>
      [] type = "no_action" /\ llm.advice = "strong_sell" ->
           <<"short", Blend(confidence, llm, 8)>>
      [] OTHER -> <<type, Blend(confidence, llm, 10)>>

ConfidenceToStrength(c) ==
    CASE c >= 700 -> Strong [] c >= 500 -> Moderate [] c >= 300 -> Weak [] OTHER -> None

Base == 2000
Signal(type, confidence, atr) ==
    [type |-> type, strength |-> ConfidenceToStrength(confidence),
     confidence |-> confidence,
     stop |-> CASE type = "long" -> Base - 3 * atr [] type = "short" -> Base + 3 * atr
                [] OTHER -> 0,
     take |-> CASE type = "long" -> Base + 6 * atr [] type = "short" -> Base - 6 * atr
                [] OTHER -> 0]

SignificantSinceNewest(new) ==                                   \* with a bug
    \/ recorded = NoSignal
    \/ new.type # newest.signal.type
    \/ AbsOf(new.confidence - newest.signal.confidence) > 200
SignificantChange(new) ==
    \/ recorded = NoSignal
    \/ new.type # recorded.type
    \/ AbsOf(new.confidence - recorded.confidence) > 200
    \/ new.strength # recorded.strength

-----------------------------------------------------------------------------
Reached(phase, result) == [NotMaking EXCEPT !.phase = phase, !.result = result]

Starts(g, entry) ==
    /\ making[g].phase = "idle" /\ made < MaxSignals
    /\ made' = made + 1
    /\ making' = [making EXCEPT ![g] = entry]
    /\ UNCHANGED <<enough, recorded, heard, overlapped>>

CandlesSuffice ==
    /\ ~enough /\ enough' = TRUE
    /\ UNCHANGED <<making, recorded, heard, newest, overlapped, made>>

(* Fewer than 50 candles in the primary timeframe: a signal without action  *)
(* is returned, and nothing is compared or recorded.  The engine wants only *)
(* 20 candles, the terminal 50.                                             *)
LacksCandles(g) ==
    LET none == [NotMade EXCEPT !.signal = Signal("no_action", 0, 0)]
    IN  /\ ~enough
        /\ Starts(g, Reached("returned", none))
        /\ newest' = none

StartsSingle(g, c) ==
    LET t == Analysis(c) IN
    /\ enough /\ (g \in Engines => ~Mtf) /\ newest' = newest
    /\ Starts(g, [NotMaking EXCEPT !.phase = "asking", !.type = TechnicalToSignal(t),
                    !.confidence = t.confidence, !.atr = c.atr[2], !.technical = t.trend])

(* The filter timeframe may be too short: the primary one filters itself.   *)
StartsFramed(g, c, frames) ==
    LET t == Analysis(c)
        others == {Analysis(f) : f \in frames}
        filter == IF others = {} THEN t ELSE CHOOSE f \in others : TRUE
        aligned == AlignedTrends({t.trend} \cup {f.trend : f \in others})
    IN  /\ enough /\ Mtf /\ newest' = newest
        /\ Starts(g,
             [NotMaking EXCEPT !.phase = "asking",
                !.type = Filtered(TechnicalToSignal(t), filter),
                !.confidence = AdjustedByFilter(t.confidence, aligned),
                !.atr = c.atr[2], !.technical = t.trend,
                !.filter = [trend |-> filter.trend, confidence |-> filter.confidence]])

(* What the caller does with the signal it gets back.                       *)
Returned(g, result) ==
    /\ newest' = result
    /\ making' = [making EXCEPT ![g] =
                     IF g \in Engines THEN Reached("returned", result) ELSE NotMaking]

(* The model has answered: compare, and publish or return.                  *)
Compares(g, llm) ==
    /\ making[g].phase = "asking"
    /\ g = "terminal" => llm = NoContext
    /\ LET entry == making[g]
           adjusted == AdjustedByModel(entry.type, entry.confidence, llm)
           result == [signal |-> Signal(adjusted[1], adjusted[2], entry.atr),
                      filter |-> entry.filter, advice |-> llm.advice]
       IN  /\ overlapped' = (overlapped \/ \E h \in Generators \ {g} :
                                making[h].phase \notin {"idle", "asking"})
           /\ \/ /\ SignificantChange(result.signal)
                 /\ making' = [making EXCEPT ![g] = Reached("publishing", result)]
                 /\ UNCHANGED newest
              \/ ~SignificantChange(result.signal) /\ Returned(g, result)
    /\ UNCHANGED <<enough, recorded, heard, made>>

PublishesSignal(g) ==
    /\ making[g].phase = "publishing"
    /\ heard' = making[g].result.signal
    /\ making' = [making EXCEPT ![g].phase = "recording"]
    /\ UNCHANGED <<enough, recorded, newest, overlapped, made>>

RecordsSignal(g) ==
    /\ making[g].phase = "recording"
    /\ recorded' = making[g].result.signal
    /\ Returned(g, making[g].result)
    /\ UNCHANGED <<enough, heard, overlapped, made>>

(* _analyze_symbol(): the signal is published as it was returned.           *)
EnginePublishes(g) ==
    /\ making[g].phase = "returned"
    /\ heard' = making[g].result.signal
    /\ making' = [making EXCEPT ![g] = NotMaking]
    /\ UNCHANGED <<enough, recorded, newest, overlapped, made>>

(* The engine cancels its preload task when it stops, and the bus its       *)
(* processor, at an await: the model's answer, a put on the full queue.     *)
EngineCancelled(g) ==
    /\ making[g].phase \in {"asking", "publishing", "returned"}
    /\ making' = [making EXCEPT ![g] = NotMaking]
    /\ UNCHANGED <<enough, recorded, heard, newest, overlapped, made>>

SignalsNext ==
    \/ CandlesSuffice
    \/ \E g \in Engines :
         \/ LacksCandles(g) \/ EnginePublishes(g) \/ EngineCancelled(g)
         \/ \E c \in Charts, frames \in {{}} \cup {{f} : f \in FilterCharts} :
              StartsFramed(g, c, frames)
    \/ \E g \in Generators :
         \/ \E c \in Charts : StartsSingle(g, c)
         \/ \E llm \in Answers(making[g].technical) : Compares(g, llm)
         \/ PublishesSignal(g) \/ RecordsSignal(g)

SignalsSpec == SignalsInit /\ [][SignalsNext]_signalVars

-----------------------------------------------------------------------------
(* Type invariant of the generators.                                        *)
Phases == {"idle", "asking", "publishing", "recording", "returned"}
Trends == {"bullish", "bearish", "neutral"}
Advices == {"none", "wait", "buy", "sell", "hold"} \cup {a.advice : a \in LlmAnswers}
FilterResult == [trend : Trends, confidence : Int]
SignalRecord == [type : {"none", "no_action", "long", "short"}, strength : None .. Strong,
                 confidence : Int, stop : Int, take : Int]
Made == [signal : SignalRecord, filter : FilterResult, advice : Advices]

SignalsTypeOK ==
    /\ making \in [Generators -> [phase : Phases, type : {"none", "no_action", "long", "short"},
                                  confidence : Int, atr : Int, technical : Trends,
                                  filter : FilterResult, result : Made]]
    /\ recorded \in SignalRecord /\ heard \in SignalRecord /\ newest \in Made
    /\ overlapped \in BOOLEAN /\ enough \in BOOLEAN /\ made \in 0 .. MaxSignals

CloseTo(a, b) ==
    /\ a.type = b.type /\ a.strength = b.strength
    /\ AbsOf(a.confidence - b.confidence) <= 200

(* Once a signal is recorded and none is on its way, the subscribers heard  *)
(* last of one of the type and the strength of the last that was made, and  *)
(* of a confidence at most two thresholds away, however slowly the signals  *)
(* drift and whoever asked for them: both are within one threshold of the   *)
(* recorded one, though the engine publishes what is not significant and    *)
(* the terminal makes signals that nobody hears of.  Excepted is a signal   *)
(* compared while another was still to be published or recorded:            *)
(* generate_signal(), signals.py:217-222, and _analyze_symbol(),            *)
(* engine.py:594-600.                                                       *)
HeardIsCurrent ==
    (/\ ~overlapped /\ recorded # NoSignal
     /\ \A g \in Generators : making[g].phase \in {"idle", "asking"}) =>
        /\ heard.type = newest.signal.type /\ heard.strength = newest.signal.strength
        /\ AbsOf(heard.confidence - newest.signal.confidence) <= 400

(* A signal against the trend of a confident filter comes from the model's  *)
(* strong recommendation and from nothing else: apply_trend_filter() is     *)
(* applied before _adjust_with_llm(), mtf_signals.py:177 and 211.  That the *)
(* model can undo the filter is what the code does; the trading guide knows *)
(* no such exception: "LONG signals only pass if the 4h trend is bullish or *)
(* neutral" (docs/trading-guide.md:96).                                     *)
AgainstFilterOnlyByModel ==
    newest.filter.confidence >= MinFilter =>
      /\ (newest.filter.trend = "bearish" /\ newest.signal.type = "long")
            => newest.advice = "strong_buy"
      /\ (newest.filter.trend = "bullish" /\ newest.signal.type = "short")
            => newest.advice = "strong_sell"
=============================================================================
