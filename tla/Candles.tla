------------------------------ MODULE Candles --------------------------------
(***************************************************************************)
(* Candles of one symbol in several timeframes: keryxflow/core/mtf_buffer  *)
(* and the engine's price handler and preload (keryxflow/core/engine.py).  *)
(*                                                                         *)
(* Every price the engine accepts goes into every timeframe.  Candles of   *)
(* the past are loaded in the background, a timeframe at a time, while     *)
(* prices arrive: they are appended to whatever is there.  A timeframe is  *)
(* its interval, in units of the clock; volumes are left out.  An analysis *)
(* is one step here, and only when it began matters.                       *)
(***************************************************************************)
EXTENDS Integers, Sequences, FiniteSets

CONSTANTS
    Frames,         \* configured timeframes
    Primary,        \* the one whose candles are counted
    CandlePrices,   \* prices
    MaxCandles,     \* max_candles
    MinCandles,     \* _min_candles
    Interval,       \* _analysis_interval
    Loaded,         \* bound: candles of the past that are loaded
    LastTime,       \* bound: the clock stops there
    MaxPrices       \* bound: prices accepted

ASSUME CandlesAssumption ==
    /\ Frames \subseteq Nat \ {0} /\ Primary \in Frames /\ IsFiniteSet(Frames)
    /\ CandlePrices \subseteq Nat \ {0}
    /\ {MaxCandles, MinCandles, Loaded} \subseteq Nat \ {0}
    /\ {Interval, LastTime, MaxPrices} \subseteq Nat

VARIABLES
    time,        \* the clock
    done,        \* timeframe -> candles: the completed candles, oldest first
    current,     \* timeframe -> current_candle, or NoCandle
    preload,     \* timeframe -> how far its preload is
    analysis,    \* _last_analysis, and whether the initial one is over
    paused,      \* _paused
    told         \* history: <<time, price>> of every price accepted

candleVars == <<time, done, current, preload, analysis, paused, told>>

NoCandle == [at |-> -1, open |-> 0, high |-> 0, low |-> 0, close |-> 0, live |-> FALSE]
Unknown == -1

CandlesInit ==
    /\ time = 0
    /\ done = [f \in Frames |-> <<>>]
    /\ current = [f \in Frames |-> NoCandle]
    /\ preload = [f \in Frames |-> "asked"]
    /\ analysis = [last |-> Unknown, initial |-> FALSE]
    /\ paused = FALSE /\ told = <<>>

Newest(s) == IF Len(s) > MaxCandles THEN SubSeq(s, Len(s) - MaxCandles + 1, Len(s)) ELSE s
Start(f, u) == (u \div f) * f

-----------------------------------------------------------------------------
(* TimeframeBuffer.add_price().  Mutated form of Extended: the close is the *)
(* only thing that follows the price.                                       *)
Opened(f, p) == [at |-> Start(f, time), open |-> p, high |-> p, low |-> p, close |-> p,
                 live |-> TRUE]

ExtendedCloseOnly(k, p) == [k EXCEPT !.close = p]

Extended(k, p) ==
    [k EXCEPT !.close = p, !.high = IF p > @ THEN p ELSE @, !.low = IF p < @ THEN p ELSE @]

Continues(f) == current[f].at = Start(f, time)
Completes(f) == ~Continues(f) /\ current[f] # NoCandle

AddPrice(p) ==
    /\ current' = [f \in Frames |->
                      IF Continues(f) THEN Extended(current[f], p) ELSE Opened(f, p)]
    /\ done' = [f \in Frames |->
                   IF Completes(f) THEN Newest(Append(done[f], current[f])) ELSE done[f]]

(* _should_analyze(), after the price was added.                            *)
ShouldAnalyze ==
    /\ Len(done'[Primary]) >= MinCandles
    /\ \/ analysis.last = Unknown \/ time - analysis.last >= Interval
       \/ \E f \in Frames : Completes(f)

(* _on_price_update(): a pause drops the price.                             *)
AcceptPrice(p) ==
    /\ ~paused /\ Len(told) < MaxPrices
    /\ AddPrice(p)
    /\ told' = Append(told, <<time, p>>)
    /\ analysis' = IF ShouldAnalyze THEN [analysis EXCEPT !.last = time] ELSE analysis
    /\ UNCHANGED <<time, preload, paused>>

PausesOrResumes ==
    /\ paused' = ~paused
    /\ UNCHANGED <<time, done, current, preload, analysis, told>>

-----------------------------------------------------------------------------
(* _preload_mtf_ohlcv(): the exchange answers with its last candles, the    *)
(* one still open among them; they are added in one go, after the candles   *)
(* of the prices that came first: the buffer is not sorted.                 *)
Past(f) == [i \in 1 .. Loaded |->
               [NoCandle EXCEPT !.at = Start(f, time) - (Loaded - i) * f, !.open = 1,
                                !.high = 1, !.low = 1, !.close = 1]]

PreloadAnswers(f) ==
    /\ preload[f] = "asked"
    /\ preload' = [preload EXCEPT ![f] = "loaded"]
    /\ done' = [done EXCEPT ![f] = Newest(@ \o Past(f))]
    /\ UNCHANGED <<time, current, analysis, paused, told>>

PreloadFails(f) ==
    /\ preload[f] = "asked"
    /\ preload' = [preload EXCEPT ![f] = "failed"]
    /\ UNCHANGED <<time, done, current, analysis, paused, told>>

(* _initial_analysis() counts the current candle as well.                   *)
InitialAnalysis ==
    /\ \A f \in Frames : preload[f] # "asked"
    /\ ~analysis.initial
    /\ LET n == Len(done[Primary]) + IF current[Primary] = NoCandle THEN 0 ELSE 1
       IN  analysis' = [last |-> IF n >= MinCandles THEN time ELSE analysis.last,
                        initial |-> TRUE]
    /\ UNCHANGED <<time, done, current, preload, paused, told>>

TimeGoesOn ==
    /\ time < LastTime /\ time' = time + 1
    /\ UNCHANGED <<done, current, preload, analysis, paused, told>>

CandlesNext ==
    \/ \E p \in CandlePrices : AcceptPrice(p)
    \/ \E f \in Frames : PreloadAnswers(f) \/ PreloadFails(f)
    \/ PausesOrResumes \/ InitialAnalysis \/ TimeGoesOn

CandlesSpec == CandlesInit /\ [][CandlesNext]_candleVars

-----------------------------------------------------------------------------
Candle == [at : Int, open : Nat, high : Nat, low : Nat, close : Nat, live : BOOLEAN]

CandlesTypeOK ==
    /\ time \in Nat /\ paused \in BOOLEAN
    /\ done \in [Frames -> Seq(Candle)] /\ current \in [Frames -> Candle]
    /\ preload \in [Frames -> {"asked", "loaded", "failed"}]
    /\ analysis \in [last : Int, initial : BOOLEAN]
    /\ told \in Seq(Nat \X Nat)
    /\ \A f \in Frames : Len(done[f]) <= MaxCandles

(* A candle made from prices is the first, the highest, the lowest and the  *)
(* last of those accepted in its interval, in every timeframe, whatever the *)
(* preload added meanwhile (mtf_buffer.py:62).                              *)
TicksOf(f, at) == {i \in DOMAIN told : Start(f, told[i][1]) = at}
Agrees(k, f) ==
    LET ticks == TicksOf(f, k.at) IN
    /\ \E i \in ticks : k.open = told[i][2] /\ \A j \in ticks : i <= j
    /\ \E i \in ticks : k.close = told[i][2] /\ \A j \in ticks : j <= i
    /\ \E i \in ticks : k.high = told[i][2] /\ \A j \in ticks : told[j][2] <= k.high
    /\ \E i \in ticks : k.low = told[i][2] /\ \A j \in ticks : k.low <= told[j][2]

CandlesFromTicks ==
    \A f \in Frames :
        /\ current[f] # NoCandle => Agrees(current[f], f)
        /\ \A i \in DOMAIN done[f] : done[f][i].live => Agrees(done[f][i], f)
=============================================================================
