------------------------------- MODULE Tuning -------------------------------
(***************************************************************************)
(* Walk-forward analysis: keryxflow/backtester/walk_forward.py with the    *)
(* grid search of keryxflow/optimizer/engine.py.                           *)
(*                                                                         *)
(* Both write the parameters they try into the settings of the process.    *)
(* The timestamps, 1 .. stamps, are cut into windows; in each the grid is  *)
(* searched on the first part and the best parameters are validated on the *)
(* rest.  A backtest fails or returns a value of the metric, and the whole *)
(* analysis may be cancelled while it awaits one.                          *)
(***************************************************************************)
EXTENDS Integers, Sequences, FiniteSets

CONSTANTS
    Grid,            \* the combinations of the grid, in order
    DefaultParams,   \* the parameters in the settings of the user
    Metrics,         \* values of the metric, higher is better
    NumWindows,      \* num_windows
    OosPct,          \* oos_pct, in percent
    StampCounts      \* how many timestamps the data may have

ASSUME TuningAssumption ==
    /\ NumWindows \in Nat \ {0} /\ OosPct \in 0 .. 100 /\ StampCounts \subseteq Nat
    /\ Metrics \subseteq Int /\ Grid \in Seq({Grid[i] : i \in DOMAIN Grid})

VARIABLES
    settings,     \* the parameters in the settings of the process
    saved,        \* _original_settings
    stage,        \* where the analysis is
    stamps,       \* the number of timestamps
    window,       \* the index of the current window, from 0
    tried,        \* the combinations tried so far
    results,      \* the results, in order: parameters and metric
    reported      \* the windows of the result, with what was fitted and tested on what

tuningVars == <<settings, saved, stage, stamps, window, tried, results, reported>>

TuningInit ==
    /\ settings = DefaultParams /\ saved = DefaultParams
    /\ stage = "idle" /\ stamps = 0 /\ window = 0 /\ tried = 0
    /\ results = <<>> /\ reported = <<>>

-----------------------------------------------------------------------------
(* _split_windows(): the window i of n timestamps.                          *)
WindowStart(i, n) == i * (n \div NumWindows) + 1
WindowEnd(i, n) == IF i < NumWindows - 1 THEN (i + 1) * (n \div NumWindows) ELSE n

SplitIndex(size) ==
    LET share == (size * (100 - OosPct)) \div 100
        most == IF share < size - 1 THEN share ELSE size - 1
    IN  IF most < 1 THEN 1 ELSE most

SplitOverlaps(i, n) ==                                            \* with a bug
    LET from == WindowStart(i, n)  to == WindowEnd(i, n)
        cut == from + SplitIndex(to - from + 1)
    IN  [isFrom |-> from, isTo |-> cut, oosFrom |-> cut, oosTo |-> to]
Split(i, n) ==
    LET from == WindowStart(i, n)  to == WindowEnd(i, n)
        cut == from + SplitIndex(to - from + 1)
    IN  [isFrom |-> from, isTo |-> cut - 1, oosFrom |-> cut, oosTo |-> to]

BeginWalk(n) ==
    /\ stage = "idle" /\ n >= 2 * NumWindows
    /\ stage' = "window" /\ stamps' = n /\ window' = 0 /\ reported' = <<>>
    /\ UNCHANGED <<settings, saved, tried, results>>

BeginOptimize ==
    /\ stage = "window" /\ window < NumWindows
    /\ stage' = "grid" /\ saved' = settings /\ tried' = 0 /\ results' = <<>>
    /\ UNCHANGED <<settings, stamps, window, reported>>

TryCombination ==
    /\ stage = "grid" /\ tried < Len(Grid)
    /\ stage' = "running" /\ tried' = tried + 1
    /\ settings' = Grid[tried + 1]
    /\ UNCHANGED <<saved, stamps, window, results, reported>>

RunReturns(m) ==
    /\ stage = "running" /\ stage' = "grid"
    /\ results' = Append(results, [params |-> Grid[tried], metric |-> m])
    /\ UNCHANGED <<settings, saved, stamps, window, tried, reported>>

RunFails ==
    /\ stage = "running" /\ stage' = "grid"
    /\ UNCHANGED <<settings, saved, stamps, window, tried, results, reported>>

(* The results are sorted by the metric, best first; equal ones keep their  *)
(* order.                                                                   *)
Best(rs) == CHOOSE i \in DOMAIN rs :
               /\ \A j \in DOMAIN rs : rs[j].metric <= rs[i].metric
               /\ \A j \in 1 .. i - 1 : rs[j].metric < rs[i].metric

NextWindow == stage' = "window" /\ window' = window + 1

GridFindsNothing ==
    /\ stage = "grid" /\ tried = Len(Grid) /\ results = <<>>
    /\ NextWindow /\ settings' = saved
    /\ UNCHANGED <<saved, stamps, tried, results, reported>>

Validate ==
    /\ stage = "grid" /\ tried = Len(Grid) /\ results # <<>>
    /\ stage' = "validating" /\ settings' = results[Best(results)].params
    /\ UNCHANGED <<saved, stamps, window, tried, results, reported>>

ValidationReturns ==
    /\ stage = "validating" /\ NextWindow /\ settings' = saved
    /\ reported' = Append(reported, Split(window, stamps))
    /\ UNCHANGED <<saved, stamps, tried, results>>

ValidationFails ==
    /\ stage = "validating" /\ NextWindow /\ settings' = saved
    /\ UNCHANGED <<saved, stamps, tried, results, reported>>

Cancelled ==
    /\ stage \in {"running", "validating"} /\ stage' = "idle"
    /\ settings' = saved
    /\ UNCHANGED <<saved, stamps, window, tried, results, reported>>

EndWalk ==
    /\ stage = "window" /\ window = NumWindows
    /\ stage' = "idle"
    /\ UNCHANGED <<settings, saved, stamps, window, tried, results, reported>>

TuningNext ==
    \/ \E n \in StampCounts : BeginWalk(n)
    \/ BeginOptimize \/ TryCombination \/ RunFails \/ GridFindsNothing \/ Validate
    \/ \E m \in Metrics : RunReturns(m)
    \/ ValidationReturns \/ ValidationFails \/ Cancelled \/ EndWalk

TuningSpec == TuningInit /\ [][TuningNext]_tuningVars

-----------------------------------------------------------------------------
(* Type invariant of the analysis.                                          *)
TuningTypeOK ==
    /\ settings \in {DefaultParams} \cup {Grid[i] : i \in DOMAIN Grid}
    /\ saved \in {DefaultParams} \cup {Grid[i] : i \in DOMAIN Grid}
    /\ stage \in {"idle", "window", "grid", "running", "validating"}
    /\ stamps \in Nat /\ window \in 0 .. NumWindows /\ tried \in 0 .. Len(Grid)
    /\ Len(results) <= tried /\ Len(reported) <= window

(* Every window is validated on timestamps after those its parameters were  *)
(* fitted on, no timestamp counts in two windows, and the user's settings   *)
(* are back between windows and after the analysis, whatever failed and     *)
(* wherever it was cancelled: "30% tests it on unseen data",                *)
(* docs/user-guide.md; run(), walk_forward.py:234-249.                      *)
TestedOnUnseen ==
    /\ stage \in {"idle", "window"} => settings = DefaultParams
    /\ \A i \in DOMAIN reported :
         LET w == reported[i] IN
         /\ 1 <= w.isFrom /\ w.isFrom <= w.isTo /\ w.isTo < w.oosFrom
         /\ w.oosFrom <= w.oosTo /\ w.oosTo <= stamps
         /\ \A j \in DOMAIN reported : j < i => reported[j].oosTo < w.isFrom
=============================================================================
