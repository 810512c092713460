------------------------------ MODULE History -------------------------------
(***************************************************************************)
(* The history a backtest runs on, keryxflow/backtester/data.py: loaded    *)
(* from the exchange page by page or from a CSV file, checked, and         *)
(* resampled to coarser timeframes.                                        *)
(*                                                                         *)
(* The exchange has a set of candles, known by their times; a page has the *)
(* first of them from a time on, that time's own among them.  A bar is     *)
(* [at, open, high, low, close, volume], and bars are in the order of      *)
(* their times; a timeframe is a width that divides a day.                 *)
(***************************************************************************)
EXTENDS Integers, Sequences, FiniteSets, FiniteSetsExt, SequencesExt

CONSTANT PageSize   \* candles asked for at once: 1000

ASSUME HistoryAssumption == PageSize \in Nat \ {0, 1}

Page(candles, from) ==
    LET ahead == SetToSortSeq({t \in candles : t >= from}, <)
    IN SubSeq(ahead, 1, Min({PageSize, Len(ahead)}))

(* load_from_exchange(): the next page starts AT the last candle there is,  *)
(* which is loaded a second time; a page that is not full is the last.      *)
LoadedTimes(candles, start, end) ==
    LET pages[from \in start .. Max(candles \cup {start, end})] ==
            LET page == Page(candles, from)
            IN IF from >= end THEN <<>>
               ELSE IF Len(page) < PageSize THEN page
               ELSE page \o pages[Last(page)]
    IN SelectSeq(pages[start], LAMBDA t : start <= t /\ t <= end)

(* It raises when there was nothing from the start on.                      *)
HistoryFound(candles, start, end) == start < end /\ Page(candles, start) # <<>>

(* validate_data(): what a CSV file has in its columns, as a function from  *)
(* their names to the kinds of their values.                                *)
NumberColumns == {"open", "high", "low", "close", "volume"}
ValidData(file) ==
    /\ {"datetime"} \cup NumberColumns \subseteq DOMAIN file
    /\ "null" \notin file["datetime"]
    /\ \A c \in NumberColumns : file[c] = {"number"}

(* resample(): a width without a bar has none in the answer.                *)
Opening(at, width) == (at \div width) * width

Merged(at, part) ==
    [at |-> at, open |-> part[1].open, close |-> Last(part).close,
     high |-> Max({part[i].high : i \in DOMAIN part}),
     low |-> Min({part[i].low : i \in DOMAIN part}),
     volume |-> FoldSeq(LAMBDA bar, sum : sum + bar.volume, 0, part)]

Resampled(bars, width) ==
    LET openings == SetToSortSeq({Opening(bar.at, width) : bar \in Range(bars)}, <)
    IN [k \in DOMAIN openings |->
            Merged(openings[k], SelectSeq(bars, LAMBDA bar : Opening(bar.at, width) = openings[k]))]

(* load_multi_timeframe(): the finest is loaded, the others made from it.   *)
MultiTimeframe(bars, widths) ==
    [w \in widths |-> IF w = Min(widths) THEN bars ELSE Resampled(bars, w)]
=============================================================================
