------------------------------ MODULE Backtest ------------------------------
(***************************************************************************)
(* The runs of keryxflow/backtester/engine.py, one after the other as the  *)
(* optimizer starts them, with the risk manager of the process             *)
(* (keryxflow/aegis/risk.py) that all of them share.                       *)
(*                                                                         *)
(* A run goes through its timestamps; at each it handles the candle of     *)
(* every symbol in turn and then values the account.  A position is one    *)
(* unit: sizes are left out, and so are the guardrails, which see an empty *)
(* portfolio here.  Slippage and commission are amounts.  The generator    *)
(* never returns CLOSE_LONG or CLOSE_SHORT; the date does not change.      *)
(***************************************************************************)
EXTENDS Integers, Sequences, FiniteSets, FiniteSetsExt

CONSTANTS
    Pairs,           \* the symbols of the data, in the order of their turns
    Bars,            \* candles: high, low, close
    Gaps,            \* distances of a signal's stop from its entry, 0 among them
    InitialBalance,  \* initial_balance
    Slip,            \* slippage
    Commission,      \* commission
    MaxPositions,    \* max_open_positions
    MaxDailyLoss,    \* max_daily_drawdown, in percent
    MaxBars,         \* bound: timestamps of a run
    MaxRuns          \* bound: runs

PairSet == {Pairs[i] : i \in DOMAIN Pairs}

ASSUME BacktestAssumption ==
    /\ Pairs \in Seq(PairSet)
    /\ {InitialBalance, Slip, Commission, MaxPositions, MaxBars, MaxRuns} \subseteq Nat
    /\ MaxDailyLoss \in 0 .. 100 /\ Gaps \subseteq Nat
    /\ Bars # {} /\ Bars \subseteq [high : Int, low : Int, close : Int]
    /\ \A b \in Bars : b.high >= b.close /\ b.close >= b.low

VARIABLES
    run,        \* the run's phase, the symbol whose turn it is, timestamps so far
    bar,        \* symbol -> its current candle
    cash,       \* balance
    holds,      \* symbol -> the open position, or NoHold
    trades,     \* history: what the trades gained in all, and how many were short
    manager,    \* the risk manager: count of positions, pnl, balances, breaker
    runs,       \* bound
    abandoned   \* history: a run raised, and no position opened or closed since

backtestVars == <<run, bar, cash, holds, trades, manager, runs, abandoned>>

NoHold == [side |-> "none", entry |-> 0, stop |-> 0, take |-> 0, price |-> 0, since |-> 0]
NoTrades == [gained |-> 0, shorts |-> 0]
Held(h) == {s \in DOMAIN h : h[s] # NoHold}

BacktestInit ==
    /\ run = [phase |-> "idle", turn |-> 0, bars |-> 0]
    /\ bar = [s \in PairSet |-> CHOOSE b \in Bars : TRUE]
    /\ cash = InitialBalance /\ holds = [s \in PairSet |-> NoHold]
    /\ trades = NoTrades
    /\ manager = [count |-> 0, pnl |-> 0, start |-> InitialBalance,
                  balance |-> InitialBalance, breaker |-> FALSE, today |-> FALSE]
    /\ runs = 0 /\ abandoned = FALSE

-----------------------------------------------------------------------------
Unrealized(h) == IF h.side = "buy" THEN h.price - h.entry ELSE h.entry - h.price
Equity == cash + MapThenSumSet(LAMBDA s : Unrealized(holds[s]), Held(holds))

(* _close_position(): the fill, the trade's pnl, the account and the        *)
(* manager, for the state `a` = [cash, holds, trades, manager].             *)
ExitFill(side, price) == IF side = "buy" THEN price - Slip ELSE price + Slip
Pnl(h, fill) ==
    (IF h.side = "buy" THEN fill - h.entry ELSE h.entry - fill) - Commission

ClosedUncounted(a, s, price) ==                                   \* with a bug
    LET fill == ExitFill(a.holds[s].side, price) IN
    [a EXCEPT !.cash = @ + fill, !.holds[s] = NoHold,
              !.trades.gained = @ + Pnl(a.holds[s], fill),
              !.manager.pnl = Pnl(a.holds[s], fill)]
Closed(a, s, price) ==
    LET h == a.holds[s]
        fill == ExitFill(h.side, price)
    IN  [cash |-> a.cash + fill,
         holds |-> [a.holds EXCEPT ![s] = NoHold],
         trades |-> [gained |-> a.trades.gained + Pnl(h, fill),
                     shorts |-> a.trades.shorts + (IF h.side = "sell" THEN 1 ELSE 0)],
         manager |-> [a.manager EXCEPT !.count = Cardinality(Held(a.holds) \ {s}),
                                       !.pnl = Pnl(h, fill)]]

Account == [cash |-> cash, holds |-> holds, trades |-> trades, manager |-> manager]
Becomes(a) ==
    /\ cash' = a.cash /\ holds' = a.holds /\ trades' = a.trades /\ manager' = a.manager

(* Every position is closed, in the order in which they were opened.        *)
Openings ==
    {o \in [1 .. Len(Pairs) -> PairSet] :
        /\ PairSet = {o[i] : i \in 1 .. Len(Pairs)}
        /\ \A i, j \in 1 .. Len(Pairs) :
              i < j /\ {o[i], o[j]} \subseteq Held(holds) => holds[o[i]].since < holds[o[j]].since}
ClosedIfHeld(a, s, price) ==
    IF a.holds[s] = NoHold THEN a ELSE Closed(a, s, price[s])
ClosedUpTo(a, order, price) ==
    LET f[i \in 0 .. Len(Pairs)] ==
          IF i = 0 THEN a ELSE ClosedIfHeld(f[i - 1], order[i], price)
    IN  f
AllClosed(a, order, price) == ClosedUpTo(a, order, price)[Len(Pairs)]

(* The price at which a stop or a target of the position is hit, or none.   *)
StopHit(h, b) == IF h.side = "buy" THEN b.low <= h.stop ELSE b.high >= h.stop
TakeHit(h, b) == IF h.side = "buy" THEN b.high >= h.take ELSE b.low <= h.take

-----------------------------------------------------------------------------
BeginRun ==
    /\ run.phase = "idle" /\ runs < MaxRuns
    /\ runs' = runs + 1
    /\ run' = [phase |-> "between", turn |-> 0, bars |-> 0]
    /\ cash' = InitialBalance /\ holds' = [s \in PairSet |-> NoHold]
    /\ trades' = NoTrades
    /\ UNCHANGED <<bar, manager, abandoned>>

(* A symbol without a candle at the timestamp keeps the one before.         *)
NextTimestamp(bars) ==
    /\ run.phase = "between" /\ run.bars < MaxBars
    /\ run' = [phase |-> "candles", turn |-> 1, bars |-> run.bars + 1]
    /\ bar' = bars
    /\ UNCHANGED <<cash, holds, trades, manager, runs, abandoned>>

OnTurn(s) == run.phase = "candles" /\ run.turn <= Len(Pairs) /\ s = Pairs[run.turn]
TurnEnds == run' = [run EXCEPT !.turn = @ + 1]

ExitHits(s) ==
    /\ OnTurn(s) /\ TurnEnds /\ holds[s] # NoHold
    /\ LET h == holds[s] IN
       /\ StopHit(h, bar[s]) \/ TakeHit(h, bar[s])
       /\ Becomes(Closed(Account, s, IF StopHit(h, bar[s]) THEN h.stop ELSE h.take))
    /\ abandoned' = FALSE
    /\ UNCHANGED <<bar, runs>>

KeepsPosition(s) ==
    /\ OnTurn(s) /\ TurnEnds /\ holds[s] # NoHold
    /\ ~StopHit(holds[s], bar[s]) /\ ~TakeHit(holds[s], bar[s])
    /\ holds' = [holds EXCEPT ![s].price = bar[s].close]
    /\ UNCHANGED <<bar, cash, trades, manager, runs, abandoned>>

NoEntry(s) ==
    /\ OnTurn(s) /\ TurnEnds /\ holds[s] = NoHold
    /\ UNCHANGED <<bar, cash, holds, trades, manager, runs, abandoned>>

(* approve_order(): the manager after the day's reset, and the answer.      *)
DayReset(m) ==
    IF m.today THEN m ELSE [m EXCEPT !.today = TRUE, !.start = m.balance, !.pnl = 0]
LossReached(m) == m.start > 0 /\ 0 - 100 * m.pnl >= MaxDailyLoss * m.start
Approves(m, price) ==
    ~m.breaker /\ ~LossReached(m) /\ m.count < MaxPositions /\ price <= cash

SignalRejected(s) ==
    LET m == DayReset(manager) IN
    /\ OnTurn(s) /\ TurnEnds /\ holds[s] = NoHold /\ ~Approves(m, bar[s].close)
    /\ manager' = [m EXCEPT !.breaker = @ \/ LossReached(m)]
    /\ UNCHANGED <<bar, cash, holds, trades, runs, abandoned>>

SignalFills(s, side, gap) ==
    LET m == DayReset(manager)
        price == bar[s].close
        fill == IF side = "buy" THEN price + Slip ELSE price - Slip
        away == IF side = "buy" THEN gap ELSE 0 - gap
    IN
    /\ OnTurn(s) /\ TurnEnds /\ holds[s] = NoHold
    /\ gap # 0 /\ Approves(m, price)
    /\ cash' = cash - (fill + Commission)
    /\ holds' = [holds EXCEPT ![s] = [side |-> side, entry |-> fill, price |-> fill,
                                      stop |-> price - away, take |-> price + 2 * away,
                                      since |-> run.bars * Len(Pairs) + run.turn]]
    /\ manager' = [m EXCEPT !.count = Cardinality(Held(holds'))]
    /\ abandoned' = FALSE
    /\ UNCHANGED <<bar, trades, runs>>

(* The size of a position whose stop is its entry: position_size() raises,  *)
(* and nobody in the run catches it.                                        *)
SizeRaises(s, gap) ==
    /\ OnTurn(s) /\ holds[s] = NoHold /\ gap = 0
    /\ run' = [run EXCEPT !.phase = "idle"]
    /\ abandoned' = TRUE
    /\ UNCHANGED <<bar, cash, holds, trades, manager, runs>>

ValuesAccount(order) ==
    LET closes == [s \in PairSet |-> holds[s].price]
        broke == 100 * Equity <= InitialBalance /\ Held(holds) # {}
        after == IF broke THEN AllClosed(Account, order, closes) ELSE Account
    IN
    /\ run.phase = "candles" /\ run.turn > Len(Pairs)
    /\ run' = [run EXCEPT !.phase = "between"]
    /\ Becomes([after EXCEPT !.manager.balance = IF broke THEN after.cash ELSE Equity])
    /\ abandoned' = (abandoned /\ ~broke)
    /\ UNCHANGED <<bar, runs>>

EndRun(order) ==
    /\ run.phase = "between" /\ run.bars > 0
    /\ run' = [run EXCEPT !.phase = "idle"]
    /\ Becomes(AllClosed(Account, order, [s \in PairSet |-> bar[s].close]))
    /\ abandoned' = (abandoned /\ Held(holds) = {})
    /\ UNCHANGED <<bar, runs>>

BacktestNext ==
    \/ BeginRun
    \/ \E order \in Openings : ValuesAccount(order) \/ EndRun(order)
    \/ \E bars \in [PairSet -> Bars] : NextTimestamp(bars)
    \/ \E s \in PairSet :
         \/ ExitHits(s) \/ KeepsPosition(s) \/ NoEntry(s) \/ SignalRejected(s)
         \/ \E gap \in Gaps : \/ SizeRaises(s, gap)
                              \/ \E side \in {"buy", "sell"} : SignalFills(s, side, gap)

BacktestSpec == BacktestInit /\ [][BacktestNext]_backtestVars

-----------------------------------------------------------------------------
(* Type invariant of the runs.                                              *)
BacktestTypeOK ==
    /\ run.phase \in {"idle", "between", "candles"} /\ run.bars \in 0 .. MaxBars
    /\ run.turn \in 0 .. Len(Pairs) + 1
    /\ bar \in [PairSet -> Bars] /\ cash \in Int /\ runs \in 0 .. MaxRuns
    /\ \A s \in PairSet : holds[s].side \in {"none", "buy", "sell"}
    /\ trades.gained \in Int /\ trades.shorts \in Nat
    /\ manager.count \in 0 .. Len(Pairs) /\ manager.breaker \in BOOLEAN

(* The manager of the process, which limits the open positions of every     *)
(* run, counts the positions of the current run, through stops, targets,    *)
(* liquidation and the end of a run, unless a run was abandoned by an       *)
(* exception and nothing was opened or closed since:                        *)
(* set_open_positions(), engine.py:470 and 533.                             *)
CountOfPositions == ~abandoned => manager.count = Cardinality(Held(holds))

(* What the account gained over a run is what its trades gained: "Total     *)
(* return -- Percentage gain/loss over the period", docs/user-guide.md.     *)
(* _close_position() adds the value of the exit to the balance for both     *)
(* sides, and the opening has deducted the value of the entry.              *)
ReturnFollowsTrades ==
    (run.phase = "idle" /\ ~abandoned /\ Held(holds) = {}) => cash = InitialBalance + trades.gained
=============================================================================
