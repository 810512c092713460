------------------------------- MODULE Aegis -------------------------------
(***************************************************************************)
(* The risk layer: RiskManager (aegis/risk.py), the guardrails             *)
(* (aegis/guardrails.py) and the portfolio they are checked against        *)
(* (aegis/portfolio.py), driven by the coroutines that use them: the       *)
(* agent's place_order and close_position tools and the engine's signals.  *)
(*                                                                         *)
(* An approval and the entry of the position it allows are separated by    *)
(* the awaits of the execution.  The paper account is here at the grain of *)
(* one call (PaperTrading has its insides).  Money is in whole units and   *)
(* quantities in whole lots; slippage is left out, but a market order      *)
(* fills at whatever the price is then.                                    *)
(*                                                                         *)
(* `stale`, `drift` and `realized` are history variables.                  *)
(***************************************************************************)
EXTENDS Integers, FiniteSets, SequencesExt

CONSTANTS
    Symbols, Prices,
    Orders,            \* requests of the tool: [sym, side, qty, price, stop]
    Signals,           \* actionable signals: [sym, side, price, stop]
    Actors,            \* coroutines that trade
    InitialBalance,
    NoStop, NoRow, NoSymbol,
    MaxPositionPct, MaxExposurePct, MinReservePct, MaxTradeRiskPct,
    MaxDailyLossPct, MaxWeeklyLossPct, MaxDrawdownPct,
    MaxTradesPerHour, MaxTradesPerDay, LossesHalt,    \* TradingGuardrails
    RiskPct, ProfileDrawdownPct, MaxOpenPositions,    \* RiskProfileConfig
    MaxDays,           \* bound: days
    MaxTries           \* bound: approvals and closes by the tools

ASSUME AegisAssumption ==
    /\ Prices \subseteq Nat \ {0}
    /\ InitialBalance \in Nat \ {0}
    /\ IsFiniteSet(Symbols) /\ IsFiniteSet(Actors)
    /\ MaxDays \in Nat \ {0} /\ MaxTries \in Nat
    /\ {RiskPct, MaxExposurePct, MinReservePct, MaxTradesPerHour, MaxTradesPerDay} \subseteq Nat
    /\ Orders \subseteq [sym : Symbols, side : {"buy", "sell"}, qty : Nat \ {0},
                         price : Prices, stop : (Nat \ {0}) \cup {NoStop}]
    /\ Signals \subseteq [sym : Symbols, side : {"buy", "sell"}, price : Prices, stop : Nat \ {0}]
    /\ \A s \in Signals : s.stop # s.price
    /\ NoStop \notin Nat
    /\ NoSymbol \notin Symbols
    /\ NoRow \notin [side : {"buy", "sell"}, qty : Nat, cost : Nat]

VARIABLES
    day,               \* the calendar day
    rm,                \* RiskManager
    pf,                \* PortfolioState
    free, coins, rows, \* the paper account: cash, coins, positions table
    act,               \* what each actor is in the middle of
    tries,             \* bound: approvals and closes by the tools
    stale,             \* history: actors whose approval the portfolio has outlived
    drift,             \* history: ways in which the portfolio left the account
    realized           \* history: profit of the account's closes since midnight

account == <<free, coins, rows>>
vars == <<day, rm, pf, account, act, tries, stale, drift, realized>>

Abs(x) == IF x < 0 THEN -x ELSE x
MaxOf(x, y) == IF x > y THEN x ELSE y
RunningSums(v) ==
    LET upTo[i \in 0 .. Len(v)] == IF i = 0 THEN 0 ELSE upTo[i - 1] + v[i]
    IN  upTo
SumSeq(v) == RunningSums(v)[Len(v)]
SumOf(Value(_), s) == SumSeq([i \in 1 .. Len(s) |-> Value(s[i])])

-----------------------------------------------------------------------------
(* PositionState.  Only the side "long" gains when the price rises.         *)
EntryValue(p) == p.qty * p.entry
PositionValue(p) == p.qty * p.current

UnrealizedPnl(p) ==
    IF p.side = "long" THEN (p.current - p.entry) * p.qty ELSE (p.entry - p.current) * p.qty

RiskToStop(p) ==
    IF p.stop = NoStop THEN PositionValue(p)
    ELSE p.qty * MaxOf(0, IF p.side = "long" THEN p.entry - p.stop ELSE p.stop - p.entry)

(* PortfolioState. *)
TotalExposure(q) == SumOf(PositionValue, q.positions)
TotalRiskAtStop(q) == SumOf(RiskToStop, q.positions)

(* Mutated form of UpdateTotalValue: the positions are left out.            *)
UpdateTotalCash(q) == [q EXCEPT !.total = q.cash, !.peak = MaxOf(@, q.cash)]

UpdateTotalValue(q) ==
    LET total == q.cash + TotalExposure(q)
    IN  [q EXCEPT !.total = total, !.peak = MaxOf(@, total)]

AddPosition(q, p) ==
    UpdateTotalValue([q EXCEPT !.positions = Append(@, p), !.cash = @ - EntryValue(p),
                               !.today = @ + 1, !.hour = @ + 1])

IndexOf(q, s) == SelectInSeq(q.positions, LAMBDA p : p.sym = s)
Tracks(q, s) == IndexOf(q, s) # 0
ClosedPnl(q, s, price) ==
    UnrealizedPnl([q.positions[IndexOf(q, s)] EXCEPT !.current = price])

(* Mutated form of RemovePosition: the newest entry goes.                   *)
RemovePositionLast(q, s, price) ==
    LET pnl == ClosedPnl(q, s, price)
    IN  UpdateTotalValue([q EXCEPT !.cash = @ + EntryValue(q.positions[IndexOf(q, s)]) + pnl,
                                   !.dayPnl = @ + pnl, !.weekPnl = @ + pnl,
                                   !.losses = IF pnl < 0 THEN @ + 1 ELSE 0,
                                   !.positions = Front(@)])

(* close_position() of a symbol that is there: the first entry goes.        *)
RemovePosition(q, s, price) ==
    LET i == IndexOf(q, s)
        pnl == ClosedPnl(q, s, price)
    IN  UpdateTotalValue([q EXCEPT !.cash = @ + EntryValue(q.positions[i]) + pnl,
                                   !.dayPnl = @ + pnl, !.weekPnl = @ + pnl,
                                   !.losses = IF pnl < 0 THEN @ + 1 ELSE 0,
                                   !.positions = RemoveAt(@, i)])

ResetDaily(q) == [q EXCEPT !.dayStart = q.total, !.dayPnl = 0, !.today = 0]

-----------------------------------------------------------------------------
(* GuardrailEnforcer.validate_order(): percentages are cross-multiplied.    *)
OrderValue(o) == o.qty * o.price
TradeRisk(o) == o.qty * Abs(o.price - o.stop)

SizeAllowed(q, o) ==
    /\ q.total > 0
    /\ 100 * OrderValue(o) <= MaxPositionPct * q.total
    /\ 100 * (TotalExposure(q) + OrderValue(o)) <= MaxExposurePct * q.total
    /\ 100 * (q.cash - OrderValue(o)) >= MinReservePct * q.total

RiskAllowed(q, o) ==
    o.stop # NoStop =>
        /\ 100 * TradeRisk(o) <= MaxTradeRiskPct * q.total
        /\ 100 * (TotalRiskAtStop(q) + TradeRisk(o)) <= MaxDailyLossPct * q.total

ReachesLimit(pnl, pct, start) == pnl < 0 /\ 100 * (-pnl) >= pct * start

LossesAllowed(q) ==
    /\ ~ReachesLimit(q.dayPnl, MaxDailyLossPct, q.dayStart)
    /\ ~ReachesLimit(q.weekPnl, MaxWeeklyLossPct, InitialBalance)
    /\ q.losses < LossesHalt

RateAllowed(q) == q.today < MaxTradesPerDay /\ q.hour < MaxTradesPerHour

(* Mutated form of GuardrailsAllow: the exposure is not looked at.          *)
GuardrailsAllowSize(q, o) ==
    /\ q.total > 0 /\ 100 * OrderValue(o) <= MaxPositionPct * q.total
    /\ RiskAllowed(q, o) /\ LossesAllowed(q) /\ RateAllowed(q)

GuardrailsAllow(q, o) ==
    SizeAllowed(q, o) /\ RiskAllowed(q, o) /\ LossesAllowed(q) /\ RateAllowed(q)

-----------------------------------------------------------------------------
(* RiskManager.approve_order(): the day is reset first, then the guardrails *)
(* and then the limits of the profile.  The two drawdown checks switch the  *)
(* circuit breaker on, for good.  Mutated form of DayReset: the profit of   *)
(* the day is kept.                                                         *)
DayResetKeepsPnl(r) ==
    IF r.lastReset = day THEN r ELSE [r EXCEPT !.dayStart = r.balance, !.lastReset = day]

DayReset(r) ==
    IF r.lastReset = day THEN r
    ELSE [r EXCEPT !.dayStart = r.balance, !.dayPnl = 0, !.lastReset = day]

PortfolioReset(r, q) == IF r.lastReset = day THEN q ELSE ResetDaily(q)

DailyDrawdownHit(r) == r.dayStart > 0 /\ 100 * (-r.dayPnl) >= ProfileDrawdownPct * r.dayStart
TotalDrawdownHit(q) == q.peak > 0 /\ 100 * (q.peak - q.total) >= MaxDrawdownPct * q.peak

(* Quantity against ten per cent more than the safe size, value against     *)
(* the balance.                                                             *)
SizedRight(o, balance) ==
    /\ o.stop # NoStop /\ o.stop # o.price
    /\ 1000 * TradeRisk(o) <= 11 * RiskPct * balance
    /\ OrderValue(o) <= balance

Approves(r, q, o, balance) ==
    /\ GuardrailsAllow(q, o)
    /\ ~r.breaker /\ ~DailyDrawdownHit(r) /\ ~TotalDrawdownHit(q)
    /\ r.count < MaxOpenPositions
    /\ SizedRight(o, balance)

(* Mutated form of TripsBreaker: it is worked out anew for every order.     *)
TripsBreakerAnew(r, q, o) ==
    GuardrailsAllow(q, o) /\ (DailyDrawdownHit(r) \/ TotalDrawdownHit(q))

TripsBreaker(r, q, o) ==
    \/ r.breaker
    \/ GuardrailsAllow(q, o) /\ (DailyDrawdownHit(r) \/ TotalDrawdownHit(q))

-----------------------------------------------------------------------------
NoAct == [stage |-> "idle", sym |-> NoSymbol, side |-> "buy", qty |-> 0, price |-> 0,
          stop |-> NoStop, paid |-> 0, pnl |-> 0]

Init ==
    /\ day = 1
    /\ rm = [balance |-> InitialBalance, dayStart |-> InitialBalance, dayPnl |-> 0,
             count |-> 0, breaker |-> FALSE, lastReset |-> 0]
    /\ pf = [total |-> InitialBalance, cash |-> InitialBalance, peak |-> InitialBalance,
             positions |-> <<>>, dayStart |-> InitialBalance, dayPnl |-> 0, today |-> 0,
             weekPnl |-> 0, hour |-> 0, losses |-> 0]
    /\ free = InitialBalance
    /\ coins = [s \in Symbols |-> 0]
    /\ rows = [s \in Symbols |-> NoRow]
    /\ act = [a \in Actors |-> NoAct]
    /\ tries = 0
    /\ stale = {}
    /\ drift = {}
    /\ realized = 0

At(a, stage) == act[a].stage = stage
Goes(a, stage) == act' = [act EXCEPT ![a].stage = stage]
Finish(a) == act' = [act EXCEPT ![a] = NoAct]
Idles(a) == act[a] = NoAct /\ tries < MaxTries

(* The portfolio changed: what the others asked of it is out of date.       *)
Outdates(a) == stale' = (stale \cup {b \in Actors : act[b] # NoAct}) \ {a}

(* One order of the account.  Mutated form of CanTrade: a sale is not       *)
(* checked.                                                                 *)
CanTradeSells(s, side, qty, p) == side = "buy" => free >= qty * p

CanTrade(s, side, qty, p) == IF side = "buy" THEN free >= qty * p ELSE coins[s] >= qty

Trades(s, side, qty, p) ==
    LET signed == IF side = "buy" THEN qty ELSE -qty IN
    /\ CanTrade(s, side, qty, p)
    /\ free' = free - signed * p
    /\ coins' = [coins EXCEPT ![s] = @ + signed]

-----------------------------------------------------------------------------
(* approve_order() and what its caller does with the answer.                *)
Decide(a, o, balance, approved) ==
    LET r == DayReset(rm)
        q == PortfolioReset(rm, pf)
    IN
    /\ rm' = [r EXCEPT !.breaker = TripsBreaker(r, q, o)]
    /\ pf' = q
    /\ \/ /\ Approves(r, q, o, balance)
          /\ act' = [act EXCEPT ![a] = [NoAct EXCEPT !.stage = approved, !.sym = o.sym,
                                         !.side = o.side, !.qty = o.qty,
                                         !.price = o.price, !.stop = o.stop]]
          /\ tries' = tries + 1
       \/ /\ ~Approves(r, q, o, balance)
          /\ UNCHANGED <<act, tries>>
    /\ stale' = stale \ {a}
    /\ UNCHANGED <<day, account, drift, realized>>

(* place_order: the tool asks the guardrails before it asks the manager,    *)
(* about the portfolio as it is, and the manager knows the balance.         *)
ToolAsks(a, o) ==
    /\ Idles(a)
    /\ GuardrailsAllow(pf, o)
    /\ Decide(a, o, rm.balance, "toolApproved")

(* It places a market order, at the price of now ...                        *)
ToolFills(a, p) ==
    /\ At(a, "toolApproved")
    /\ Trades(act[a].sym, act[a].side, act[a].qty, p)
    /\ act' = [act EXCEPT ![a].stage = "toolFilled", ![a].paid = p]
    /\ UNCHANGED <<day, rm, pf, rows, tries, stale, drift, realized>>

(* ... and calls open_position(), which executes the order once more and    *)
(* inserts the row or averages into it ...                                  *)
ToolOpens(a) ==
    LET o == act[a] IN
    /\ At(a, "toolFilled")
    /\ Trades(o.sym, o.side, o.qty, o.paid)
    /\ rows' = [rows EXCEPT ![o.sym] =
                  IF @ = NoRow
                  THEN [side |-> o.side, qty |-> o.qty, cost |-> o.qty * o.paid]
                  ELSE [side |-> @.side, qty |-> @.qty + o.qty,
                        cost |-> @.cost + o.qty * o.paid]]
    /\ Goes(a, "toolOpened")
    /\ UNCHANGED <<day, rm, pf, tries, stale, drift, realized>>

(* ... and tells the manager.  The side it passes is the order's, "buy" or  *)
(* "sell".                                                                  *)
Entry(o) == [sym |-> o.sym, side |-> o.side, qty |-> o.qty, entry |-> o.paid,
             current |-> o.paid, stop |-> o.stop]

ToolBooks(a) ==
    /\ At(a, "toolOpened")
    /\ pf' = AddPosition(pf, Entry(act[a]))
    /\ rm' = [rm EXCEPT !.count = Len(pf'.positions)]
    /\ Finish(a)
    /\ Outdates(a)
    /\ UNCHANGED <<day, account, tries, drift, realized>>

-----------------------------------------------------------------------------
(* _process_signal(): the quantity is the safe size of the free balance; a  *)
(* balance of nothing counts as not given.                                  *)
BalanceGiven == IF free = 0 THEN rm.balance ELSE free
SafeSize(s) == (RiskPct * BalanceGiven) \div (100 * Abs(s.price - s.stop))

SignalAsks(a, s) ==
    /\ Idles(a)
    /\ SafeSize(s) > 0
    /\ Decide(a, [sym |-> s.sym, side |-> s.side, qty |-> SafeSize(s), price |-> s.price,
                  stop |-> s.stop], BalanceGiven, "signalApproved")

(* _execute_order(): an order at the signal's price, without a position ... *)
SignalFills(a) ==
    LET o == act[a] IN
    /\ At(a, "signalApproved")
    /\ Trades(o.sym, o.side, o.qty, o.price)
    /\ Goes(a, "signalFilled")
    /\ UNCHANGED <<day, rm, pf, rows, tries, stale, drift, realized>>

(* ... after which the manager learns the rows and the cash there are.      *)
Synced(r, table, cash) ==
    [r EXCEPT !.count = Cardinality({s \in Symbols : table[s] # NoRow}), !.balance = cash]

SignalSyncs(a) ==
    /\ At(a, "signalFilled")
    /\ rm' = Synced(rm, rows, free)
    /\ Finish(a)
    /\ UNCHANGED <<day, pf, account, tries, stale, drift, realized>>

-----------------------------------------------------------------------------
(* paper.close_position(). *)
RowPnl(row, p) == IF row.side = "buy" THEN row.qty * p - row.cost ELSE row.cost - row.qty * p

ClosesRow(s, p) ==
    /\ rows[s] # NoRow
    /\ Trades(s, IF rows[s].side = "buy" THEN "sell" ELSE "buy", rows[s].qty, p)
    /\ rows' = [rows EXCEPT ![s] = NoRow]

(* close_position: the tool closes the row ...                              *)
ToolCloses(a, s, p) ==
    /\ Idles(a)
    /\ tries' = tries + 1
    /\ ClosesRow(s, p)
    /\ act' = [act EXCEPT ![a] = [NoAct EXCEPT !.stage = "closed", !.sym = s, !.paid = p,
                                    !.qty = rows[s].qty, !.pnl = RowPnl(rows[s], p)]]
    /\ stale' = stale \ {a}
    /\ UNCHANGED <<day, rm, pf, drift, realized>>

(* ... and tells the manager, which closes the first entry of the symbol.   *)
ToolReports(a) ==
    LET o == act[a] IN
    /\ At(a, "closed")
    /\ \/ /\ Tracks(pf, o.sym)
          /\ pf' = RemovePosition(pf, o.sym, o.paid)
          /\ rm' = [rm EXCEPT !.count = Len(pf'.positions),
                              !.dayPnl = @ + ClosedPnl(pf, o.sym, o.paid)]
          /\ drift' = drift \cup (IF pf.positions[IndexOf(pf, o.sym)].qty # o.qty
                                  THEN {"partlyClosed"} ELSE {})
       \/ /\ ~Tracks(pf, o.sym)
          /\ rm' = [rm EXCEPT !.count = Len(pf.positions)]
          /\ drift' = drift \cup {"notTracked"}
          /\ UNCHANGED pf
    /\ realized' = realized + o.pnl
    /\ Finish(a)
    /\ Outdates(a)
    /\ UNCHANGED <<day, account, tries>>

(* The close-all tool closes rows and tells nobody.                         *)
CloseAllCloses(s, p) ==
    /\ ClosesRow(s, p)
    /\ drift' = drift \cup {"untold"}
    /\ UNCHANGED <<day, rm, pf, act, tries, stale, realized>>

(* _close_trailing_stop() tells the manager the rows and the cash only.     *)
TrailingCloses(s, p) ==
    /\ ClosesRow(s, p)
    /\ rm' = Synced(rm, rows', free')
    /\ drift' = drift \cup {"untold"}
    /\ UNCHANGED <<day, pf, act, tries, stale, realized>>

-----------------------------------------------------------------------------
(* An order that raises or stays open, or a coroutine cancelled.            *)
GivesUp(a) ==
    /\ act[a] # NoAct
    /\ Finish(a)
    /\ drift' = drift \cup (IF act[a].stage \in {"toolOpened", "closed"}
                            THEN {"untold"} ELSE {})
    /\ UNCHANGED <<day, rm, pf, account, tries, stale, realized>>

Midnight ==
    /\ day < MaxDays
    /\ day' = day + 1
    /\ realized' = 0
    /\ UNCHANGED <<rm, pf, account, act, tries, stale, drift>>

Next ==
    \/ \E a \in Actors :
         \/ \E o \in Orders : ToolAsks(a, o)
         \/ \E p \in Prices : ToolFills(a, p)
         \/ ToolOpens(a) \/ ToolBooks(a)
         \/ \E s \in Signals : SignalAsks(a, s)
         \/ SignalFills(a) \/ SignalSyncs(a)
         \/ \E s \in Symbols, p \in Prices : ToolCloses(a, s, p)
         \/ ToolReports(a) \/ GivesUp(a)
    \/ \E s \in Symbols, p \in Prices : CloseAllCloses(s, p) \/ TrailingCloses(s, p)
    \/ Midnight

Spec == Init /\ [][Next]_vars

-----------------------------------------------------------------------------
Sides == {"buy", "sell"}
Stops == (Nat \ {0}) \cup {NoStop}
Position == [sym : Symbols, side : Sides, qty : Nat \ {0}, entry : Prices,
             current : Prices, stop : Stops]
Manager == [balance : Int, dayStart : Int, dayPnl : Int, count : Nat,
            breaker : BOOLEAN, lastReset : 0 .. MaxDays]
Portfolio == [total : Int, cash : Int, peak : Int, positions : Seq(Position),
              dayStart : Int, dayPnl : Int, today : Nat, weekPnl : Int, hour : Nat,
              losses : Nat]
Row == [side : Sides, qty : Nat \ {0}, cost : Nat]
Activity == [stage : {"idle", "toolApproved", "toolFilled", "toolOpened",
                      "signalApproved", "signalFilled", "closed"},
             sym : Symbols \cup {NoSymbol}, side : Sides, qty : Nat,
             price : Nat, stop : Stops, paid : Nat, pnl : Int]

TypeOK ==
    /\ day \in 1 .. MaxDays
    /\ rm \in Manager /\ pf \in Portfolio
    /\ free \in Nat
    /\ coins \in [Symbols -> Nat]
    /\ rows \in [Symbols -> Row \cup {NoRow}] /\ act \in [Actors -> Activity]
    /\ tries \in 0 .. MaxTries
    /\ stale \subseteq Actors
    /\ drift \subseteq {"partlyClosed", "notTracked", "untold"}
    /\ realized \in Int

(* The portfolio adds up through every entry, close and reset: what it      *)
(* started with and earned is in cash or in positions at their entry, its   *)
(* total is cash and exposure, and the peak is behind it                    *)
(* (portfolio.py:206-274, 289-304).                                         *)
PortfolioAddsUp ==
    /\ pf.cash + SumOf(EntryValue, pf.positions) = InitialBalance + pf.weekPnl
    /\ pf.total = pf.cash + TotalExposure(pf)
    /\ pf.peak >= pf.total

(* The manager and the portfolio count the day's profit separately, and     *)
(* agree on it over closes and late resets: the limit of the profile and    *)
(* the limit of the guardrails speak of the same loss                       *)
(* (risk.py:201-204, 229-238; portfolio.py:250, 301).                       *)
MirrorsAgree == rm.dayPnl = pf.dayPnl

(* The portfolio tracks the quantity of every row of the account, but for   *)
(* the three ways in which it is known to part from it: a close reported    *)
(* against one entry of several, against none, and a change nobody reports  *)
(* (execution_tools.py:233-250, 348-360; engine.py:1031-1054).              *)
TrackedQty(s) == SumOf(LAMBDA p : IF p.sym = s THEN p.qty ELSE 0, pf.positions)
RowQty(s) == IF rows[s] = NoRow THEN 0 ELSE rows[s].qty

PortfolioMatchesAccount ==
    drift = {} =>
        \A s \in Symbols :
            (\A a \in Actors : act[a].sym = s => ~At(a, "toolOpened") /\ ~At(a, "closed"))
                => TrackedQty(s) = RowQty(s)

(* A booking leaves the portfolio inside the exposure, reserve and rate     *)
(* limits, when the portfolio did not change since the approval and the     *)
(* fill was not dearer than the approved price                              *)
(* (guardrails.py:205-234, 315-335; execution_tools.py:188-250).            *)
WithinLimits(q) ==
    /\ 100 * TotalExposure(q) <= MaxExposurePct * q.total
    /\ 100 * q.cash >= MinReservePct * q.total
    /\ q.today <= MaxTradesPerDay /\ q.hour <= MaxTradesPerHour

Fresh(a) == a \notin stale /\ act[a].paid <= act[a].price

FreshBookingsKeepLimits ==
    [][ \A a \in Actors :
          At(a, "toolOpened") /\ Fresh(a) /\ Len(pf'.positions) > Len(pf.positions)
            /\ act'[a] = NoAct => WithinLimits(pf') ]_vars

(* Once on, the circuit breaker stays on, over midnight too, and nothing is *)
(* approved from then on (risk.py:252-255, 324-351).                        *)
Approved(stage) == stage \in {"toolApproved", "signalApproved"}
Approval == \E a \in Actors : act[a] = NoAct /\ Approved(act'[a].stage)

BreakerLatched == [][ rm.breaker => rm'.breaker /\ ~Approval ]_vars

(* "Maximum daily loss before trading halt": no order is approved when the  *)
(* closes since midnight have lost that much, all of them reported to a     *)
(* portfolio that matches the account (guardrails.py:62-63, 272-285).       *)
DailyLossHalts ==
    [][ Approval /\ drift = {} => ~ReachesLimit(realized, MaxDailyLossPct, pf'.dayStart) ]_vars
=============================================================================
