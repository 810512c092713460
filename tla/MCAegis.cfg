\* Two coroutines ask, trade and report over two days.
SPECIFICATION Spec
CONSTANTS
    btc = btc
    eth = eth
    Symbols = {btc, eth}
    Prices = {10, 12}
    Orders <- MCOrders
    Signals <- MCSignals
    Actors = {a1, a2}
    InitialBalance = 100
    NoStop = NoStop
    NoRow = NoRow
    NoSymbol = NoSymbol
    MaxPositionPct = 20
    MaxExposurePct = 25
    MinReservePct = 20
    MaxTradeRiskPct = 2
    MaxDailyLossPct = 5
    MaxWeeklyLossPct = 10
    MaxDrawdownPct = 20
    MaxTradesPerHour = 10
    MaxTradesPerDay = 2
    LossesHalt = 5
    RiskPct = 2
    ProfileDrawdownPct = 2
    MaxOpenPositions = 3
    MaxDays = 2
    MaxTries = 3
SYMMETRY MCSymmetry
INVARIANTS TypeOK PortfolioAddsUp MirrorsAgree PortfolioMatchesAccount
PROPERTIES FreshBookingsKeepLimits BreakerLatched
CHECK_DEADLOCK FALSE
