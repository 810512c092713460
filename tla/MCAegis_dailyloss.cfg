\* One coroutine buys and closes on one day: the documented daily halt.
SPECIFICATION Spec
CONSTANTS
    btc = btc
    eth = eth
    Symbols = {btc, eth}
    Prices = {8, 10, 12}
    Orders <- MCLossOrders
    Signals <- MCNoSignals
    Actors = {a1}
    InitialBalance = 100
    NoStop = NoStop
    NoRow = NoRow
    NoSymbol = NoSymbol
    MaxPositionPct = 20
    MaxExposurePct = 25
    MinReservePct = 20
    MaxTradeRiskPct = 2
    MaxDailyLossPct = 5
    MaxWeeklyLossPct = 10
    MaxDrawdownPct = 20
    MaxTradesPerHour = 10
    MaxTradesPerDay = 50
    LossesHalt = 5
    RiskPct = 2
    ProfileDrawdownPct = 2
    MaxOpenPositions = 3
    MaxDays = 1
    MaxTries = 5
PROPERTY DailyLossHalts
CHECK_DEADLOCK FALSE
