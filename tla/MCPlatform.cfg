\* Sixteen components that share no variable, one in each behaviour.
SPECIFICATION PlatformSpec
CONSTANTS
    btc = btc
    t1 = t1
    t2 = t2
    c1 = c1
    c2 = c2
    taskA = taskA
    taskB = taskB
    user = user
    solo = solo
    pilot = pilot
    team = team
    o1 = o1
    e1 = e1
    k1 = k1
    k2 = k2
    k3 = k3
    ws = ws
    telegram = telegram
    onPrice = onPrice
    preloader = preloader
    r1 = r1
    r2 = r2
    discord = discord
    Nothing = Nothing
    Markets = {btc}
    StopPrices = {98, 100, 103}
    TrailPct = 2
    ActivationPct = 1
    MaxOpens = 2
    MaxTicks = 4
    MaxBacklog = 2
    Tickets = {t1, t2}
    Checks = {c1, c2}
    Exits = {e1}
    Quotes = {1, 2}
    MaxRows = 2
    MaxQuotes = 2
    Balances = {8500, 9800, 10000}
    MinutesPerDay = 40
    DailyLimit = 500
    TotalLimit = 1500
    RapidLimit = 300
    RapidWindow = 30
    StreakLimit = 2
    Cooldown = 40
    ClockSteps = {20}
    MaxMinutes = 60
    MaxLosses = 2
    Tasks = {taskA, taskB}
    Callers = {user}
    HourSlots = 2
    DaySlots = 2
    WeekDays = 2
    Months <- MCMonths
    LastSlot = 2
    MaxCalls = 4
    Plans <- MCPlans
    Solos = {solo, pilot}
    Teams = {team}
    MaxPerMinute = 2
    Window = 2
    Budget = 1
    CallTokens = 1
    MaxIterations = 1
    MaxErrors = 2
    Fallback = TRUE
    MaxBatch = 1
    MaxCycles = 3
    MaxClock = 2
    Filled = {o1}
    Closers = {k1, k2, k3}
    Returns <- MCReturns
    MinOccurrences = 2
    Frames = {1, 2}
    Primary = 2
    CandlePrices = {1, 2}
    MaxCandles = 2
    MinCandles = 1
    Interval = 2
    Loaded = 1
    LastTime = 3
    MaxPrices = 3
    Oversold = 30
    Overbought = 70
    Charts <- MCCharts
    FilterCharts <- MCCharts
    LlmAnswers <- MCAnswers
    MinFilter = 500
    Mtf = TRUE
    MaxSignals = 3
    Clients = {ws}
    Services <- MCServices
    Enabled = {telegram, discord}
    QueueSize = 2
    MaxEvents = 4
    MaxWaiting = 1
    Pairs <- MCPairs
    Bars <- MCBars
    Gaps = {0, 2}
    InitialBalance = 204
    Slip = 1
    Commission = 1
    MaxPositions = 2
    MaxDailyLoss = 2
    MaxBars = 3
    MaxRuns = 2
    Grid <- MCGrid
    DefaultParams = "d"
    Metrics = {1, 2}
    NumWindows = 2
    OosPct = 30
    StampCounts = {3, 4, 5, 11}
    N = 2
    AutoStop = TRUE
    MaxFills = 6
    Accounts = {1, 3}
    MinBalance = 2
    HasCredentials = TRUE
    Attempts = 3
    OrderCost = 1
    Traders = {onPrice, preloader}
    MaxOrders = 2
    PageSize = 3
    RecentRows = 2
    RecentTrades = 2
    PlacePrices = {1, 2}
    SomeRules <- MCRules
    SomePatterns <- MCPatterns
    MaxEpisodes = 2
    MaxLessons = 1
    Stories <- MCStories
    Readers = {r1, r2}
    Coins = {"btc", "eth"}
    Lookback = 0
    Ttl = 1
    Day = 2
    LastHour = 1
    Defaults <- MCDefaults
    Proposals <- MCProposals
    PriceCharts <- MCPriceCharts
    ProvenTrades = 2
    AiEnabled = TRUE
    MaxObjects = 3
    MaxResults = 2
    MaxTries = 1
INVARIANTS PlatformTypeOK
    LotsOutsideRow ClosedWithinLimits NextIsNextOccurrence RateOvershoot
    BudgetOvershoot PatternEarnsValidity CandlesFromTicks StreamIsNewest
    HeardIsCurrent AgainstFilterOnlyByModel CountOfPositions TestedOnUnseen
    OneOrderPerApproval ServedIsRecent
PROPERTIES StopNeverRetreats StopDroppedForCause KeepsOrderPromise
CHECK_DEADLOCK FALSE
