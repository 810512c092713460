\* Two coroutines trade through the paper engine, with interruptions and restarts.
SPECIFICATION Spec
CONSTANTS
    Symbols = {btc, eth}
    btc = btc
    eth = eth
    bus = bus
    agent = agent
    Actors = {bus, agent}
    Sides = {"buy", "sell"}
    Amounts = {1}
    Prices = {3}
    Slip = 1
    InitialCash = 11
    NoPrice = NoPrice
    NoRow = NoRow
    NoSymbol = NoSymbol
    MaxOps = 4
INVARIANTS TypeOK BooksBalanceUnlessStale NeverOverdrawn PositionsMatchCoins CloseAllComplete
PROPERTY AtomicUnlessStale
CHECK_DEADLOCK FALSE
