\* The engine publishes from a handler while producers keep the queue full.
SPECIFICATION Spec
CONSTANTS
    price = price
    filled = filled
    engine = engine
    screen = screen
    p1 = p1
    p2 = p2
    Types = {price, filled}
    Handlers = {engine, screen}
    Producers = {p1, p2}
    NoType = NoType
    QueueMax = 2
    Workloads <- TightWorkloads
    Interests <- MCInterests
    MaxStarts = 1
    MaxEvents = 6
INVARIANT NeverWedged
CHECK_DEADLOCK FALSE
