\* Serial dispatch and progress of the bus, with stops and restarts.
SPECIFICATION Spec
CONSTANTS
    price = price
    filled = filled
    engine = engine
    screen = screen
    p1 = p1
    p2 = p2
    Types = {price, filled}
    Handlers = {engine, screen}
    Producers = {p1, p2}
    NoType = NoType
    QueueMax = 2
    Workloads <- RoomyWorkloads
    Interests <- MCInterests
    MaxStarts = 2
    MaxEvents = 4
INVARIANTS TypeOK SerialDispatch NeverWedged
PROPERTIES EveryEventTaken BlockedPublisherResumes
CHECK_DEADLOCK FALSE
