\* A position whose price stays at its stop loss.
SPECIFICATION OrdersFairSpec
CONSTANTS
    t1 = t1
    t2 = t2
    c1 = c1
    c2 = c2
    e1 = e1
    Tickets = {t1, t2}
    Checks = {c1, c2}
    Exits = {e1}
    Nothing = Nothing
    Quotes = {1, 2}
    MaxRows = 2
    MaxQuotes = 2
PROPERTY StopLossHit
CHECK_DEADLOCK FALSE
