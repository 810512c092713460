\* The documented effect of a panic.
SPECIFICATION Spec
CONSTANTS
    btc = btc
    Symbols = {btc}
    MaxQueue = 2
    MaxStarts = 1
    MaxOrders = 1
PROPERTY PanicStopsTrading
CHECK_DEADLOCK FALSE
