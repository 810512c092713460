\* The documented effect of the pause key.
SPECIFICATION Spec
CONSTANTS
    btc = btc
    Symbols = {btc}
    MaxQueue = 2
    MaxStarts = 1
    MaxOrders = 1
PROPERTY PauseKeyToggles
CHECK_DEADLOCK FALSE
