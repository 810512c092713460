\* Pauses, resumes and panics around the engine, the agent and the API.
SPECIFICATION Spec
CONSTANTS
    btc = btc
    Symbols = {btc}
    MaxQueue = 2
    MaxStarts = 2
    MaxOrders = 1
INVARIANTS TypeOK FlagsAgree OneLoop
PROPERTIES EngineObeysPause AgentGetsItsTurn
CHECK_DEADLOCK FALSE
