\* What a backtest reports without slippage and without commission.
SPECIFICATION BacktestSpec
CONSTANTS
    Pairs <- MCPairs
    Bars <- MCBars
    Gaps = {0, 2}
    InitialBalance = 204
    Slip = 0
    Commission = 0
    MaxPositions = 2
    MaxDailyLoss = 2
    MaxBars = 3
    MaxRuns = 2
INVARIANT ReturnFollowsTrades
CHECK_DEADLOCK FALSE
