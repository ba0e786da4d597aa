SPECIFICATION FairSpec
CONSTANTS
    Workers = {w1, w2}
    w1 = w1
    w2 = w2
    MaxAttempts = 3
    MaxTurns = 2
    MaxSpend = 2
    MaxFaults = 1
INVARIANT SpendIsAccounted
INVARIANT OneBridge
PROPERTY PaidWorkStops
CHECK_DEADLOCK FALSE
