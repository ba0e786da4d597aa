SPECIFICATION FairSpec
CONSTANTS
    Conns = {c1, c2}
    c1 = c1
    c2 = c2
    MaxEvents = 3
    Limit = 2
    MaxDrops = 1
PROPERTY ReconnectIsSafe
CHECK_DEADLOCK FALSE
