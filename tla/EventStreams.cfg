SPECIFICATION FairSpec
CONSTANTS
    Conns = {c1, c2}
    c1 = c1
    c2 = c2
    MaxEvents = 3
    Limit = 2
    MaxDrops = 1
INVARIANT ViewInvariant
PROPERTY StreamIsFaithful
PROPERTY ViewerCatchesUp
CHECK_DEADLOCK FALSE
