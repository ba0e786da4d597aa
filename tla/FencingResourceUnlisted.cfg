SPECIFICATION CustodySpec
CONSTANTS
    Workers = {w1, w2}
    w1 = w1
    w2 = w2
    Tokens = {t1, t2}
    t1 = t1
    t2 = t2
    NoToken = NoToken
    MaxRuns = 1
    Goals = 2
    MaxQuestions = 1
    MaxEdits = 0
    MaxFaults = 1
    MaxSandboxes = 3
    MaxSlips = 1
SYMMETRY Symmetry
INVARIANT FencingResourcesAreSwept
CHECK_DEADLOCK FALSE
