SPECIFICATION CustodySpec
CONSTANTS
    Workers = {w1, w2}
    w1 = w1
    w2 = w2
    Tokens = {t1, t2}
    t1 = t1
    t2 = t2
    NoToken = NoToken
    MaxRuns = 1
    Goals = 2
    MaxQuestions = 2
    MaxEdits = 0
    MaxFaults = 0
    MaxSandboxes = 3
    MaxSlips = 0
SYMMETRY Symmetry
INVARIANT AwaitedSandboxSurvives
CHECK_DEADLOCK FALSE
