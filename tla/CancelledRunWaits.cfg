SPECIFICATION Spec
CONSTANTS
    Workers = {w1, w2}
    w1 = w1
    w2 = w2
    Tokens = {t1, t2}
    t1 = t1
    t2 = t2
    NoToken = NoToken
    MaxRuns = 2
    Goals = 2
    MaxQuestions = 1
    MaxEdits = 1
    MaxFaults = 1
INVARIANT CancelledRunNeverWaits
CHECK_DEADLOCK FALSE
