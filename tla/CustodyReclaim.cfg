SPECIFICATION FairCustodySpec
CONSTANTS
    Workers = {w1}
    w1 = w1
    Tokens = {t1, t2}
    t1 = t1
    t2 = t2
    NoToken = NoToken
    MaxRuns = 1
    Goals = 1
    MaxQuestions = 1
    MaxEdits = 0
    MaxFaults = 1
    MaxSandboxes = 3
    MaxSlips = 1
PROPERTY EndedRunIsReclaimed
CHECK_DEADLOCK FALSE
