SPECIFICATION FairSpec
CONSTANTS
    Workers = {w1, w2}
    w1 = w1
    w2 = w2
    p = p
    None = None
    Runs = {1, 2}
    Project <- MCProject
    SuccessTTL = 1
    RetryBase = 1
    RetryMax = 2
    MaxFaults = 2
    MaxQuestions = 1
INVARIANT PreflightIsClean
INVARIANT OneRunningWriter
PROPERTY QueuedRunIsTaken
CHECK_DEADLOCK FALSE
