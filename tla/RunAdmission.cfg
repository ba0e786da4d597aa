SPECIFICATION Spec
CONSTANTS
    None = None
    Clients = {c1, c2}
    Contents = {1, 2}
    Runtimes = {p1}
    MaxLineageRuns = 3
    MaxPrompt = 4
    Outcomes = {"cancelled"}
    MaxRuns = 4
    MaxLive = 1
    MaxCheckpoints = 1
SYMMETRY ClientSymmetry
INVARIANT AdmissionInvariant
INVARIANT RetryGetsItsRun
INVARIANT AdmittedRunCanStart
INVARIANT RecoveryKeepsNewestWork
