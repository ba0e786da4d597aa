SPECIFICATION Spec
CONSTANTS
    None = None
    GoalCount = 3
    Files = {"a", "b"}
    Contents <- MCContents
    Base <- MCBase
    Inheritable <- MCInheritable
    Passing <- MCPassing
    Compiling <- MCCompiling
    ConfigFiles = {}
    InvalidDrafts = {"d1"}
    MaxCorrections = 1
    MaxCapsuleGoals = 6
    MaxCapsulePaths = 1
    MaxTurns = 5
    MaxFaults = 2
INVARIANT CheckpointIsReadable
CHECK_DEADLOCK FALSE
