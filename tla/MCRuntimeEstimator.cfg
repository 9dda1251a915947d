SPECIFICATION EstSpec
CONSTANTS
    MaxTime = 7
    MaxSize = 2000
    MaxNodes = 2
CHECK_DEADLOCK FALSE
INVARIANTS
    RunsCovered
    RunsMeasured
