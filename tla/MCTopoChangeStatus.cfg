SPECIFICATION Spec
CONSTANTS
    CoolDown = 3
    MaxNodes = 4
    Tick = 3
    MaxTime = 8
INVARIANTS
    TypeOK
    ProgressBelowGoal
    CoolDownCounts
    OnlyRecentCounts
PROPERTY
    EndsComplete
