SPECIFICATION Spec
CONSTANTS
    Vm = {1, 2}
    MaxTime = 4
    MaxSize = 2
    RingSize = 3
    Loads <- MCLoads
    LocalSize = 2
    Values = {3}
CHECK_DEADLOCK FALSE
INVARIANTS
    TypeOK
    SharesFit
    SearchesExact
PROPERTIES
    KeepsNewest
    NodeLoadExact
