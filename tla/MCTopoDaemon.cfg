SPECIFICATION Spec
CONSTANTS
    Vm = {1, 2}
    Vnode = {1, 2, 3}
    Pnode = {1, 2, 3}
    PnodeOf <- MCPnodeOf
    Loads <- MCLoads
    DefaultHome = 1
    CoolDown = 1
    MaxNodes = 3
    LogSlots = 2
    MaxPending = 1
    MaxBehind = 1
    MaxRestarts = 1
CHECK_DEADLOCK FALSE
INVARIANTS
    EventsFit
    VacatedFirst
    WorkAccounted
    ChangeCanEnd
PROPERTIES
    ChangeEnds
    StopsWhenInterrupted
