SPECIFICATION Spec
CONSTANTS
    Vm = {1, 2}
    Vnode = {1, 2}
    Pnode = {1, 2}
    PnodeOf <- MCPnodeOf
    MaxBirths = 2
CHECK_DEADLOCK FALSE
INVARIANTS
    PathsAgree
    UnregisterAgrees
PROPERTY
    Forgotten
