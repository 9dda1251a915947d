SPECIFICATION Spec
CONSTANTS
    Vm = {1, 2}
    Vnode = {1, 2}
    Pnode = {1, 2}
    PnodeOf <- MCPnodeOf
    Data <- MCData
    Scalars <- MCScalars
INVARIANTS
    IndexExact
    PruneExact
    SumsAgree
PROPERTY
    ImplementsMap
