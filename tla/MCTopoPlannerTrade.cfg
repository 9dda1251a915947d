SPECIFICATION MCSpec
CONSTANTS
    Vm = {1, 2, 3}
    Vnode = {1, 2, 3, 4}
    Pnode = {1, 2, 3, 4}
    PnodeOf <- MCPnodeOf
    Loads <- MCLoads
CHECK_DEADLOCK FALSE
PROPERTY
    TradeBalanced
