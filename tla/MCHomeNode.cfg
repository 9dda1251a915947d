SPECIFICATION Spec
CONSTANTS
    Vm = {1, 2, 3, 4}
    Vnode = {1, 2, 3}
    PnodeOf <- MCPnodeOf
    DefaultHome = 1
INVARIANTS
    SearchValid
    FailedMeansNone
    HomeEnabled
PROPERTIES
    HomesStable
    SearchEnds
