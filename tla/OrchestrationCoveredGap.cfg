SPECIFICATION OSpec
CONSTANTS
    None = None
    i1 = i1
    i2 = i2
    i3 = i3
    i4 = i4
    resolve = resolve
    discover = discover
    state = state
    w1 = w1
    w2 = w2
    dispatcher = dispatcher
    reconciler = reconciler
    Item = {i1, i2, i3, i4}
    Key = {resolve, state}
    Producer = {dispatcher, reconciler}
    Dispatcher = dispatcher
    Reconciler = reconciler
    Worker = {w1, w2}
    Root = {resolve}
    PriorityOf <- MCPriority
    Successor <- MCSuccessor
    Asks <- MCAsks
    MaxAttempts = 1
    MaxCrashes = 0
    MaxSlips = 0
    MaxArrivals = 2
    MaxSkips = 0
    MaxKills = 0
SYMMETRY MCSymmetry
INVARIANT CoveredNeverGap
CHECK_DEADLOCK FALSE
