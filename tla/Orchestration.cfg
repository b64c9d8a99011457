SPECIFICATION FairOSpec
CONSTANTS
    None = None
    i1 = i1
    i2 = i2
    i3 = i3
    i4 = i4
    resolve = resolve
    discover = discover
    state = state
    w1 = w1
    w2 = w2
    dispatcher = dispatcher
    reconciler = reconciler
    Item = {i1, i2}
    Key = {resolve, discover}
    Producer = {dispatcher, reconciler}
    Dispatcher = dispatcher
    Reconciler = reconciler
    Worker = {w1}
    Root = {resolve}
    PriorityOf <- MCPriority
    Successor <- MCSuccessor
    Asks <- MCAsks
    MaxAttempts = 2
    MaxCrashes = 1
    MaxSlips = 0
    MaxArrivals = 2
    MaxSkips = 1
    MaxKills = 1
CONSTRAINT OneFault
CHECK_DEADLOCK FALSE
INVARIANT ChangesAreCarried
PROPERTIES ImplementsWorkQueue ChangesReachQueue
