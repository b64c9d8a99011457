SPECIFICATION FairSpec
CONSTANTS
    None = None
    i1 = i1
    i2 = i2
    i3 = i3
    k1 = k1
    k2 = k2
    w1 = w1
    w2 = w2
    dispatcher = dispatcher
    reconciler = reconciler
    Item = {i1, i2}
    Key = {k1, k2}
    Producer = {dispatcher, reconciler}
    Worker = {w1, w2}
    PriorityOf <- MCPriority
    MaxAttempts = 2
    MaxCrashes = 1
    MaxSlips = 1
CHECK_DEADLOCK FALSE
INVARIANTS OneWorkerPerKey ExtraRunsCostACrash
PROPERTIES SettlementStands ImplementsKeyLock EventuallySettled
