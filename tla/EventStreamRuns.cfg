SPECIFICATION FairSpec
CONSTANTS
    r1 = r1
    r2 = r2
    r3 = r3
    r4 = r4
    r5 = r5
    t1 = t1
    t2 = t2
    t3 = t3
    None = None
    Row = {r1, r2, r3, r4, r5}
    Txn = {t1, t2, t3}
    TxnOf <- MCTxnOf
    Pushed <- MCPushed
    PageLimit = 2
    MaxDrops = 2
CHECK_DEADLOCK FALSE
INVARIANT ToldOnceOrExcused
PROPERTIES ToldInOrder AheadIsTold
