SPECIFICATION FairSpec
CONSTANTS
    QItems = 2
    RxLimit = 2
    RxCtx = {i1, i2}
    TxThreads = {t1}
    Pbufs = {p1}
    Raws = {r1}
    None = None
INVARIANTS TypeOK RxAccounting BufAccounting SleepCheckNotSkipped
PROPERTIES RxThrottleEnds BufsReclaimed
