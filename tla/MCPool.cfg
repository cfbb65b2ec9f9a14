\* Two workers, up to two actions on two keys, three attempts, every fault.
CONSTANTS
    m1 = m1
    m2 = m2
    e1 = e1
    e2 = e2
    w1 = w1
    w2 = w2
    Absent = Absent
    Blank = Blank
    NoAction = NoAction
    Workers <- TwoWorkers
    Keys <- TwoKeys
    Metas <- OneMeta
    ETags <- TwoETags
    ETagOf <- FirstETag
    MaxAttempts = 3
    PoolFaults <- AllPoolFaults
SPECIFICATION PFairSpec
INVARIANTS PoolTypeOK EveryActionReportedOnce ProgressAgrees SuccessMeansDone
PROPERTY PoolReturns
