\* No fault at all: a copy of a listed object whose key the target lacks.
CONSTANTS
    m1 = m1
    m2 = m2
    e1 = e1
    e2 = e2
    w1 = w1
    w2 = w2
    Absent = Absent
    Blank = Blank
    NoAction = NoAction
    Workers <- TwoWorkers
    Keys <- TwoKeys
    Metas <- TwoMetas
    ETags <- TwoETags
    ETagOf <- OwnETag
    MaxAttempts = 3
    PoolFaults <- NoPoolFaults
SPECIFICATION PSpec
INVARIANT CopiesSucceedWithoutFaults
