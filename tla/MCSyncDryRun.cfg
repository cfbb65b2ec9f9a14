\* No fault of the service; the pair may be in dry-run mode.
CONSTANTS
    e0 = e0
    e1 = e1
    e2 = e2
    e3 = e3
    w1 = w1
    Absent = Absent
    Blank = Blank
    NoAction = NoAction
    Workers <- OneWorker
    Keys <- TwoKeys
    Metas <- ThreeVersions
    ETags <- AllETags
    ETagOf <- VersionETag
    Foreign = e0
    MaxAttempts = 1
    PoolFaults <- NoPoolFaults
    MaxVersion = 3
    MaxDisturbances = 0
SPECIFICATION SSpec
INVARIANT CachedMeansTransferred
