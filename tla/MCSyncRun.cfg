\* Cycle after cycle with one worker: two keys, three versions, failing
\* service calls and one cancellation, crash or failed cache write.
CONSTANTS
    e0 = e0
    e1 = e1
    e2 = e2
    e3 = e3
    w1 = w1
    Absent = Absent
    Blank = Blank
    NoAction = NoAction
    Workers <- OneWorker
    Keys <- TwoKeys
    Metas <- ThreeVersions
    ETags <- AllETags
    ETagOf <- VersionETag
    Foreign = e0
    MaxAttempts = 1
    PoolFaults <- ServiceErrors
    MaxVersion = 3
    MaxDisturbances = 1
SPECIFICATION SFairSpec
INVARIANTS SkipIsSafe
PROPERTIES EventuallyMirrored ImplementsMirror
