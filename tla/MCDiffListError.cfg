\* One LIST call may fail although the run is not cancelled.
CONSTANTS
    m1 = m1
    Absent = Absent
    Blank = Blank
    Corrupt = Corrupt
    Keys <- ThreeKeys
    Metas <- OneMeta
    CacheRecords <- PlainRecord
    PageSize = 1
    ActionCap = 1
    PageCap = 2
    Faults <- ListErrors
SPECIFICATION Spec
INVARIANT DeleteOnlyIfAbsent
