\* Clients change the bucket and the run may be cancelled while it is listed:
\* three keys in pages of one, every cache content, one action buffered.
CONSTANTS
    m1 = m1
    Absent = Absent
    Blank = Blank
    Corrupt = Corrupt
    Keys <- ThreeKeys
    Metas <- OneMeta
    CacheRecords <- AnyRecord
    PageSize = 1
    ActionCap = 1
    PageCap = 2
    Faults <- LiveSource
SPECIFICATION Spec
INVARIANTS TypeOK ActionsAreRequired OneActionPerKey DeleteOnlyIfAbsent
PROPERTY ImplementsContract
