\* Every misbehaviour of the listing at once (failing, short and repeated
\* pages) and cancellation: four keys in pages of two.
CONSTANTS
    m1 = m1
    Absent = Absent
    Blank = Blank
    Corrupt = Corrupt
    Keys <- FourKeys
    Metas <- OneMeta
    CacheRecords <- PlainRecord
    PageSize = 2
    ActionCap = 1
    PageCap = 2
    Faults <- BadListings
SPECIFICATION FairSpec
INVARIANTS ListCallsBounded
PROPERTY Terminates
