\* Two tabs race for two bucket names; replies get lost, the server restarts,
\* buckets are deleted.
CONSTANTS
    Tabs = {t1, t2}
    Names = {a, b}
    PairNames = {p}
    Blank = Blank
    Extras = {"back", "cancel"}
    MaxRequests = 4
    MaxTroubles = 2
SPECIFICATION Spec
SYMMETRY Alike
INVARIANTS TypeOK BothBucketsKnown
PROPERTIES FormsFillTheirSlots ImplementsCatalog
