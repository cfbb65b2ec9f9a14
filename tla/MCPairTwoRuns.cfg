\* A reset while a run is in progress.
CONSTANTS
    r1 = r1
    r2 = r2
    Requests <- TwoRequests
    Engines <- ThreeEngines
    Scenarios <- JustReset
    NoRow = NoRow
    Nobody = Nobody
    MaxErrors = 1
SPECIFICATION Spec
INVARIANT SingleRun
