\* Sync Now and Pause of an enabled pair, and its loop, each with its own copy
\* of the row.
CONSTANTS
    r1 = r1
    r2 = r2
    Requests <- TwoRequests
    Engines <- ThreeEngines
    Scenarios <- TriggerAndToggle
    NoRow = NoRow
    Nobody = Nobody
    MaxErrors = 1
SPECIFICATION EnabledSpec
PROPERTY EnabledOnlyByRequest
