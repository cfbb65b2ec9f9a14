\* One loop, two requests of any two kinds (but two resets) and SIGTERM.
CONSTANTS
    r1 = r1
    r2 = r2
    Requests <- TwoRequests
    Engines <- ThreeEngines
    Scenarios <- TwoOfKinds
    NoRow = NoRow
    Nobody = Nobody
    MaxErrors = 1
SPECIFICATION FairSpec
INVARIANTS TypeOK ErrorsAgree RunningMeansRunning CancelsOwnRun
PROPERTIES LoopsEnd
