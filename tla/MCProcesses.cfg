\* A server with two pairs that share a target, and a one-shot sync of a third
\* or somebody who creates the target; or one engine while its row is edited.
CONSTANTS
    s1 = s1
    s2 = s2
    o1 = o1
    d1 = d1
    api = api
    aws = aws
    NoTarget = NoTarget
    NoBucket = NoBucket
    Unread = Unread
    NoProcess = NoProcess
    Engines <- FourEngines
    Cases <- TwoCases
    Foreign <- TwoForeign
    Editors <- OneEditor
    Servers <- TwoServers
    OneShots <- OneOneShot
    Clients <- OneClient
    Owners <- OneOwner
    EnginesOf <- EnginesOfEach
    Casts <- SyncsOrEdits
SPECIFICATION FairSpec
INVARIANTS TypeOK TransfersExclusive SilentSetup CredentialsStayReadable
PROPERTIES SetupConfigures CommandsEnd SettingsOnlyGrow
