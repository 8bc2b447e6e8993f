CONSTANTS
    h1 = h1
    h2 = h2
    None = None
    Hosts = {h1, h2}
    UnixHosts = {h1}
    Workspaces = {"this", "other"}
    This = "this"
    Paths <- MCPaths
    DisplayOrder <- MCDisplayOrder
    NameOrder <- MCNameOrder
    Requests <- MCRequests
    Texts <- MCTexts
    Trees <- MCTrees
    EditNodes <- MCEditNodes
    MaxChanges = 1
    MaxText = 4
    MaxEdits = 2
    MaxScan = 4
    MaxListed = 2
    MaxMatches = 2
    MaxQuery = 2
    MaxSearchFile = 3
    MaxSearchTotal = 6
    MaxOutput = 6
SPECIFICATION Spec
INVARIANTS
    OutcomeIsHonest
    SurvivesPowerLoss
    QueriesAreComplete
PROPERTY
    OnlyRacesAreLost
CHECK_DEADLOCK FALSE
