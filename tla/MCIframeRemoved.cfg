SPECIFICATION Spec
CONSTANTS
    a = a
    NewTabPage = NewTabPage
    HistoryPage = HistoryPage
    None = None
    Nil = Nil
    Nodes <- MCNodes
    Urls <- MCUrls
    FinalUrl <- MCFinalUrl
    MaxRequests = 1
    MaxGenerations = 1
    Locations <- MCLocations
    MAX_HISTORY_ENTRIES = 2
    MaxTime = 3
    MaxIds = 3
    MaxWrites = 2
    MaxLoads = 2
    MaxSession = 3
    MaxProbes = 1
    Scenarios = {"frames"}
INVARIANTS
    RemovedFramesAreEmpty
CHECK_DEADLOCK FALSE
