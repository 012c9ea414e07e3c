SPECIFICATION FairSpec
CONSTANTS
    a = a
    NewTabPage = NewTabPage
    HistoryPage = HistoryPage
    None = None
    Nil = Nil
    Nodes <- MCNodes
    Urls <- MCUrls
    FinalUrl <- MCFinalUrl
    MaxRequests = 4
    MaxGenerations = 4
    Locations <- MCLocations
    MAX_HISTORY_ENTRIES = 2
    MaxTime = 3
    MaxIds = 3
    MaxWrites = 2
    MaxLoads = 2
    MaxSession = 3
    MaxProbes = 1
    Scenarios = {"frames", "tab", "history"}
INVARIANTS
    TypeOK
    FramesAreConsistent
    TabIsConsistent
    HistoryIsMirrored
PROPERTIES
    NeverGoesBack
    NavigationsEnd
CHECK_DEADLOCK FALSE
