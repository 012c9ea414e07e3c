SPECIFICATION FairSpec
CONSTANTS
    Nodes <- MCNodes
    Urls <- MCUrls
    FinalUrl <- Straight
    ForeignUrls <- OnlyB
    a = a
    b = b
    None = None
    MaxRequests = 2
INVARIANTS
    TypeOK
    ShownWasAsked
    PendingIsLive
PROPERTIES
    WaitingEnds
CHECK_DEADLOCK FALSE
