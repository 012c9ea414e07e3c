SPECIFICATION Spec
CONSTANTS
    Nodes <- MCNodes
    Urls <- MCUrls
    FinalUrl <- Redirect
    ForeignUrls <- NoUrls
    a = a
    b = b
    None = None
    MaxRequests = 2
INVARIANTS
    NoDeadEntry
CHECK_DEADLOCK FALSE
