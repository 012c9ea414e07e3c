SPECIFICATION Spec
CONSTANTS
    Nodes <- OneLink
    Urls <- MCUrls
    FinalUrl <- MCFinalUrl
    a = a
    None = None
    MaxRequests = 1
INVARIANTS
    NeverPanics
CHECK_DEADLOCK FALSE
