SPECIFICATION FairSpec
CONSTANTS
    Nodes <- TwoLinks
    Urls <- MCUrls
    FinalUrl <- MCFinalUrl
    a = a
    None = None
    MaxRequests = 2
INVARIANTS
    TypeOK
    AnswersArriveOnce
    CriticalRequestsAreOutstanding
    CascadeFollowsNodes
PROPERTIES
    NoUnstyledContent
    ImplementsRequests
    RenderingUnblocks
CHECK_DEADLOCK FALSE
