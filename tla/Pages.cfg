CONSTANTS
    c1 = c1
    c2 = c2
    None = None
    Conversations <- TwoConversations
    Features <- Decided
    MaxLogs <- TwoLogs
    MaxEpochs = 2
    MaxRequests = 2
    MaxFailures = 1
    MaxCalls = 3
    MaxVersion = 5
    MaxBroken = 1
    MaxVisits = 3
    MaxChoices = 3
    MaxMisses = 1

SPECIFICATION PagesSpec
VIEW Relevant
CONSTRAINT PagesBound
INVARIANTS
    PagesTypeOK
    ScreenBelongs
    RestIsCurrent
    BusyWhileSending
    ListIsComplete
    DeskShowsItsRun
PROPERTIES
    DecisionStays
CHECK_DEADLOCK FALSE
