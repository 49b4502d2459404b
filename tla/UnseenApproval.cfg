CONSTANTS
    c1 = c1
    None = None
    Conversations <- OneConversation
    Features <- Decided
    MaxLogs <- OneLog
    MaxCalls = 2
    MaxVersion = 4
    MaxBroken = 0

SPECIFICATION PanelFairSpec
PROPERTY
    PendingAppears
CHECK_DEADLOCK FALSE
