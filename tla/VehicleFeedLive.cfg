CONSTANTS
    Unsubscribers = {}
    MaxIds = 2
    MaxRaises = 0
    MaxSuspended = 1
    BackendFails = TRUE
    Followed = {"vehicle", "tpms", "cloud"}
SPECIFICATION FairSpec
PROPERTIES
    FeedReturns
CHECK_DEADLOCK FALSE
