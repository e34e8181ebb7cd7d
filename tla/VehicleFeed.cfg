CONSTANTS
    Unsubscribers <- MCUnsubscribers
    MaxIds = 2
    MaxRaises = 1
    MaxSuspended = 1
    BackendFails = FALSE
    Followed = {"vehicle", "tpms"}
SPECIFICATION Spec
INVARIANTS
    FeedHeld
    FreshStart
CHECK_DEADLOCK FALSE
