CONSTANTS
    u1 = u1
    u2 = u2
    Helpers <- MCHelpers
    MaxIds = 3
    MaxRaises = 1
    Users <- MCUsers
    Day = 2
    DefaultStart = 1
    DefaultDuration = 1
    Unread = Unread
    MaxWrites = 1
SPECIFICATION MCSpec
INVARIANTS
    FeedHeld
    OffUnlessOvertaken
PROPERTIES
    UpdatesAsAsked
    FeedAndCacheHeal
CHECK_DEADLOCK FALSE
