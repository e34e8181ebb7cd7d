CONSTANTS
    c1 = c1
    s1 = s1
    s2 = s2
    Calls = {c1}
    Sleepers = {c1}
    Capacity = 1
    MaxRaises = 1
    None = None
    Services <- MCServices
    Asked = Asked
    Before = Before
    Missing = Missing
    MaxAddresses = 3
    MaxReloads = 1
    Vehicle = Vehicle
    Other = Other
    NoId = NoId
    MaxAttempts = 2
    Unsaid = Unsaid
SPECIFICATION MCSpec
INVARIANTS
    RecordsKept
    OfferedAsReached
    ClimateServes
    PairingServes
PROPERTIES
    TrackingEnds
    CallsEnd
    PressEnds
    PairingFollows
CHECK_DEADLOCK FALSE
