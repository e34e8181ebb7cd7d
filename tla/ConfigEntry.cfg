CONSTANTS
    e1 = e1
    e2 = e2
    v1 = v1
    v2 = v2
    k1 = k1
    k2 = k2
    f1 = f1
    f2 = f2
    Entries <- MCEntries
    Vehicles <- MCVehicles
    None = None
    MaxFailures = 1
    Cars <- MCVehicles
    Keys <- MCKeys
    NoKey = NoKey
    Forms <- MCForms
SPECIFICATION MCSpec
INVARIANTS
    EntryLeavesNothing
    OptionsTellPhones
PROPERTIES
    ReauthRecovers
CHECK_DEADLOCK FALSE
