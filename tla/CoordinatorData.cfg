CONSTANTS
    LastPhase = 3
    Invented = Invented
    Usable = {1, 2}
    Charging = 1
    Invalid = Invalid
    Null = Null
    None = None
SPECIFICATION MCSpec
INVARIANTS
    OwnerShows
    SessionShown
PROPERTIES
    NeverBack
