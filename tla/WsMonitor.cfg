CONSTANTS
    s1 = s1
    s2 = s2
    w1 = w1
    w2 = w2
    Monitor = Monitor
    Done = Done
    None = None
    Calls <- MCCalls
    Conns <- MCConns
SPECIFICATION Spec
SYMMETRY Symmetry
INVARIANTS
    TypeOK
    NoOrphanSubscription
    CalmSafe
PROPERTIES
    ServiceSpec
