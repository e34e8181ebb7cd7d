CONSTANTS
    s1 = s1
    s2 = s2
    w1 = w1
    w2 = w2
    Monitor = Monitor
    Done = Done
    None = None
    Calls <- MCOneCall
    Conns <- MCConns
SPECIFICATION FairSpec
PROPERTIES
    Reconnects
