CONSTANTS
    r1 = r1
    r2 = r2
    k1 = k1
    k2 = k2
    c1 = c1
    c2 = c2
    Refreshes <- MCRefreshes
    MaxAccount = 1
    MaxErrors = 1
    Unknown = Unknown
    Unlisted = 16
    Nothing = Nothing
    Other = Other
    Locks <- MCLocks
    None = None
    Candidates <- MCCandidates
    Events = 2
    Ours = Ours
    Bound = Bound
    Absent = Absent
    Video <- MCVideo
    Audio <- MCAudio
    MaxHeaders = 2
    NoCodec = NoCodec
    MaxSegments = 3
    MaxTime = 1
    Unsent = Unsent
SPECIFICATION MCSpec
INVARIANTS
    CloudTells
    TopicTells
    ClosureShown
    OfferMeansTheSame
    SensorsTell
    SignalsRelayed
    ChargeCounts
PROPERTIES
    SessionGrows
    CandidatesArrive
    CloudHeals
    SensorFed
CHECK_DEADLOCK FALSE
