CONSTANTS
    o1 = o1
    o2 = o2
    p1 = p1
    left = left
    front = front
    Offers = {o1, o2}
    Preps = {p1}
    Cameras = {left, front}
    Attempts = 2
    None = None
SPECIFICATION Spec
INVARIANTS
    OneLiveSession
    ClosedForGood
    ShowsChosen
CHECK_DEADLOCK FALSE
