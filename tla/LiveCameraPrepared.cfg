CONSTANTS
    o1 = o1
    o2 = o2
    p1 = p1
    left = left
    front = front
    Offers = {o1, o2}
    Preps = {p1}
    Cameras = {left, front}
    Attempts = 1
    None = None
SPECIFICATION Spec
PROPERTY PlaysTheCameraPicked
CHECK_DEADLOCK FALSE
