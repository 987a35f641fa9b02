SPECIFICATION Spec
CONSTANTS
    r1 = r1
    Conns = {c1}
    Rooms = {r1}
    RoomOf <- OneRoom
    Deletable = {r1}
    Deleters = {d1}
    NoHub = NoHub
CHECK_DEADLOCK FALSE
INVARIANT StopClosedOnce
