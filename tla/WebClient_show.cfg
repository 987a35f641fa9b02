SPECIFICATION Spec
CONSTANTS
    Rooms = {r1}
    MaxTexts = 0
    Peers = {p1}
    Files = {}
    HistoryLimit = 2
    MaxSelects = 1
    MaxLosses = 2
    MaxChanges = 2
    Repeats = {p1}
    None = None
CHECK_DEADLOCK FALSE
INVARIANTS ShownOncePerId MissingNeedsCause StaleNeedsCause
