SPECIFICATION FairSpec
CONSTANTS
    Rooms = {r1, r2}
    MaxTexts = 1
    Peers = {}
    Files = {f1}
    HistoryLimit = 0
    MaxSelects = 2
    MaxLosses = 1
    MaxChanges = 0
    Repeats = {}
    None = None
CHECK_DEADLOCK FALSE
INVARIANTS SentOnceInOrder
PROPERTIES QueuedIsSent
