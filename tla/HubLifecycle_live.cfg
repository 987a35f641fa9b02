SPECIFICATION FairSpec
CONSTANTS
    r1 = r1
    Conns = {c1, c2}
    Rooms = {r1}
    RoomOf <- OneRoom
    Deletable = {r1}
    Deleters = {}
    NoHub = NoHub
CHECK_DEADLOCK FALSE
PROPERTIES RegisterServedWhileHubRuns EmptyHubRetires StoppedHubDisconnects
