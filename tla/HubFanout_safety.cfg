SPECIFICATION Spec
CONSTANTS
    c1 = c1  c2 = c2  u1 = u1  u2 = u2
    Conns = {c1, c2}
    Users = {u1, u2}
    UserOf <- TabsUserOf
    SendCap = 1
    BroadcastCap = 1
    HistoryLimit = 1
    MaxSend <- OneSends
CHECK_DEADLOCK FALSE
INVARIANTS HistoryFirst OnlyAcceptedIsBroadcast
PROPERTIES ImplementsChannel
