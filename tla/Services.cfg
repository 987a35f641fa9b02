SPECIFICATION ServicesSpec
CONSTANTS
    founder = founder
    Requests = {q1, q2, q3}
    Users = {founder, u1, u2}
    Founder = founder
    IsDefault = FALSE
    IsPublic = TRUE
    MaxMembers = 2
    Posts = {m1}
    AuthorOf <- FounderWrites
    NoUser = NoUser  NoMsg = NoMsg  Blank = Blank
    Written = {q1, q2, q3}
    ListLimit = 2  PageLimit = 1  AfterLimit = 2  Instants = 2
    Names = {n1, n2, n3}  Admins = {n1, n2}  Calls = {q1, q2, q3, q4}
    Lifetime = 2  Grace = 1  Hours = 4
    server1 = server1  server2 = server2  tab1 = tab1  tab2 = tab2  tab3 = tab3
    Servers = {server1, server2}  Clients = {tab1, tab2, tab3}  HomeOf <- ServerOf
    TTL = 2
    Addresses = {ip1, ip2}  Burst = 4  Fill = 1  Cost = 2  IdleVisitor = 3  Units = 7
    Upgrades = {q1, q2, q3}  MaxConn = 1  IdleEntry = 1  NoEntry = NoEntry  Minutes = 4
CHECK_DEADLOCK FALSE
SYMMETRY Symmetry
INVARIANTS TypesOK WithinLimit OwnerIsMember NoOrphans UploadsAreWhole
    BackMissesNeedCause AfterMissesNeedCause LastAdminStays PresenceNeedsCause
    OverLimitNeedsCause
PROPERTIES MembersKeepRoom DeletedStaysBlank BlockedRunsOut ForgettingIsFree
