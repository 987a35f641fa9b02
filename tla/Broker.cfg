SPECIFICATION FairSpec
CONSTANTS
    s1 = s1  s2 = s2  h3 = h3  announcement = announcement
    Servers = {s1}
    Hubs = {h1, h2}
    ServerOf <- OnServers
    Msgs = {m1}
    KindOf <- Kinds
    MaxPubSubs = 4
    MaxOutages = 2
    RedisCap = 1
    NoHub = NoHub  NoPs = NoPs  NoMsg = NoMsg
CHECK_DEADLOCK FALSE
INVARIANTS MapEntryIsLive LeakComesFromOverlay DeafComesFromOverlap TakenIsHandedOn ShownTwiceNeedsCause
PROPERTIES SubscribedHubRecovers
