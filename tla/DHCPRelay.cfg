SPECIFICATION FairSpec
CONSTANTS
    Slaves = {"lan", "wifi"}
    Masters = {"wan", "wan2"}
    Ifindexes = {1, 2, 3, 4, 5, 6}
    FirstIndex <- MCIndex
    Addrs <- MCAddrs
    Lists <- MCLists
    Sent <- MCSent
    Looped <- MCLooped
    dhcpMaxHops = 2
    MaxSent = 1
    MaxChanges = 2
INVARIANT TypeOK
PROPERTIES
    GiaddrReachable
    ReplyRouted
    GatewayOwn
    LoopEnds
CHECK_DEADLOCK FALSE
