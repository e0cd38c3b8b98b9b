SPECIFICATION FairSpec
CONSTANTS
    Names = {"lan", "wan"}
    Ifnames = {"br0", "eth0"}
    Ifindexes = {1, 9}
    Addrs = {"client"}
    LinkLocal = {}
    Configs <- NoRoutingOnly
    Locations <- ClientOnLan
    Echo82 = TRUE
    Overheard = FALSE
    MaxPending = 1
    MaxFlushes = 0
PROPERTY DeadClientReaped
