SPECIFICATION Spec
CONSTANTS
    Names = {"lan", "wan", "wan2"}
    Ifnames = {"br0", "eth0", "eth1"}
    Ifindexes = {1, 8, 9}
    Addrs = {"client"}
    LinkLocal = {}
    Configs <- Deployments
    Locations <- ClientOnLan
    Echo82 = TRUE
    Overheard = FALSE
    MaxPending = 2
    MaxFlushes = 2
INVARIANTS
    TypeOK
    ResolvedTracked
    NothingLeaked
    MirrorInstalled
PROPERTY HealsItself
