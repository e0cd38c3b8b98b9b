SPECIFICATION RestartSpec
CONSTANTS
    Names = {"lan", "wan"}
    Ifnames = {"br0", "eth0"}
    Ifindexes = {1, 9}
    Addrs = {"client"}
    LinkLocal = {}
    Configs <- OneSlaveOnly
    Locations <- ClientOnLan
    Echo82 = TRUE
    Overheard = FALSE
    MaxPending = 1
    MaxFlushes = 1
    MaxRestarts = 1
PROPERTIES
    LeftoversReaped
    Relearned
    FlushHealed
