SPECIFICATION Spec
CONSTANTS
    Names = {"lan", "wifi", "wan"}
    Ifnames = {"br0", "wlan0", "eth0"}
    Ifindexes = {1, 2, 9}
    Addrs = {"client"}
    LinkLocal = {}
    Configs <- TwoSlavesOnly
    Locations <- ClientRoams
    Echo82 = TRUE
    Overheard = FALSE
    MaxPending = 1
    MaxFlushes = 0
PROPERTY MirrorStaysInstalled
