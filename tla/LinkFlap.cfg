SPECIFICATION Spec
CONSTANTS
    Names = {"lan", "wan"}
    Ifnames = {"br0", "eth0"}
    Ifindexes = {1, 2, 3, 4}
    Addrs = {"client"}
    LinkLocal = {}
    Home <- BehindLan
    Files <- OneFile
    FirstLinks <- BothRunning
    MaxReloads = 1
    MaxChanges = 3
INVARIANT MastersAnswer
CHECK_DEADLOCK FALSE
