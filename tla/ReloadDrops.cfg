SPECIFICATION Spec
CONSTANTS
    Names = {"lan", "wan"}
    Ifnames = {"br0", "eth0"}
    Ifindexes = {1, 2, 3, 4}
    Addrs = {"client"}
    LinkLocal = {}
    Home <- BehindLan
    Files <- OneFile
    FirstLinks <- BothRunning
    MaxReloads = 2
    MaxChanges = 3
INVARIANT StaysRegistered
CHECK_DEADLOCK FALSE
