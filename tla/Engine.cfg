SPECIFICATION FairSpec
CONSTANTS
    Chans = {"neigh", "route"}
    Cap = 2
    SubCap = 1
    SigCap = 1
    MaxUpdates = 2
    MaxEdits = 1
PROPERTIES
    InOrder
    EditApplied
    UpdateHandled
CHECK_DEADLOCK FALSE
