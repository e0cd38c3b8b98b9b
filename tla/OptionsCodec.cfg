SPECIFICATION Spec
CONSTANTS
    Items <- MCItems
    Tails <- MCTails
    Cuts <- MCCuts
    Fields <- MCFields
    Indexes <- MCIndexes
    Gateways <- MCGateways
    MaxItems = 4
    MaxArea = 28
INVARIANTS
    ParseCorrect
    StripCorrect
    InsertRoundTrips
    GatewayCorrect
CHECK_DEADLOCK FALSE
