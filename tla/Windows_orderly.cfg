CONSTANTS
    JavaIDs <- ThreeIDs
    MaxWindowID = 3
    Positions <- TwoPositions
    OrderlyServer = TRUE
    ClientConfirms = TRUE
    MaxInFlight = 2
SPECIFICATION FairSpec
INVARIANTS ClientAgrees ServerAgrees
PROPERTIES UnmappedReleased
