CONSTANTS
    Kinds = {"stone", "dirt"}
    Air = "air"
    MaxStack = 4
    PlayerSize = 3
    FirstStorage = 1
    FirstHotbar = 2
    LastStorage = 2
    WindowIDs = {1}
    WindowSizes = {1}
    Supply <- MCSupply
    RefIDs <- MCRefIDs
    Offered <- MCEveryAction
    MaxActions = 1
    MaxUpdates = 0
    MaxRequests = 1
SPECIFICATION Spec
INVARIANTS RequestsExact ResponseComplete 
CHECK_DEADLOCK FALSE
