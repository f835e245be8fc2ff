CONSTANTS
    Kinds = {"stone", "dirt"}
    Air = "air"
    MaxStack = 3
    PlayerSize = 2
    FirstStorage = 0
    FirstHotbar = 1
    LastStorage = 1
    WindowIDs = {1}
    WindowSizes = {2}
    Supply <- MCFewItems
    RefIDs <- MCRefIDs
    Offered <- MCFewActions
    MaxActions = 1
    MaxUpdates = 2
    MaxRequests = 1
SPECIFICATION Spec
INVARIANTS UniqueIDs
PROPERTIES ItemsConserved
CHECK_DEADLOCK FALSE
