CONSTANTS
    Kinds = {"stone", "dirt"}
    Air = "air"
    MaxStack = 3
    PlayerSize = 3
    FirstStorage = 1
    FirstHotbar = 2
    LastStorage = 2
    WindowIDs = {1}
    WindowSizes = {2}
    Supply <- MCFewItems
    RefIDs <- MCRefIDs
    Offered <- MCFewActions
    MaxActions = 1
    MaxUpdates = 1
    MaxRequests = 1
SPECIFICATION Spec
INVARIANT SessionSurvives
CHECK_DEADLOCK FALSE
