CONSTANTS
    Ids <- MCIds
    Me = 9
    Natures <- MCArrows
    Uuids = {11}
    Cells = {21, 22}
    Items <- MCItems
    Positions = {0, 5}
    MaxServerPackets = 3
    MaxTicks = 1
SPECIFICATION EntitiesSpec
INVARIANTS ServerCorrects
CHECK_DEADLOCK FALSE
