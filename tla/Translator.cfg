CONSTANTS
    Slots <- MCSlots
    Outside = 9
    Offered <- MCLegacy
    MaxSequence = 2
    MaxPackets = 3
    MaxForced = 1
    Objectives = {"a", "b"}
    Titles = {"t"}
    Owners = {1, 2}
    Names = {"n"}
    Values = {0, 1}
    Teams = {"r", "g"}
    Affixes = {"x", "y"}
    DisplayPositions = {0, 1, 3, 19}
    SidebarEntries = 1
    MaxScorePackets = 4
    Bars = {"b1", "b2"}
    BarTitles = {"", "t"}
    NaN = NaN
    BarHealths <- MCHealths
    BarStyles <- MCStyles
    MaxBarActors = 3
    Cells = {"a", "b", "c"}
    Chunks = {1, 2}
    ChunkOf <- MCChunkOf
    States = {0, 1, 2, 9}
    EntityStates = {1, 2}
    Registered = {0, 1, 2}
    Air = 0
    Spawner = 1
    Mobs = {"pig"}
    CacheSize = 1
    MaxBlockPackets = 5
    Types <- MCTypes
SPECIFICATION ViewsSpec
INVARIANTS HandMatches AtRestAgree TeamsExclusive ScreenAgrees BarsAgree ContextAgrees ClientWorldAgrees FlagsAgree
CHECK_DEADLOCK FALSE
