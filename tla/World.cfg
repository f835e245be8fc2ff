CONSTANTS
    Ids <- MCIds
    Me = 9
    Natures <- MCNatures
    Uuids = {11}
    Cells = {21, 22}
    Items <- MCItems
    Positions = {0, 5}
    MaxServerPackets = 7
    MaxTicks = 1
    Heights = {3, 6}
    EyeOffset = 1
    Yaws = {0, 1}
    Registry <- MCRegistry
    Dimensions = {0, 5}
    Modes = {3, 4}
    SentChunks = {"c"}
    MaxPlayerPackets = 3
    MaxInputs = 1
    MaxQueue = 2
    Side = 4
    CellSide = 2
    LongBits = 16
    WordBits = 8
    PaletteBits = 2
    BiomeBits = 1
    StorageBits <- MCStorageBits
    BlockRegistry <- MCBlockRegistry
    BiomeRegistry <- MCBiomeRegistry
    MaxSections = 3
    Columns <- MCColumns
    Layouts <- MCLayouts
    Trees <- MCTrees
    MaxOverloads = 3
    MaxPathDepth = 2
    RecipeNumbers = {1, 2}
    RecipeDisplays <- MCDisplays
    Cuttings <- MCCuttings
    KnownItems = {"plank", "log"}
    MaxSlotDepth = 1
    MaxNetworkID = 99
    MaxBookPackets = 5
    MaxElements = 2
    MaxDisplayDepth = 1
SPECIFICATION WorldSpec
INVARIANTS ActorsAgree PositionsAgree RidersAgree BoostAgrees PlayersListed PositionsMeet WorldAgrees ChunkAgrees  BookAgrees 
CHECK_DEADLOCK FALSE
