\* Ticks with a caller that issues commands, some of which raise.
SPECIFICATION KernelSpec
CONSTANTS
    Comps = {"body", "tag"}
    Values = {"u", "v"}
    MaxId = 6
    Rooms = {1, 2}
    Agents = {1, 2}
    Items = {100, 101}
    Doors = {9}
    Unplaced = 0
    Workers = {11, 12, 13}
    Stations = {21, 22, 23}
    RoomOf <- MCRoomOf
    None = 0
    Threshold = 2
    MaxDesire = 5
    MaxEfficiency = 3
    EcsBatches <- MCEcsBatches
    WorldBatches <- MCWorldBatches
    Embodied = {"body"}
    Founders <- MCFounders
    InitialWorlds <- MCInitialWorlds
    InitialFloors <- MCInitialFloors
    TicksPerDay = 4
    MaxTick = 5
    MaxCalls = 3
INVARIANTS
    WorldConsistent
    PlacesAgree
    OutputsExplain
    FloorAgrees
PROPERTIES
    ImplementsStore
    FreeStationsAreTaken
CHECK_DEADLOCK FALSE
