SPECIFICATION Spec
CONSTANTS
    Socks = {s1, s2}
    Names = {n1, n2}
    Capacities = {0, 3}
    Garbage <- MCGarbageMinusTwo
    GameIds <- MCGameIds
    MaxRoomId = 0
    None = None
VIEW Memory
SYMMETRY Symmetry
INVARIANTS
    OneConnectionPerName
    StartedRoomLetsGo
PROPERTIES
    UserStaysForGood
    StartedRosterFrozen
    RoomLeavesListByStart
    ImplementsDirectory
    CloseReleasesMembers
CHECK_DEADLOCK FALSE
