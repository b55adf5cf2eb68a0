SPECIFICATION Spec
CONSTANTS
    Clients = {c1, c2}
    Worker = w
    Looping = FALSE
    MaxQueue = 2
    Names = {n1}
    Capacities = {2}
    Garbage <- MCGarbage
    GameIds <- MCGameIds
    MaxRoomId = 1
    RoomNumbers = {1}
    None = None
INVARIANTS
    OnlyFirstIsServed
    NoRoomEver
PROPERTIES
    WrittenUnderMutex
VIEW Memory
SYMMETRY Symmetry
CHECK_DEADLOCK FALSE
