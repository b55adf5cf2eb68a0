SPECIFICATION Spec
CONSTANTS
    Socks = {s1, s2}
    Names = {n1, n2}
    Capacities = {2}
    Garbage <- MCGarbage
    GameIds <- MCGameId
    MaxRoomId = 1
    None = None
SYMMETRY Symmetry
INVARIANT UnknownRoomIsAnswered
CHECK_DEADLOCK FALSE
