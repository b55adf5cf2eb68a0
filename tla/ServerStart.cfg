SPECIFICATION MCSpec
CONSTANTS
    Clients = {c1, c2, c3}
    Worker = w
    Looping = TRUE
    MaxQueue = 2
    Names = {n1}
    Capacities = {0}
    Garbage <- MCGarbage
    GameIds <- MCGameIds
    MaxRoomId = 1
    RoomNumbers = {1}
    None = None
INVARIANTS
    WhatEndsTheServer
PROPERTIES
    PauseBreaksConnections
    FirstDispatcherKeepsAll
CHECK_DEADLOCK FALSE
