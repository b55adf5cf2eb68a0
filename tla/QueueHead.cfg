SPECIFICATION FairSpec
CONSTANTS
    Clients = {c1, c2}
    Worker = w
    Codes = {"parts", "start", "unknown"}
    Looping = FALSE
    MaxQueue = 2
    None = None
INVARIANTS
    OneMessageServed
    ClientsNeverWait
    FrontKillsOnlyAtStart
PROPERTIES
    ImplementsCell
    HangStopsAll
    BrokenConnectionFloods
CHECK_DEADLOCK FALSE
