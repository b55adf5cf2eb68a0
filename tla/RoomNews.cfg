SPECIFICATION Spec
CONSTANTS
    admin = admin
    u1 = u1
    u2 = u2
    Users <- MCUsers
    Admin = admin
    Capacity = 4
    None = None
INVARIANTS
    TypeOK
    MembersHaveTheList
    LoopComputesAfterLeave
PROPERTIES
    CloseIsTold
    HandlerReturns
CHECK_DEADLOCK FALSE
