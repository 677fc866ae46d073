SPECIFICATION Spec
CONSTANTS
    NoUser = NoUser
    NoRoom = NoRoom
    NoSlot = NoSlot
    Users = {"a", "b", "c"}
    Phones = {1, 2}
    r1 = r1
    r2 = r2
    Rooms = {r1, r2}
    Slots = {1, 2}
    Plans <- Scenarios
    MaxQueue = 2
CHECK_DEADLOCK FALSE
INVARIANTS
    TypeOK
    AddedStay
    AdminIsMember
    ListIsMine
    DroppedNotListed
    ListSettles
PROPERTIES
    ImplementsMembership
