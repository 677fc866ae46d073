SPECIFICATION Spec
CONSTANTS
    NoDoc = NoDoc
    NoSlot = NoSlot
    Users = {1, 2}
    Slots = {1}
    Kinds <- Befriending
    MaxOrphans = 1
INVARIANTS
    TypeOK
    CopiesAgree
    WritesOwned
    DocsWritten
    FriendsSymmetric
    FriendsHaveRequests
PROPERTIES
    ImplementsFriendship
