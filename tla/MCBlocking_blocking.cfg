SPECIFICATION Spec
CONSTANTS
    NoSlot = NoSlot
    Users = {1, 2}
    Slots = {s1, s2}
    Plans <- Scenarios
    MaxOrphans = 1
SYMMETRY SlotSymmetry
CHECK_DEADLOCK FALSE
INVARIANTS
    TypeOK
    SidesAgree
    BlockStands
    UnblockStands
