SPECIFICATION Spec
CONSTANTS
    NoDoc = NoDoc
    NoSlot = NoSlot
    Users = {1, 2}
    Slots = {s1, s2}
    Kinds <- AskAndReject
    MaxOrphans = 0
INVARIANTS
    CopiesAgree
    SpinnerHasHandler
SYMMETRY SlotSymmetry
