SPECIFICATION Spec
CONSTANTS
    NoDoc = NoDoc
    NoSlot = NoSlot
    Users = {1, 2}
    Slots = {1}
    Kinds <- AskAndAnswer
    MaxOrphans = 1
INVARIANTS
    AcceptedForBoth
