SPECIFICATION Spec
CONSTANTS
    NoSlot = NoSlot
    Users = {1, 2}
    Slots = {1}
    Plans <- Refreshing
    MaxOrphans = 0
PROPERTIES
    ListExcludesBlocked
