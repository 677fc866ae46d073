SPECIFICATION FairSpec
CONSTANTS
    NoDoc = NoDoc
    NoSlot = NoSlot
    Users = {1, 2}
    Slots = {1}
    Kinds <- Reading
    MaxOrphans = 0
PROPERTIES
    HandlersFinish
    SpinnerStops
