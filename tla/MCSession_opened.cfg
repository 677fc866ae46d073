SPECIFICATION Spec
CONSTANTS
    NoUser = NoUser
    NoDoc = NoDoc
    Accounts = {a1}
    GoogleAccounts = {}
    Taps <- Erasing
    MaxQueue = 1
PROPERTIES
    OpenedWithUser
