SPECIFICATION Spec
CONSTANTS
    NoUser = NoUser
    NoDoc = NoDoc
    Accounts = {a1}
    GoogleAccounts = {}
    Taps <- SigningUp
    MaxQueue = 1
PROPERTIES
    ContinueRedirects
