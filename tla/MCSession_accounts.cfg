SPECIFICATION Spec
CONSTANTS
    NoUser = NoUser
    NoDoc = NoDoc
    Accounts = {a1, g1}
    GoogleAccounts = {g1}
    Taps <- BothWays
    MaxQueue = 2
VIEW Relevant
INVARIANTS
    DocNameOwn
    DeletedIsGone
    AnswersOwned
