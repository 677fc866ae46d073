SPECIFICATION FairSpec
CONSTANTS
    NoUser = NoUser
    NoDoc = NoDoc
    Accounts = {a1}
    GoogleAccounts = {}
    Taps <- Living
    MaxQueue = 1
INVARIANTS
    TypeOK
    UserBehindPages
    DeletedIsGone
PROPERTIES
    ThroughVerified
    LoginAnswers
