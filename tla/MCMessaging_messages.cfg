SPECIFICATION Spec
CONSTANTS
    a = a
    b = b
    Users = {a, b}
    Groups = {g}
    Ids = {m1, m2, m3}
    Pictures = {p1, p2}
    Names = {n1, n2}
    NoPicture = NoPicture
    Plans <- Scenarios
INVARIANTS
    TypeOK
    SentIsListed
    ReportedIsGone
    OwnOrder
    PictureShown
SYMMETRY Symmetry
CHECK_DEADLOCK FALSE
