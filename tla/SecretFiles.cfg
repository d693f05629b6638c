\* A file that holds another Secret stops every command; the edits by hand are bounded.
CHECK_DEADLOCK FALSE
SPECIFICATION Spec
CONSTANTS
    app = app
    db = db
    password = password
    username = username
    url = url
    token = token
    old = old
    d1 = d1
    d2 = d2
    Secrets <- MCSecrets
    Rank <- MCRank
    Keys <- MCKeys
    Extras <- MCExtras
    In <- MCIn
    Kind <- MCKind
    From <- MCFrom
    Formatted <- MCFormatted
    RehearsalItems = {}
    MaxByHand = 2
    Draws <- MCDraws
    NoValue = NoValue
    Plain = Plain
SYMMETRY Symmetric
INVARIANTS WriteSettles ListAgrees AppliedInStep
PROPERTIES GenerateKeeps
