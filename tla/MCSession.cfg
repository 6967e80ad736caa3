\* Logins, refreshes, checks, logouts and password changes on one session.
SPECIFICATION Spec
CONSTANTS
    id1 = id1
    id2 = id2
    p1 = p1
    p2 = p2
    c1 = c1
    c2 = c2
    c3 = c3
    None = None
    SessionId = {id1}
    Password = {p1, p2}
    Conn = {c1, c2}
    Window = 1
    IdleTtl = 3
    AbsoluteTtl = 4
    MaxNow = 4
    MaxVersion = 2
    MaxCounter = 2
SYMMETRY Symmetry
INVARIANTS
    SessionInv
PROPERTIES
    EndedTokensRefused
    PasswordChangedKnowingly
    RevokedForGood
    RaceLoserSpared
CHECK_DEADLOCK FALSE
