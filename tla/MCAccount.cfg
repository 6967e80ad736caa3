\* Mailed tokens, changes of address and password, logins and a deactivation.
SPECIFICATION Spec
CONSTANTS
    c1 = c1
    c2 = c2
    e1 = e1
    e2 = e2
    p1 = p1
    p2 = p2
    None = None
    Conn = {c1, c2}
    Email = {e1, e2}
    Password = {p1, p2}
    TokenTtl = 2
    IssueCooldown = 1
    IssueWindow = 1
    IssueMax = 1
    MaxTokens = 2
    MaxVersion = 2
    MaxSessions = 1
    MaxNow = 2
SYMMETRY Symmetry
INVARIANTS
    AccountInv
    IssuesLimited
PROPERTIES
    TokensProveAddress
    DeactivatedForGood
    DeactivatesWithoutOrders
CHECK_DEADLOCK FALSE
