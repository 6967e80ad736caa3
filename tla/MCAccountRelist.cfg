\* A listing is reactivated by a request that a deactivation overtakes.
SPECIFICATION Spec
CONSTANTS
    c1 = c1
    c2 = c2
    e1 = e1
    e2 = e2
    p1 = p1
    p2 = p2
    None = None
    Conn = {c1, c2}
    Email = {e1}
    Password = {p1}
    TokenTtl = 2
    IssueCooldown = 1
    IssueWindow = 1
    IssueMax = 1
    MaxTokens = 0
    MaxVersion = 1
    MaxSessions = 0
    MaxNow = 0
INVARIANT DeactivatedSellsNothing
CHECK_DEADLOCK FALSE
