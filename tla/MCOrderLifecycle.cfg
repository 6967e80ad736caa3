\* One order of two sellers, two connections.
SPECIFICATION FairSpec
CONSTANTS
    b1 = b1
    s1 = s1
    s2 = s2
    o1 = o1
    o2 = o2
    c1 = c1
    c2 = c2
    c3 = c3
    None = None
    Order = {o1}
    User = {b1, s1, s2}
    BuyerOf <- MCBuyerOf
    SellersOf <- MCSellersOf
    Conn = {c1, c2}
    MaxHistory = 4
INVARIANTS
    SequenceStaysFree
    HistoryExplained
PROPERTY StatusRequestAnswered
CHECK_DEADLOCK FALSE
