\* Two buyers, overlapping carts, last units; one write in between.
SPECIFICATION FairSpec
CONSTANTS
    b1 = b1
    b2 = b2
    s1 = s1
    k1 = k1
    k2 = k2
    c1 = c1
    c2 = c2
    None = None
    User = {b1, b2, s1}
    Buyer = {b1, b2}
    Product = {1, 2}
    Owner <- MCOwner
    Key = {k1}
    Conn = {c1, c2}
    Price = {1}
    Quantity = {1}
    Stock = {1}
    Shipping <- MCShipping
    MaxMoney = 100
    MaxWrites = 2
INVARIANTS
    AnnouncedOnce
    NoLockCycle
PROPERTIES
    CheckoutAnswered
CHECK_DEADLOCK FALSE
