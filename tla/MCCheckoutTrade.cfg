\* One buyer with two keys against a seller who reprices, restocks and pauses.
SPECIFICATION Spec
CONSTANTS
    b1 = b1
    b2 = b2
    s1 = s1
    k1 = k1
    k2 = k2
    c1 = c1
    c2 = c2
    None = None
    User = {b1, b2, s1}
    Buyer = {b1}
    Product = {1}
    Owner <- MCOwner
    Key = {k1, k2}
    Conn = {c1, c2}
    Price = {1, 2}
    Quantity = {1, 2}
    Stock = {0, 2}
    Shipping <- MCShipping
    MaxMoney = 4
    MaxWrites = 4
SYMMETRY ConnSymmetry
INVARIANTS
    CheckoutInv
    BooksBalance
    AmountsExact
PROPERTIES
    ImplementsOrderBook
    
CHECK_DEADLOCK FALSE
