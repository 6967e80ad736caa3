\* Three requests of one user save, edit and delete three addresses.
SPECIFICATION Spec
CONSTANTS
    c1 = c1
    c2 = c2
    c3 = c3
    a1 = a1
    a2 = a2
    a3 = a3
    None = None
    Conn = {c1, c2, c3}
    Address = {a1, a2, a3}
    MaxWrites = 4
SYMMETRY Symmetry
INVARIANTS
    OneDefault
    DefaultUnlessContended
CHECK_DEADLOCK FALSE
