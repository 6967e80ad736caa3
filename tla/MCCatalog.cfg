\* Two connections repeat creations and reviews while prices change.
SPECIFICATION Spec
CONSTANTS
    c1 = c1
    c2 = c2
    k1 = k1
    k2 = k2
    None = None
    Conn = {c1, c2}
    Key = {k1, k2}
    Body = {1, 2}
    MaxHistory = 3
INVARIANTS
    TablesMatchEffects
    HistoryExact
PROPERTIES
    ImplementsKeyedMutations
    AnswersTrue
CHECK_DEADLOCK FALSE
