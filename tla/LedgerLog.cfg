CONSTANTS
    Ids = {a, b, c}
    Hashes = {h1, h2}
    Clients = {g1, g2, g3}
    MaxAnswer = 2
SYMMETRY Interchangeable
CHECK_DEADLOCK FALSE
SPECIFICATION Spec
INVARIANTS
    AnsweredVerifies
    RecentIsComplete
PROPERTIES
    ImplementsLog
