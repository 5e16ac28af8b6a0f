CONSTANTS
    r1 = r1
    r2 = r2
    r3 = r3
    Requests = {r1, r2, r3}
    MaxOps = 6
SYMMETRY Interchangeable
CHECK_DEADLOCK FALSE
SPECIFICATION AccountSpec
INVARIANTS
    SoleSession
PROPERTIES
    ReplacedStays
    BlockStays
