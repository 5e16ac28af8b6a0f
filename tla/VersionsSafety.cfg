CONSTANTS
    a1 = a1
    a2 = a2
    w1 = w1
    j1 = j1
    j2 = j2
    k1 = k1
    Admins = {a1, a2}
    Workers = {w1}
    Jobs = {j1}
    Checks = {k1}
    Tampering = TRUE
    MaxWrites = 2
    MaxEvents = 1
SYMMETRY Interchangeable
SPECIFICATION Spec
INVARIANTS
    TypeOK
    ConfirmedVersionHolds
    LedgerIsChained
    ValidIsCommitted
    AlarmHasEvidence
CHECK_DEADLOCK FALSE
