CONSTANTS
    r1 = r1
    r2 = r2
    q1 = q1
    q2 = q2
    Requests = {r1, r2}
    Questions = {q1, q2}
    MaxOps = 5
CHECK_DEADLOCK FALSE
SPECIFICATION FairSpec
INVARIANTS
    AcceptedIsInBank
    BankIsApproved
    CommittedIsRoot
PROPERTIES
    RootStays
    AcceptedIsCommitted
