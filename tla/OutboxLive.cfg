CONSTANTS
    exam = exam
    p1 = p1
    p2 = p2
    w1 = w1
    w2 = w2
    Commitments = {exam}
    Structural = {exam}
    Reconciled = {exam}
    Processes = {p1, p2}
    Invocations = {w1, w2}
    ProcessOf <- OneEach
    MaxAttempts = 2
    BatchSize = 1
    Foreign = {exam}
    MaxFaults = 1
    MaxCrashes = 1
SPECIFICATION FairSpec
INVARIANTS
    TypeOK
    
PROPERTIES
    ConfirmedMatches
    
    SavedIsConfirmed
