CONSTANTS
    None = None
    MaxAttempts = 2
    MaxWarnings = 2
    MaxViolations = 1
    MaxFaults = 1
CHECK_DEADLOCK FALSE
SPECIFICATION FairSpec
INVARIANTS
    ShownIsAccepted
    IncidentsAccounted
PROPERTIES
    
    QueueIsReported
