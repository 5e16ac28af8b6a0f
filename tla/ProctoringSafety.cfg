CONSTANTS
    s1 = s1
    s2 = s2
    e1 = e1
    e2 = e2
    Sockets = {s1, s2}
    Events = {e1, e2}
    f1 = f1
    f2 = f2
    Flushes = {f1, f2}
    MaxSessions = 1
    MaxMessages = 2
    MaxFaults = 1
    Contribution = 15
    AlertScore = 15
SYMMETRY Interchangeable
CHECK_DEADLOCK FALSE
SPECIFICATION Spec
INVARIANTS
    SoleWriter
    IncidentsCounted
    AlertedOnce
PROPERTIES
    EndedStaysEnded
    NewestKept
