CONSTANTS
    right = right
    wrong = wrong
    blank = blank
    a1 = a1
    a2 = a2
    r1 = r1
    r2 = r2
    w1 = w1
    Attempts = {a1, a2}
    Requests = {r1, r2}
    Workers = {w1}
    Kinds = {"open", "incident", "ping", "terminate", "authorize"}
    Sheets <- OneSheet
    Blank = blank
    Score <- ScoreOne
    MaxViolations = 2
    AdminStatuses = {}
    MaxIncidents = 3
    Fallible = {"finalize"}
    MaxFaults = 1
    MaxCrashes = 0
SYMMETRY Interchangeable
SPECIFICATION Spec
INVARIANTS
    OneCurrentAttempt
