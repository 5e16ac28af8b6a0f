CONSTANTS
    right = right
    wrong = wrong
    blank = blank
    a1 = a1
    r1 = r1
    r2 = r2
    w1 = w1
    w2 = w2
    Attempts = {a1}
    Requests = {r1, r2}
    Workers = {w1, w2}
    Kinds = {"open", "submit", "incident"}
    Sheets <- OneSheet
    Blank = blank
    Score <- ScoreOne
    MaxViolations = 1
    AdminStatuses = {"Live"}
    MaxIncidents = 1
    Fallible = {"enqueue"}
    MaxFaults = 1
    MaxCrashes = 0
SYMMETRY Interchangeable
SPECIFICATION Spec
INVARIANTS
    TypeOK
    AcceptedOnce
    SubmittedVerifies
    ScoreIsEarned
