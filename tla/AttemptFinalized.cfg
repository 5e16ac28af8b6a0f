CONSTANTS
    right = right
    wrong = wrong
    blank = blank
    a1 = a1
    r1 = r1
    w1 = w1
    Attempts = {a1}
    Requests = {r1}
    Workers = {w1}
    Kinds = {"open"}
    Sheets <- OneSheet
    Blank = blank
    Score <- ScoreOne
    MaxViolations = 2
    AdminStatuses = {}
    MaxIncidents = 3
    Fallible = {}
    MaxFaults = 0
    MaxCrashes = 0
SYMMETRY Interchangeable
SPECIFICATION Spec
INVARIANTS
    FinalizedVerifies
