CONSTANTS
    right = right
    wrong = wrong
    blank = blank
    a1 = a1
    r1 = r1
    r2 = r2
    w1 = w1
    Attempts = {a1}
    Requests = {r1, r2}
    Workers = {w1}
    Kinds = {"open", "submit"}
    Sheets <- OneSheet
    Blank = blank
    Score <- ScoreOne
    MaxViolations = 2
    AdminStatuses = {}
    MaxIncidents = 3
    Fallible = {"enqueue"}
    MaxFaults = 1
    MaxCrashes = 1
SPECIFICATION FairSpec
PROPERTIES
    AttemptEnds
    CompletedIsCommitted
