CONSTANTS
    r1 = r1
    r2 = r2
    Requests = {r1, r2}
    Keys = {k1}
    k1 = k1
    NoKey = NoKey
    MaxNumbers = 2
    MaxMessages = 3
    MaxStops = 1
    Wanted = {"OPEN", "RESOLVED", "CLOSED"}
SYMMETRY Symmetry
SPECIFICATION Spec
INVARIANTS
    TicketHasConversation
    OneTicketPerKey
    UnreadUntilAnswered
