\* One position and three commands.
SPECIFICATION Spec
CONSTANTS
    MaxPos = 1
    Exec = {e1, e2, e3}
    Worker = {w1}
    Request = {r1}
    Venue = {v1}
    Ticket = {1}
    Returned = {0, 1}
    StartBalance = 1
    MaxSeason = 1
    MaxQuotes = 1
    NULL = NULL
INVARIANTS
    SettledOnce
CHECK_DEADLOCK FALSE
