\* Two requests, two positions, one venue.
SPECIFICATION Spec
CONSTANTS
    MaxPos = 2
    Exec = {e1, e2}
    Worker = {w1}
    Request = {r1, r2}
    Venue = {v1}
    Ticket = {1}
    Returned = {0}
    StartBalance = 1
    MaxSeason = 1
    MaxQuotes = 2
    NULL = NULL
INVARIANTS
    OneActivePerUser
CHECK_DEADLOCK FALSE
