\* Two positions, three attempts, two threads, two requests that may read the mode
\* before a switch, two venues and two seasons.
SPECIFICATION Spec
CONSTANTS
    MaxPos = 2
    Exec = {e1, e2, e3}
    Worker = {w1, w2}
    Request = {r1, r2}
    Venue = {v1, v2}
    Ticket = {1}
    Returned = {0, 2}
    StartBalance = 1
    MaxSeason = 2
    MaxQuotes = 1
    NULL = NULL
SYMMETRY Interchangeable
INVARIANTS
    TypeOK
    BooksAgree
    CollateralFollows
    OneActivePerProfile
    ActiveInSeason
    ActiveOnActiveVenue
CHECK_DEADLOCK FALSE
