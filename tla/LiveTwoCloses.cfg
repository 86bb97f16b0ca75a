\* An open and two closes of one position.
SPECIFICATION Spec
CONSTANTS
    MaxPos = 1
    Exec = {e1, e2, e3}
    Worker = {w1}
    MaxTx = 1
    MaxMishap = 0
    Ends = {"stopped", "liquidated"}
    SlowPreparation = FALSE
    LateNotices = FALSE
    NULL = NULL
INVARIANTS
    OneActiveClose
CHECK_DEADLOCK FALSE
