\* Two positions one after the other, every notice in time.
SPECIFICATION Spec
CONSTANTS
    MaxPos = 2
    Exec = {e1, e2, e3}
    Worker = {w1}
    MaxTx = 1
    MaxMishap = 0
    Ends = {"stopped", "liquidated"}
    SlowPreparation = FALSE
    LateNotices = FALSE
    NULL = NULL
INVARIANTS
    NoFalseClose
CHECK_DEADLOCK FALSE
