\* One open, and a worker that prepares the wallet for longer than a claim lasts.
SPECIFICATION Spec
CONSTANTS
    MaxPos = 1
    Exec = {e1}
    Worker = {w1, w2}
    MaxTx = 2
    MaxMishap = 0
    Ends = {"stopped", "liquidated"}
    SlowPreparation = TRUE
    LateNotices = FALSE
    NULL = NULL
INVARIANTS
    OneEffectPerAttempt
CHECK_DEADLOCK FALSE
