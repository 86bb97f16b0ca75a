\* One position, its open and its close, one worker that may die once.
SPECIFICATION FairSpec
CONSTANTS
    MaxPos = 1
    Exec = {e1, e2}
    Worker = {w1}
    MaxTx = 1
    MaxMishap = 1
    Ends = {"stopped", "liquidated"}
    SlowPreparation = FALSE
    LateNotices = FALSE
    NULL = NULL
PROPERTIES
    AcceptedIsHandled
    ConfirmedCloseIsRecorded
CHECK_DEADLOCK FALSE
