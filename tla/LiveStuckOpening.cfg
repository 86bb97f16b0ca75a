\* One open that the keeper may cancel.
SPECIFICATION DeliveredSpec
CONSTANTS
    MaxPos = 1
    Exec = {e1}
    Worker = {w1}
    MaxTx = 1
    MaxMishap = 0
    Ends = {"stopped", "liquidated"}
    SlowPreparation = FALSE
    LateNotices = FALSE
    NULL = NULL
PROPERTIES
    OpeningIsResolved
CHECK_DEADLOCK FALSE
