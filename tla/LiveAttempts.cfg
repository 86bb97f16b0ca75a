\* One position, an open and a close, two workers, nonce retries, one crash or one failed lookup;
\* a third transaction is possible and must not be signed.
SPECIFICATION Spec
CONSTANTS
    MaxPos = 1
    Exec = {e1, e2}
    Worker = {w1, w2}
    MaxTx = 3
    MaxMishap = 1
    Ends = {"liquidated"}
    SlowPreparation = FALSE
    LateNotices = FALSE
    NULL = NULL
SYMMETRY Interchangeable
INVARIANTS
    TypeOK
    TxIsRecorded
    AttemptInv
    FailedHasNoEffect
PROPERTIES
    OutcomesAreFinal
    CommandPromise
CHECK_DEADLOCK FALSE
