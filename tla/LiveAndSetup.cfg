\* Two positions one after the other, three commands, late notices; or two
\* preparations of one wallet with two sweeps.
SPECIFICATION BothSpec
CONSTANTS
    e1 = e1
    e2 = e2
    e3 = e3
    MaxPos = 2
    Exec = {e1, e2, e3}
    Worker = {w1}
    MaxTx = 1
    MaxMishap = 0
    Ends = {"stopped", "liquidated"}
    SlowPreparation = FALSE
    LateNotices = TRUE
    NULL = NULL
    Preparation = {r1, r2}
    SetupBuffer = 2
    SweepMin = 1
    OwnEth = 0
    MaxTopups = 1
    MaxSweeps = 2
    WorkerStops = TRUE
SYMMETRY Interchangeable
INVARIANTS
    OneActivePosition
    ExecutedIsSettled
    OrphanNeedsForeign
    ReserveIsCounted
CHECK_DEADLOCK FALSE
