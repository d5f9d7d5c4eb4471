SPECIFICATION Spec
CONSTANTS
    Threads = {t1, t2, t3}
    Nodes = {n1, n2, n3}
    NoNode = NoNode
    NoThread = NoThread
    MaxGets = 5
    MayDisconnect = TRUE
CHECK_DEADLOCK FALSE
SYMMETRY Symmetry
INVARIANTS
    TypeOK
    ExclusiveUntilExhausted
    HeldIsBusy
    CountBalances
    UndefinedNeedsRelease
