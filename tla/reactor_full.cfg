SPECIFICATION Spec
CONSTANTS
    Loops = {l1, l2, l3}
    Fds = {f1, f2, f3, f4}
    NoFd = NoFd
    NoThread = NoThread
    InitNum = 2
    MAX_OPEN_FD = 3
    MayFail = TRUE
CHECK_DEADLOCK FALSE
SYMMETRY Symmetry
INVARIANTS
    TypeOK
    RestingLoopIsListed
PROPERTIES
    DeathNeedsCrowdedLoop
