SPECIFICATION FairSpec
CONSTANTS
    Loops = {l1, l2}
    Fds = {f1, f2}
    NoFd = NoFd
    NoThread = NoThread
    InitNum = 1
    MAX_OPEN_FD = 2
    MayFail = FALSE
CHECK_DEADLOCK FALSE
PROPERTIES
    AcceptedIsOpened
    CallbackReturns
