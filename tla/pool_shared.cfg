SPECIFICATION Spec
CONSTANTS
    Workers = {w1, w2}
    Reactors = {r1, r2}
    Conns = {c1, c2}
    ConnOwner <- MCConnOwner
    NoConn = NoConn
    NoThread = NoThread
    m_InitNum = 1
    m_MaxNum = 2
    m_AvailLow = 1
    m_AvailHigh = 1
    StartMayFail = TRUE
    BusyBound = 3
CHECK_DEADLOCK FALSE
SYMMETRY Symmetry
INVARIANTS
    TypeOK
    IdleIsFree
    HeldJobIsCounted
    FreeIsIdle
PROPERTIES
    ImplementsHandoff
