SPECIFICATION Spec
CONSTANTS
    Workers = {w1, w2}
    Reactors = {r1, r2, r3}
    Conns = {c1, c2, c3}
    ConnOwner <- MCConnOwner
    NoConn = NoConn
    NoThread = NoThread
    m_InitNum = 1
    m_MaxNum = 2
    m_AvailLow = 1
    m_AvailHigh = 1
    StartMayFail = TRUE
    BusyBound = 9
CHECK_DEADLOCK FALSE
SYMMETRY SymmetryLoops
CONSTRAINT ChosenByOne
INVARIANTS
    NoGhostBusy
PROPERTIES
    ImplementsExclusiveHandoff
