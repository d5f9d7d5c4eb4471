SPECIFICATION FairSpec
CONSTANTS
    Workers = {w1, w2}
    Reactors = {r1}
    Conns = {c1}
    ConnOwner <- MCConnOwner
    NoConn = NoConn
    NoThread = NoThread
    m_InitNum = 1
    m_MaxNum = 2
    m_AvailLow = 1
    m_AvailHigh = 1
    StartMayFail = TRUE
    BusyBound = 9
PROPERTIES
    ParkedWorkerRuns
    ChosenWorkerIsLocked
    
    StartedWorkerReturns
