SPECIFICATION FairSpec
CONSTANTS
    Threads = {t1, t2, t3}
    Nodes = {n1, n2}
    NoNode = NoNode
    NoThread = NoThread
    MaxGets = 4
    MayDisconnect = FALSE
CHECK_DEADLOCK FALSE
PROPERTIES
    CallsReturn
