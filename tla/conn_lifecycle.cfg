SPECIFICATION FairSpec
CONSTANTS
    Workers = {w1, w2}
    Conn = Conn
    Another = Another
    NoJob = NoJob
    MaxRequests = 2
CHECK_DEADLOCK FALSE
INVARIANTS
    TypeOK
    UndefinedNeedsOverlap
    SequentialRequestsAreAnswered
PROPERTIES
    RequestIsAnswered
    ClosedIsDeleted
