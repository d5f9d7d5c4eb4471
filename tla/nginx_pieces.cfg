SPECIFICATION FairSpec
CONSTANTS
    Codes <- MCCodes
    HeaderLines <- MCHeaderLines
    MaxHeaders = 3
    BUFFER_SIZE = 9
    MayFail = TRUE
CHECK_DEADLOCK FALSE
INVARIANTS
    TypeOK
PROPERTIES
    ImplementsWholeResponse
    CompleteHeaderIsJudged
