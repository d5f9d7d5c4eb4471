SPECIFICATION FairSpec
CONSTANTS
    Urls = {"file"}
    Lengths <- CutLengths
    INT_MAX = 31
    MaxBody = 2
    Resource <- MCResource
    Requests <- CutRequests
    PartSize <- MCPartSize
    READ_BUFFER_SIZE = 11
    WRITE_BUFFER_SIZE = 8
    CutsInput = TRUE
    MaxHeaders = 1
CHECK_DEADLOCK FALSE
INVARIANTS
    TypeOK
    ParserIndices
    UrlIsSet
    MappingIsReleased
    WriteBufferBounded
PROPERTIES
    ProcessReturns
