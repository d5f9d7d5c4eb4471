SPECIFICATION Spec
CONSTANTS
    Urls = {"missing", "forbidden", "directory", "empty", "file"}
    Resource <- MCResource
    Requests <- MCRequests
    PartSize <- MCPartSize
    READ_BUFFER_SIZE = 12
    WRITE_BUFFER_SIZE = 12
    CutsInput = FALSE
    MaxHeaders = 2
    MaxBody = 1
    INT_MAX = 31
    Lengths <- MCLengths
CHECK_DEADLOCK FALSE
INVARIANTS
    WholeRequestIsAnswered
