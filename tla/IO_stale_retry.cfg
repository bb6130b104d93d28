CONSTANTS
    r1 = r1
    r2 = r2
    r3 = r3
    Request <- OneRequest
    InSession <- NoRequests
    MaxRetries = 1
    MaxWindow = 1
    TidSpace = 2
    FirstTids <- AnyTid
    MaxBinds = 1
    Forced <- Unforced

SPECIFICATION Spec
INVARIANT ReportedTimedOut

\* Every request may have been settled and the sockets closed for good.
CHECK_DEADLOCK FALSE
