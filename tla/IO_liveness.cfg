CONSTANTS
    r1 = r1
    r2 = r2
    r3 = r3
    Request <- TwoRequests
    InSession <- OneRequest
    MaxRetries = 0
    MaxWindow = 1
    TidSpace = 2
    FirstTids <- AnyTid
    MaxBinds = 2
    Forced <- ForcedOrNot

SPECIFICATION FairSpec
INVARIANTS
    AccountsBalance
PROPERTIES
    ContractSpec
    EverySettles
    DestroyCompletes

\* Every request may have been settled and the sockets closed for good.
CHECK_DEADLOCK FALSE
