CONSTANTS
    r1 = r1
    r2 = r2
    r3 = r3
    Request <- ThreeRequests
    InSession <- ThreeRequests
    MaxRetries = 1
    MaxWindow = 1
    TidSpace = 3
    FirstTids <- LastTid
    MaxBinds = 1
    Forced <- Unforced

SPECIFICATION Spec
SYMMETRY Symmetry
INVARIANTS
    InFlightIsWaiting
    NothingForgotten
    WindowSound
    TidsDistinct
    AttemptsBounded
    SessionTracksFlight
PROPERTIES
    SettledOnce

\* Every request may have been settled and the sockets closed for good.
CHECK_DEADLOCK FALSE
