CONSTANT MaxCalls = 5

SPECIFICATION FairSpec
INVARIANTS
    TypeOK
    AtRestAsAsked
    CloseOnce
    NoStrayInterval
    NoLatePing
PROPERTIES
    CallsReturn
    DestroyedCloses

\* The program may make no further call.
CHECK_DEADLOCK FALSE
