CONSTANT MaxCalls = 3

SPECIFICATION FairSpec
PROPERTY DestroyedAlwaysCloses

\* The program may make no further call.
CHECK_DEADLOCK FALSE
