CONSTANTS
    a = a
    b = b
    c = c
    Id <- ThreeIds
    Copies = 2
    K = 2
    RecentNode = 2
    OldNode = 1
    PingEvery = 2
    PingCounts = {1, 2}
    MaxRepings = 1
    MaxChecks = 2
    MaxTick = 2
    MaxPings = 2

SPECIFICATION Spec
SYMMETRY Symmetry
VIEW View
INVARIANT HintedAnswerKeepsPlace

\* The last tick.
CHECK_DEADLOCK FALSE
