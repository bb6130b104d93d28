CONSTANTS
    N = 3
    K = 2
    Concurrency = 2
    Background = 1
    Slowed = 1
    HighWater = 1
    Starts <- NoneOrTwo
    Tables <- NoneOrSome
    Bootstrap <- BootstrapNode
    Options <- SixOptions
    Lists <- SomeLists

SPECIFICATION FairSpec
INVARIANTS
    TypeOK
    CountsKept
    ClosestKept
    NoneSkipped
    HintsMatch
PROPERTIES
    CommitsDecide
    AskedOnce
    Terminates

\* A query that is closed stays closed.
CHECK_DEADLOCK FALSE
