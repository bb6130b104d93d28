CONSTANTS
    h1 = h1
    h2 = h2
    t1 = t1
    t2 = t2
    NoHost = NoHost
    Host <- TwoHosts
    Port = {1, 2}
    ServerPort = 1
    Ticker <- TwoTickers
    StableTicks = 1
    MoreStableTicks = 2
    ProbeNodes = 2
    ProbeQuorum = 2
    Bootstrappers = 1
    MaxWakeups = 1

SPECIFICATION FairSpec
INVARIANTS
    TypeOK
PROPERTIES
    PersistentIsCurrent
    PersistentIsEarned
    BootstrapEnds
    OpenTurnsPersistent

\* Everything stops once the node is destroyed.
CHECK_DEADLOCK FALSE
