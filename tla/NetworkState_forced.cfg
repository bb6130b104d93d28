CONSTANTS
    h1 = h1
    h2 = h2
    t1 = t1
    t2 = t2
    NoHost = NoHost
    Host <- OneHost
    Port = {1, 2}
    ServerPort = 1
    Ticker <- OneTicker
    StableTicks = 2
    MoreStableTicks = 3
    ProbeNodes = 2
    ProbeQuorum = 2
    Bootstrappers = 1
    MaxWakeups = 1

SPECIFICATION FairSpec
PROPERTY ForcedTurnsPersistent

\* Everything stops once the node is destroyed.
CHECK_DEADLOCK FALSE
