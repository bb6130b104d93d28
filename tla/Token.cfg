CONSTANTS
    h1 = h1
    h2 = h2
    Host <- TwoHosts
    RotateEvery = 10
    MaxTokens = 2
    MaxHashed = 2

SPECIFICATION Spec
SYMMETRY Symmetry
INVARIANTS
    FreshAccepted
    StaleRejected

\* The secrets have been hashed as often as the bound lets them.
CHECK_DEADLOCK FALSE
