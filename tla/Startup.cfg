SPECIFICATION FairSpec
CONSTANTS
    Ids = {r1}
    Connections = {c1, c2}
    None = none
    Current = 3
    MaxStops = 2
    MaxLosses = 2
    MaxWork = 4
INVARIANT IInv
INVARIANT RefusesForCause
INVARIANT IndexIsItsSites
PROPERTY ComesUpRecovered
PROPERTY UpgradeIsCopied
PROPERTY SeedIsCopied
PROPERTY SetupDecidesOnce
PROPERTY ComesUp
CHECK_DEADLOCK FALSE
