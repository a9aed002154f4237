SPECIFICATION FairSpec
CONSTANTS
    root = root
    sub = sub
    none = none
    Folders <- MCFolders
    Parent <- MCParent
    NoFolder = none
    AutoCallers = {sched}
    ManualCallers = {}
    PathTask = path
    Nobody = nobody
    WindowsTotal = 2
    MaxAttempts = 2
    MaxCycles = 1
    MaxPathSyncs = 1
    MaxAnchor = 0
    MaxTime = 3
    MaxCrashes = 1
    MaxErrors = 1
INVARIANT SuccessIsDrained
INVARIANT LastWindowReachesAll
PROPERTY CycleCompletes
CHECK_DEADLOCK FALSE
