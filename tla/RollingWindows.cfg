SPECIFICATION Spec
CONSTANTS
    root = root
    sub = sub
    none = none
    Folders <- MCFolders
    Parent <- MCParent
    NoFolder = none
    AutoCallers = {sched}
    ManualCallers = {admin}
    PathTask = path
    Nobody = nobody
    WindowsTotal = 2
    MaxAttempts = 3
    MaxCycles = 1
    MaxPathSyncs = 0
    MaxAnchor = 0
    MaxTime = 2
    MaxCrashes = 1
    MaxErrors = 1
INVARIANT IInv
INVARIANT NothingOrphaned
PROPERTY VerifiedOnce
PROPERTY WindowCountedWhenDone
CHECK_DEADLOCK FALSE
