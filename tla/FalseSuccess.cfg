SPECIFICATION Spec
CONSTANTS
    root = root
    sub = sub
    none = none
    Folders <- MCFolders
    Parent <- MCParent
    NoFolder = none
    AutoCallers = {sched}
    ManualCallers = {admin}
    PathTask = path
    Nobody = nobody
    WindowsTotal = 2
    MaxAttempts = 2
    MaxCycles = 1
    MaxPathSyncs = 0
    MaxAnchor = 0
    MaxTime = 3
    MaxCrashes = 0
    MaxErrors = 1
INVARIANT SuccessIsDrained
CHECK_DEADLOCK FALSE
