SPECIFICATION Spec
CONSTANTS
    root = root
    sub = sub
    none = none
    Folders <- MCRootFolders
    Parent <- MCRootParent
    NoFolder = none
    AutoCallers = {sched}
    ManualCallers = {admin}
    PathTask = path
    Nobody = nobody
    WindowsTotal = 1
    MaxAttempts = 1
    MaxCycles = 2
    MaxPathSyncs = 1
    MaxAnchor = 1
    MaxTime = 1
    MaxCrashes = 1
    MaxErrors = 1
CHECK_DEADLOCK FALSE
PROPERTY OneCycleKept
