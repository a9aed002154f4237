SPECIFICATION FairSpec
CONSTANTS
    A = A
    B = B
    a1 = a1
    a2 = a2
    b1 = b1
    Roots <- MCRoots
    Paths <- MCPaths
    RootOf <- MCRootOf
    Scheduled = {sched}
    Manual = {admin}
    PathTask = paths
    Nobody = nobody
    Confirm = 2
    GuardItems = 2
    GuardShare = 2
    MaxChanges = 2
    MaxFaults = 1
    MaxPathRuns = 1
    MaxFolders = 2
    MaxBeside = 1
INVARIANT IInv
PROPERTY MissingWasAway
INVARIANT SearchIsCurrent
INVARIANT EngineHasIndex
PROPERTY SuccessShowsFiles
PROPERTY FirstIndexCompletes
CHECK_DEADLOCK FALSE
