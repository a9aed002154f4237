SPECIFICATION Spec
CONSTANTS
    A = A
    B = B
    a1 = a1
    a2 = a2
    b1 = b1
    Scopes <- MCScopes
    Paths <- MCPaths
    ScopeOf <- MCScopeOf
    Contents = {x, y}
    Ids = {r1, r2, r3}
    None = none
    Confirm = 2
    MaxCycles = 3
    MaxChanges = 2
    MaxFaults = 1
    MaxRebuilds = 1
    MaxEvents = 3
SYMMETRY Symmetry
INVARIANT IInv
INVARIANT SearchFollowsIndex
INVARIANT IndexFollowsDisk
PROPERTY IdentityStaysWithFile
PROPERTY MissingInTwoCycles
CHECK_DEADLOCK FALSE
