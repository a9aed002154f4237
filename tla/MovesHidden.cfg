SPECIFICATION Spec
CONSTANTS
    A = A
    B = B
    a1 = a1
    a2 = a2
    b1 = b1
    Scopes <- MCScopes
    Paths <- MCPaths
    ScopeOf <- MCScopeOf
    Contents = {x, y}
    Ids = {r1, r2, r3}
    None = none
    Confirm = 2
    MaxCycles = 3
    MaxChanges = 1
    MaxFaults = 0
    MaxRebuilds = 0
    MaxEvents = 1
SYMMETRY Symmetry
INVARIANT EveryFileHasAnIdentity
CHECK_DEADLOCK FALSE
