SPECIFICATION Spec
CONSTANTS
    Addresses = {a1}
    Requests = {q1, q2}
    None = none
    Limit = 2
    Window = 3
    Block = 3
    Keep = 4
    Delay = 1
    MaxTime = 10
INVARIANT TypeOK
INVARIANT RateKept
PROPERTY RefusedForCause
CHECK_DEADLOCK FALSE
