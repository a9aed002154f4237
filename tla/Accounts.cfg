SPECIFICATION FairSpec
CONSTANTS
    MaxUsers = 2
    Names = {n1, n2}
    Passwords = {p1, p2}
    Sessions = {s1, s2}
    Requests = {q1, q2}
    None = none
    Life = 2
    Retention = 1
    MaxRequests = 3
INVARIANT IInv
INVARIANT SessionsFollowAccount
 
PROPERTY SessionsEnd
CHECK_DEADLOCK FALSE
