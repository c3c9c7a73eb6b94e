SPECIFICATION Spec
CONSTANTS
    q1 = q1  q2 = q2  q3 = q3
    Nil = Nil
    Requests = {q1, q2}
    Skew <- NoSkew
    MaxSkew = 0
    MaxDelay = 1
    Ttl = 2
    KeyTtl = 3
    Capacity = 2
    Refill = 1
    Cost = 1
    MaxTime = 4
    MaxFaults = 0
    MaxHistory = 5
INVARIANT RateAsPromised
CHECK_DEADLOCK FALSE
