SPECIFICATION Spec
CONSTANTS
    q1 = q1  q2 = q2  q3 = q3
    Nil = Nil
    Requests = {q1, q2}
    Skew <- OneAhead
    MaxSkew = 1
    MaxDelay = 1
    Ttl = 2
    KeyTtl = 5
    Capacity = 3
    Refill = 1
    Cost = 2
    MaxTime = 6
    MaxFaults = 1
    MaxHistory = 5
INVARIANTS TypeOK StaleIsBounded RateIsBounded
CHECK_DEADLOCK FALSE
