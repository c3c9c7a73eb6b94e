SPECIFICATION FairSpec
CONSTANTS
    r1 = r1  r2 = r2  q1 = q1  q2 = q2
    Nil = Nil
    Sandboxes = {s1, s2}
    Containers = {c1, c2}
    Images = {}
    Writes = {}
    Replicas = {r1}
    Requests = {q1}
    HomeOf <- OneHome
    WarmIds = {}
    Ops = {"create", "delete", "exec"}
    FaultKinds = {"redis", "exit"}
    MaxFaults = 2
    MaxCrashes = 0
    Expiry = TRUE
    LeaseLoss = FALSE

INVARIANT RecordIsTruth
PROPERTY ExpiredIsReaped
