SPECIFICATION FairSpec
CONSTANTS
    r1 = r1  r2 = r2  q1 = q1  q2 = q2
    Nil = Nil
    Sandboxes = {s1}
    Containers = {c1}
    Images = {i1}
    Writes = {}
    Replicas = {r1}
    Requests = {q1}
    HomeOf <- OneHome
    WarmIds = {}
    Ops = {"create", "pause"}
    FaultKinds = {"db"}
    MaxFaults = 1
    MaxCrashes = 0
    Expiry = TRUE
    LeaseLoss = FALSE

PROPERTY ExpiredPauseIsCollected
