SPECIFICATION Spec
CONSTANTS
    r1 = r1  r2 = r2  q1 = q1  q2 = q2
    Nil = Nil
    Sandboxes = {s1}
    Containers = {c1, c2}
    Images = {i1}
    Writes = {}
    Replicas = {r1}
    Requests = {q1}
    HomeOf <- OneHome
    WarmIds = {}
    Ops = {"create", "pause", "delete"}
    FaultKinds = {}
    MaxFaults = 0
    MaxCrashes = 0
    Expiry = FALSE
    LeaseLoss = FALSE

PROPERTY DeleteRemoves
