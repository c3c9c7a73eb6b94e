SPECIFICATION Spec
CONSTANTS
    r1 = r1  r2 = r2  q1 = q1  q2 = q2
    Nil = Nil
    Sandboxes = {s1}
    Containers = {c1}
    Images = {}
    Writes = {}
    Replicas = {r1}
    Requests = {q1}
    HomeOf <- OneHome
    WarmIds = {}
    Ops = {"create"}
    FaultKinds = {}
    MaxFaults = 0
    MaxCrashes = 1
    Expiry = FALSE
    LeaseLoss = FALSE

INVARIANT ReconcileDropsOnlyDead
