SPECIFICATION Spec
CONSTANTS
    r1 = r1  r2 = r2  q1 = q1  q2 = q2
    Nil = Nil
    Sandboxes = {s1}
    Containers = {c1, c2}
    Images = {i1}
    Writes = {w1}
    Replicas = {r1}
    Requests = {q1, q2}
    HomeOf <- TwoOnOne
    WarmIds = {}
    Ops = {"create", "exec", "pause"}
    FaultKinds = {}
    MaxFaults = 0
    MaxCrashes = 0
    Expiry = FALSE
    LeaseLoss = FALSE

INVARIANT AckedDataSurvives
