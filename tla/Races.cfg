SPECIFICATION Spec
CONSTANTS
    r1 = r1  r2 = r2  q1 = q1  q2 = q2
    Nil = Nil
    Sandboxes = {s1, s2}
    Containers = {c1, c2}
    Images = {i1, i2}
    Writes = {w1}
    Replicas = {r1}
    Requests = {q1, q2}
    HomeOf <- TwoOnOne
    WarmIds = {p1}
    Ops = {"create", "exec", "pause", "resume"}
    FaultKinds = {}
    MaxFaults = 0
    MaxCrashes = 0
    Expiry = TRUE
    LeaseLoss = FALSE
SYMMETRY SymmetryAll
INVARIANTS OwnResources NoForeignData PausedIsResumable
