\* One client after the other, all endpoints, nothing fails.
SPECIFICATION Spec
CONSTANTS
    r1 = r1  r2 = r2  q1 = q1  q2 = q2
    Nil = Nil
    Sandboxes = {s1, s2}
    Containers = {c1, c2, c3}
    Images = {i1, i2}
    Writes = {w1, w2}
    Replicas = {r1}
    Requests = {q1}
    HomeOf <- OneHome
    WarmIds = {}
    Ops = {"create", "delete", "exec", "pause", "resume"}
    FaultKinds = {}
    MaxFaults = 0
    MaxCrashes = 0
    Expiry = FALSE
    LeaseLoss = FALSE
SYMMETRY Symmetry
INVARIANTS RecordIsTruth AckedDataSurvives
PROPERTY ServiceSpec
