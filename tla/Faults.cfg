SPECIFICATION Spec
CONSTANTS
    r1 = r1  r2 = r2  q1 = q1  q2 = q2
    Nil = Nil
    Sandboxes = {s1}
    Containers = {c1, c2}
    Images = {i1}
    Writes = {}
    Replicas = {r1, r2}
    Requests = {q1, q2}
    HomeOf <- TwoOnOne
    WarmIds = {}
    Ops = {"create", "delete", "exec", "pause", "resume"}
    FaultKinds = {"docker", "db", "redis", "exit"}
    MaxFaults = 1
    MaxCrashes = 1
    Expiry = TRUE
    LeaseLoss = FALSE
SYMMETRY Symmetry
INVARIANTS TypeOK CleanupIsUnreferenced PauseRecorded ForgetsOnlyWhatIsGone OneReaper
