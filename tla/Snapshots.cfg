SPECIFICATION Spec
CONSTANTS
    c1 = c1  c2 = c2
    Nil = Nil
    Sandboxes = {s1, s2}
    VMs <- VMs3
    Requests = {c1}
    Does <- OneAtATime
    FaultKinds = {"api", "exit", "net", "remove", "spawn"}
    MaxFaults = 2
    MaxRestarts = 1
    Space = 256
INVARIANTS ManifestHasSnapshot FirstPauseIsRestorable NothingLeftBehind
CHECK_DEADLOCK FALSE
