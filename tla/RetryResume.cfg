SPECIFICATION Spec
CONSTANTS
    c1 = c1  c2 = c2
    Nil = Nil
    Sandboxes = {s1}
    VMs <- VMs3
    Requests = {c1}
    Does <- PauseResume
    FaultKinds = {"db"}
    MaxFaults = 1
    MaxRestarts = 0
    Space = 256
INVARIANT NoOrphan
CHECK_DEADLOCK FALSE
