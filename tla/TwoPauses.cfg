SPECIFICATION Spec
CONSTANTS
    c1 = c1  c2 = c2
    Nil = Nil
    Sandboxes = {s1}
    VMs <- VMs3
    Requests = {c1, c2}
    Does <- TwoPause
    FaultKinds = {"api"}
    MaxFaults = 1
    MaxRestarts = 0
    Space = 256
INVARIANT ManifestHasSnapshot
CHECK_DEADLOCK FALSE
