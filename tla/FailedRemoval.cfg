SPECIFICATION Spec
CONSTANTS
    c1 = c1  c2 = c2
    Nil = Nil
    Sandboxes = {s1}
    VMs <- VMs2
    Requests = {c1}
    Does <- OneAtATime
    FaultKinds = {"api", "remove"}
    MaxFaults = 1
    MaxRestarts = 0
    Space = 256
INVARIANT KillsOnlyWhatIsSaved
CHECK_DEADLOCK FALSE
