SPECIFICATION FairSpec
CONSTANTS
    c1 = c1  c2 = c2
    Nil = Nil
    Sandboxes = {s1}
    VMs <- VMs3
    Requests = {c1}
    Does <- PauseResume
    FaultKinds = {"exit"}
    MaxFaults = 1
    MaxRestarts = 0
    Space = 256
PROPERTY EveryDeadIsForgotten
CHECK_DEADLOCK FALSE
