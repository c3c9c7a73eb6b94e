SPECIFICATION FairSpec
CONSTANTS
    c1 = c1  c2 = c2
    Nil = Nil
    Sandboxes = {s1, s2}
    VMs <- VMs2
    Requests = {c1, c2}
    Does <- ClientAndReaper
    FaultKinds = {"api", "exit", "file", "net", "spawn"}
    MaxFaults = 2
    MaxRestarts = 0
    Space = 256
INVARIANTS TypeOK AddressesApart NoOrphan
PROPERTY DeadIsForgotten
CHECK_DEADLOCK FALSE
