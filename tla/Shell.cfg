SPECIFICATION FairSpec
CONSTANTS
    Backends = {"docker", "firecracker"}
    MaxIn = 3
    MaxOut = 3
    Cap = 1
    GuestBuf = 2
    HostBuf = 2
    BashReads = TRUE
INVARIANTS OutputInOrder InputInOrder
PROPERTIES OutputArrives HandlerEnds
CHECK_DEADLOCK FALSE
