SPECIFICATION FairSpec
CONSTANTS
    Backends = {"docker", "firecracker"}
    MaxIn = 4
    MaxOut = 0
    Cap = 1
    GuestBuf = 2
    HostBuf = 2
    BashReads = FALSE
PROPERTY HandlerEnds
CHECK_DEADLOCK FALSE
