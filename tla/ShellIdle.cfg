SPECIFICATION FairSpec
CONSTANTS
    Backends = {"firecracker"}
    MaxIn = 1
    MaxOut = 1
    Cap = 1
    GuestBuf = 2
    HostBuf = 2
    BashReads = TRUE
PROPERTY ShellIsKilled
CHECK_DEADLOCK FALSE
