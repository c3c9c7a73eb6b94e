SPECIFICATION Spec
CONSTANTS
    Nil = Nil
    Size = 1
    Placeholders <- Few
    Requests = {r1}
    MaxFaults = 0
    MaxDeaths = 0
    Hangups = TRUE
    Shutdown = FALSE
INVARIANT WarmIsKept
