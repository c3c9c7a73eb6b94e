SPECIFICATION FairSpec
CONSTANTS
    Nil = Nil
    Size = 1
    Placeholders <- Few
    Requests = {r1}
    MaxFaults = 0
    MaxDeaths = 0
    Hangups = FALSE
    Shutdown = TRUE
CHECK_DEADLOCK FALSE
PROPERTY ShutdownStopsPool
