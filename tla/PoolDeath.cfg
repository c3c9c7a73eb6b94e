SPECIFICATION FairSpec
CONSTANTS
    Nil = Nil
    Size = 1
    Placeholders <- Few
    Requests = {r1}
    MaxFaults = 0
    MaxDeaths = 1
    Hangups = FALSE
    Shutdown = FALSE
PROPERTY DeadIsReplaced
