\* Two requests whose clients may go away, a server that may be stopped, a
\* container that dies and a call that fails.
SPECIFICATION FairSpec
CONSTANTS
    Nil = Nil
    Size = 2
    Placeholders <- Enough
    Requests = {r1, r2}
    MaxFaults = 1
    MaxDeaths = 1
    Hangups = TRUE
    Shutdown = TRUE
CHECK_DEADLOCK FALSE
INVARIANTS TypeOK HandedOutOnce NoExcess
PROPERTY KeepsFilling
