SPECIFICATION FairSpec
CONSTANTS
    Nil = Nil
    First = 1
    MaxIds = 2
    MaxSlots = 2
    Frames = 2
    MaxKeys = 3
    MaxChanges = 1
    MaxFaults = 1
CHECK_DEADLOCK FALSE
INVARIANTS TypeOK WaitsForSomething TimersApart
PROPERTY ListConverges
