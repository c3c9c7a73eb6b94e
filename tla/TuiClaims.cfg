SPECIFICATION Spec
CONSTANTS
    Nil = Nil
    First = 2
    MaxIds = 2
    MaxSlots = 2
    Frames = 2
    MaxKeys = 5
    MaxChanges = 1
    MaxFaults = 1
CHECK_DEADLOCK FALSE
\* Each of these is violated; TLC stops at the first, so comment out the others
\* to see the one that is left.
INVARIANT PromptHasSandbox
INVARIANT ConfirmedIsDeleted
INVARIANT OutputIsOwn
INVARIANT BusyWhileActing
PROPERTY RetryClearsError
