\* Two failures, two commands, one more attempt after the first.
CONSTANTS
    MaxWait = 2
    MaxCommands = 2
    MaxFaults = 2
SPECIFICATION FairSpec
INVARIANTS
    TypeOK
    Resubscribed
    NothingCarriedOver
PROPERTIES
    LossNoticed
    Recovers
\* The thread may end, and the process with it.
CHECK_DEADLOCK FALSE
