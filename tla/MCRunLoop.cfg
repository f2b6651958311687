\* Two descriptors, handles and timers: callbacks call into the loop.
SPECIFICATION FairSpec
CONSTANTS
    f1 = f1
    f2 = f2
    FD = {f1, f2}
    Interests <- ReadOrWrite
    NoTimer = NoTimer
    NoCall = NoCall
    MaxTime = 2
    MaxTimers = 2
    MaxHandles = 2
INVARIANTS
    TypeOK
    PassIsSound
PROPERTIES
    OnlyReported
    ImplementsTimerService
    DueTimerServed
