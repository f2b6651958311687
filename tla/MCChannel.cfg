\* Two HomeKit threads, two sessions: safety and liveness.
SPECIFICATION FairSpec
CONSTANTS
    t1 = t1
    t2 = t2
    Thread = {t1, t2}
    MaxSessions = 2
INVARIANTS
    TypeOK
    OneServer
    AbortNeedsOverlap
    EndsClean
PROPERTIES
    AcceptedDisableEnds
\* The process ends when main returns or a check aborts it.
CHECK_DEADLOCK FALSE
