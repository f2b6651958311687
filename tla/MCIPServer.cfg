\* Three sessions and fair scheduling: safety, and that a stop completes.
SPECIFICATION FairSpec
CONSTANTS
    s1 = s1
    s2 = s2
    s3 = s3
    Session = {s1, s2, s3}
    BufferSize = 2
    ResponseSize = 2
    MaxIdleTime = 2
INVARIANTS
    TypeOK
    Accounting
    IdleTimeHolds
    StoppedIsClean
PROPERTIES
    StopCompletes
\* A check that failed ends the process.
CHECK_DEADLOCK FALSE
