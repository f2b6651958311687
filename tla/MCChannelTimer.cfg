\* The precondition of the event notification timer, after a restart.
SPECIFICATION Spec
CONSTANTS
    t1 = t1
    t2 = t2
    Thread = {t1, t2}
    MaxSessions = 2
INVARIANTS EventTimerOnRecord
\* The process ends when main returns or a check aborts it.
CHECK_DEADLOCK FALSE
