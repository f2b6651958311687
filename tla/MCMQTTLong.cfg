\* A message longer than the buffer.
CONSTANTS
    MaxWait = 2
    MaxCommands = 1
    MaxFaults = 0
SPECIFICATION Spec
PROPERTIES
    LongIsDropped
\* The thread may end, and the process with it.
CHECK_DEADLOCK FALSE
