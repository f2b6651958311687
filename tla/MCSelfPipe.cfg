\* Contexts of four sizes in bytes of up to 7, two lives of the loop.
SPECIFICATION FairPipeSpec
CONSTANTS
    UINT8_MAX = 7
    CharIsSigned = FALSE
    Sizes = {0, 1, 6, 7}
    NoCallback = NoCallback
    Capacity = 20
    MaxCalls = 5
    MaxLives = 2
INVARIANTS
    PipeTypeOK
PROPERTIES
    ImplementsCallbackQueue
    EveryCallbackRuns
\* The calls and the lives are bounded.
CHECK_DEADLOCK FALSE
