\* Three addresses: the lists stay whole and implement a bag of grants.
CONSTANTS
    a1 = a1
    a2 = a2
    n1 = n1
    n2 = n2
    n3 = n3
    NULL = NULL
    AD <- MCAD
    Node <- MCNode
    RIGHT_NUM = 2
    WRITE = 1
    MaxRights = 1
    MaxAppends = 3
SPECIFICATION Spec
SYMMETRY Symmetric
INVARIANTS
    TypeOK
    HeapAccounted
    CheckSound
PROPERTIES
    ImplementsAuthorization
\* The process may end: exit(-1), a fault, or the command 'e'.
CHECK_DEADLOCK FALSE
