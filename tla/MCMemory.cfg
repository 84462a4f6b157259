SPECIFICATION Spec
CONSTANTS
    N       = 4
    BlkSize = 2
    Data    = {1, 2}
    NULL    = NULL
    Cell    <- MCCell
    Zero    <- MCZero
    Written <- MCWritten
    Sizes   <- MCSizes
INVARIANTS
    TypeOK
    Accounted
    FreeIsZero
PROPERTIES
    HeapSpec
    ListSteps
\* a list call may not come back
CHECK_DEADLOCK FALSE
