SPECIFICATION Spec
CONSTANTS
    N       = 4
    BlkSize = 2
    Data    = {1, 2}
    NULL    = NULL
    Cell    <- MCCell
    Zero    <- MCZero
    Written <- MCWritten
    Sizes   <- MCSizes
PROPERTIES
    AllRemoved
\* a list call may not come back
CHECK_DEADLOCK FALSE
