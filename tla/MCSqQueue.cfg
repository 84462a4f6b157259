CONSTANTS
    Entry = {e1, e2}
    SqqLen = 4
    HalfRange = 5
    MaxString = 3
    None = None
SPECIFICATION Spec
INVARIANTS TypeOK NoNullRead
PROPERTIES HandedSlotUntouched StringEnterAppends FifoSpec
