CONSTANTS
    Entry = {e1, e2}
    SqqLen = 4
    HalfRange = 2
    MaxString = 3
    None = None
SPECIFICATION Spec
PROPERTIES StringEnterAppends
