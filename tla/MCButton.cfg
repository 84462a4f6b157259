SPECIFICATION Spec
CONSTANTS
    b1 = b1
    b2 = b2
    b3 = b3
    Buttons = {b1, b2, b3}
    Tracked = {b1}
    NULL = NULL
    Head = Head
    DEBOUNCE_TICKS = 2
    SHORT_TICKS = 3
    LONG_TICKS = 3
    RepeatLimit = 3
    TicksLimit = 5
    MaxClicks = 4
INVARIANTS TypeOK StateFits OneVerdict ClicksCounted ListEnds NoneMissed OneTurn
PROPERTIES EdgesReported PassEnds ComesToRest
