SPECIFICATION Spec
CONSTANTS
    a = a
    b = b
    esc = esc
    None = None
    Esc = esc
    Key <- EscOnly
    Button <- NoInput
    Hotkey <- NoInput
    Group <- NoGroup
    MaxTime = 5
    May <- Nothing
INVARIANT NothingLost
CHECK_DEADLOCK FALSE
