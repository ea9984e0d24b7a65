SPECIFICATION Spec
CONSTANTS
    a = a
    b = b
    esc = esc
    None = None
    Esc = esc
    Key <- OneKey
    Button <- NoInput
    Hotkey <- NoInput
    Group <- NoGroup
    MaxTime = 6
    May <- TextPause
INVARIANT Chronological
CHECK_DEADLOCK FALSE
