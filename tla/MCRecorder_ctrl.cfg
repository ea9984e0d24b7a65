SPECIFICATION Spec
CONSTANTS
    a = a
    b = b
    esc = esc
    None = None
    Esc = esc
    Key <- TwoKeys
    Button <- NoInput
    Hotkey <- NoInput
    Group <- CtrlKeys
    MaxTime = 6
    May <- Fences
INVARIANT PausedGestureLeftOut
CHECK_DEADLOCK FALSE
