SPECIFICATION Spec
CONSTANTS
    a = a
    b = b
    esc = esc
    None = None
    Esc = esc
    Key <- KeysAndEsc
    Button <- NoInput
    Hotkey <- NoInput
    Group <- CtrlKeys
    MaxTime = 6
    May <- MovesAndFences
INVARIANT Chronological
INVARIANT OnlyFencesSplitGestures
CHECK_DEADLOCK FALSE
