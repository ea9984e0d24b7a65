SPECIFICATION FairSpec
CONSTANTS
    a = a
    b = b
    esc = esc
    None = None
    Esc = esc
    Key <- OneKey
    Button <- NoInput
    Hotkey <- NoInput
    Group <- NoGroup
    MaxTime = 6
    May <- InjectionsAndFailures
INVARIANT Faithful
INVARIANT NothingLost
INVARIANT NothingLeaks
PROPERTY StopDelivers
CHECK_DEADLOCK FALSE
