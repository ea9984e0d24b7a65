CONSTANTS
    MaxSessions = 2
    MaxRecordings = 2
    MaxStarts = 3
    MaxQueue = 2
    Cycles <- Two
    Faults <- NoFaults
    Rash = FALSE
SPECIFICATION Spec
INVARIANT ComposerLeftOut
CHECK_DEADLOCK FALSE
