CONSTANTS
    MaxSessions = 2
    MaxRecordings = 2
    MaxStarts = 3
    MaxQueue = 2
    Cycles <- Two
    Faults <- NoFaults
    Rash = TRUE
SPECIFICATION Spec
INVARIANT RecordingIsSeen
CHECK_DEADLOCK FALSE
