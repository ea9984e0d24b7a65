CONSTANTS
    MaxSessions = 2
    MaxRecordings = 2
    MaxStarts = 3
    MaxQueue = 1
    Cycles <- Two
    Faults <- Harmless
    Rash = FALSE
SPECIFICATION Spec
INVARIANTS
    NothingRunsUnseen
    TypingIsNotRecorded
    ShownAsIs
PROPERTIES
    LandsAsAsked
    WindowComesBack
CHECK_DEADLOCK FALSE
