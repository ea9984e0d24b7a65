CONSTANTS
    NRuntime = 1
    NAction = 2
    HotKey <- Keys
    Refusals <- AnyCall
    MaxMishaps = 0
    Default <- Defaults
    SlotSets <- Contents
    Unset = "unset"
    May <- Field
SPECIFICATION Spec
INVARIANT RecordingIsClean
CHECK_DEADLOCK FALSE
