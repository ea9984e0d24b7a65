CONSTANTS
    NRuntime = 1
    NAction = 2
    HotKey <- Keys
    Refusals <- AnyCall
    MaxMishaps = 1
    Default <- Defaults
    SlotSets <- Contents
    Unset = "unset"
    May <- NoField
SPECIFICATION Spec
INVARIANTS
    OwnsWhatItHolds
    KeysDoWhatTheyShow
    SettingsWhole
    RecordingIsClean
CHECK_DEADLOCK FALSE
