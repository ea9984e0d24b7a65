CONSTANTS
    NRuntime = 1
    NAction = 2
    HotKey <- Keys
    Refusals <- AnyCall
    MaxMishaps = 2
    Default <- Defaults
    SlotSets <- Contents
    Unset = "unset"
    May <- NoField
SPECIFICATION Spec
INVARIANTS
    SettingsWhole
CHECK_DEADLOCK FALSE
