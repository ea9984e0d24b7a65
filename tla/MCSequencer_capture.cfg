SPECIFICATION SeqSpec
CONSTANTS
    Gui = gui
    MacroId <- MacroNames
    WaitId <- WaitNames
    Caller <- GuiOnly
    Id <- Names
    Flows <- NoFlow
    None = None
    Documents <- Stable
    NewItems <- NewText
    MaxItems = 2
    MaxRuns = 2
    MaxPlays = 2
PROPERTY CaptureKeepsOthers
CHECK_DEADLOCK FALSE
