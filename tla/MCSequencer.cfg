SPECIFICATION FairSeqSpec
CONSTANTS
    Gui = gui
    MacroId <- MacroNames
    WaitId <- WaitNames
    Caller <- GuiOnly
    Id <- Names
    Flows <- NoFlow
    None = None
    Documents <- Stable
    NewItems <- NewText
    MaxItems = 2
    MaxRuns = 2
    MaxPlays = 1
INVARIANTS
    IdleMeansDead
    RowsShowTheirNodes
PROPERTY DeadEngineIsLetGo
CHECK_DEADLOCK FALSE
