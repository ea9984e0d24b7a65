CONSTANTS
    Macro <- Macros
    Name <- Names
    What = {"a"}
    May <- Ordinary
    MaxUndo = 2
    MaxEdits = 2
    MaxMoves = 1
SPECIFICATION Spec
PROPERTY
    AppendKeepsEdits
CHECK_DEADLOCK FALSE
