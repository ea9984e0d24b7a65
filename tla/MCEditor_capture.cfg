CONSTANTS
    Macro <- Macros
    Name <- Names
    What = {"a"}
    May <- CapturesInDialogs
    MaxUndo = 2
    MaxEdits = 2
    MaxMoves = 0
SPECIFICATION Spec
PROPERTY
    EditTouchesItsRow
CHECK_DEADLOCK FALSE
