CONSTANTS
    Macro <- Drags
    Name <- Names
    What = {"a"}
    May <- LateAppends
    MaxUndo = 2
    MaxEdits = 3
    MaxMoves = 1
SPECIFICATION Spec
PROPERTY
    EditTouchesItsRow
CHECK_DEADLOCK FALSE
