CONSTANTS
    Macro <- Macros
    Name <- Names
    What = {"a"}
    May <- Ordinary
    MaxUndo = 2
    MaxEdits = 2
    MaxMoves = 2
SPECIFICATION Spec
INVARIANTS
    EditsKeepTime
    RowsShowEveryEvent
PROPERTIES
    EditTouchesItsRow
    EveryEditIsUndoable
CHECK_DEADLOCK FALSE
