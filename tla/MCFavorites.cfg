CONSTANTS
    Name = {a, b, c}
    Group = {default, work}
    Default = default
    None = None
    MixedDrag = FALSE
    MaxEdits = 2
    MaxMishaps = 2
SPECIFICATION Spec
INVARIANTS
    EveryFileListed
PROPERTIES
    NothingDestroyed
    FailureLeavesNoTrace
