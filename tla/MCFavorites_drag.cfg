CONSTANTS
    Name = {a, b}
    Group = {default, work}
    Default = default
    None = None
    MixedDrag = TRUE
    MaxEdits = 2
    MaxMishaps = 0
SPECIFICATION Spec
INVARIANTS
    DropsKeepGroups
