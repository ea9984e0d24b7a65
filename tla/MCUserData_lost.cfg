CONSTANTS
    Name = {"a", "b"}
    Content = {"one", "two"}
    PathKey = {"last_file"}
    None = None
    Malformed = Malformed
    HardLinks = FALSE
    MaxEdits = 3
    MaxMishaps = 1
SPECIFICATION Spec
INVARIANTS
    EverythingArrived
