CONSTANTS
    Name = {"a", "b"}
    Content = {"one", "two"}
    PathKey = {"last_file"}
    None = None
    Malformed = Malformed
    HardLinks = FALSE
    MaxEdits = 3
    MaxMishaps = 2
SPECIFICATION Spec
INVARIANTS
    NothingIsLeftBehind
PROPERTIES
    ImportOnlyAdds
    PathsLeadHome
