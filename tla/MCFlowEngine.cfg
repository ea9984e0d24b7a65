SPECIFICATION FairSpec
CONSTANTS
    Caller = {ann, bob}
    Id <- Names
    Flows <- BothFlows
    None = None
    MaxRuns = 2
    MaxPlays = 2
INVARIANTS
    NoOrphanPlayback
    WellReported
    EndIsTold
PROPERTY StopEnds
