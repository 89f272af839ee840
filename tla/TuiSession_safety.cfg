SPECIFICATION TuiSpec
CONSTANTS
    Callers = {c1, c2}
    Sessions = {s1, s2}
    None = none
    SlowLoop = TRUE
    ScanResults <- MCScanResults
    ScanPorts <- MCScanPorts
    FallbackPorts <- MCScanPorts
    MaxKeys = 1
    MaxErrors = 1
CHECK_DEADLOCK FALSE
INVARIANTS
    ScanIsRunning
    ReadingTicks
    PlanSound
    ConnectingRuns
    SessionWatched
    SessionExact
SYMMETRY Symmetry
