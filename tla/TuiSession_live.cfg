SPECIFICATION TuiFairSpec
CONSTANTS
    Callers = {c1, c2}
    Sessions = {s1}
    None = none
    SlowLoop = TRUE
    ScanResults <- MCOneScan
    ScanPorts <- MCScanPorts
    FallbackPorts <- MCScanPorts
    MaxKeys = 1
    MaxErrors = 1
CHECK_DEADLOCK FALSE
PROPERTIES
    ConnectEnds
    ReadingEnds
    SessionForgotten
