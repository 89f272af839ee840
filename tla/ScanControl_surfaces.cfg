SPECIFICATION ControlFairSpec
CONSTANTS
    Callers = {h, i, m}
    Loops = {l1, l2}
    None = none
    Http = {h}
    Ipc = {i}
    Telegram = {}
    Main = {m}
    HasReader = TRUE
    ScanDefaultActive = TRUE
INVARIANTS AtMostOneLoop FieldsExact Stoppable WaitersServed ActiveScanReads
PROPERTIES QuietStop StopReturns
