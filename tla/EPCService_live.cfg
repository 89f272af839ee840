SPECIFICATION LiveSpec
CONSTANTS
    EPCs = {e1, e2}
    Rivals = {e2}
    Workers = {w1}
    Callers = {c1}
    Ticker = ticker
    Nobody = nobody
    NoEPC = noepc
    QueueSize = 1
    SubmitRetry = 0
    ScanDefaultActive = FALSE
PROPERTIES MatchedDraftCloses StopDrains
