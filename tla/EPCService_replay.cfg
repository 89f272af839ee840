SPECIFICATION Spec
CONSTANTS
    EPCs = {e1}
    Workers = {w1}
    Callers = {c1}
    Ticker = ticker
    Nobody = nobody
    NoEPC = noepc
    QueueSize = 1
    SubmitRetry = 0
    ScanDefaultActive = TRUE
PROPERTY SubmittedEPCReplays
