SPECIFICATION HSpec
CONSTANTS
    EPCs = {e1}
    Workers = {w1, w2}
    Callers = {c1}
    Ticker = ticker
    Nobody = nobody
    NoEPC = noepc
    QueueSize = 1
    SubmitRetry = 1
    ScanDefaultActive = TRUE
SYMMETRY Symmetry
INVARIANTS InflightExact OneSessionPerEPC
PROPERTIES NoSilentLoss OpenDraftKept ImplementsDraftClosing
