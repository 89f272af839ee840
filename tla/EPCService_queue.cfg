SPECIFICATION Spec
CONSTANTS
    EPCs = {e1, e2}
    Workers = {w1}
    Callers = {c1}
    Ticker = ticker
    Nobody = nobody
    NoEPC = noepc
    QueueSize = 1
    SubmitRetry = 1
    ScanDefaultActive = FALSE
SYMMETRY Symmetry
CONSTRAINT ShortHistory
INVARIANTS TypeOK OneReservationPerEPC
PROPERTY NoSilentLoss
