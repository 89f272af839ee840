SPECIFICATION FairSpec
CONSTANTS
    Callers = {c1, c2, c3}
    Runs = {r1}
    Links = {k1, k2, k3}
    None = none
INVARIANTS OwedRunIsOn ClosedOnce OffIsCancelled
PROPERTY GoroutinesEnd
CHECK_DEADLOCK FALSE
