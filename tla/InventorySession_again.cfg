SPECIFICATION FairSpec
CONSTANTS
    Callers = {c1}
    Runs = {r1, r2}
    Links = {k1, k2}
    None = none
PROPERTY StopsReturn
CHECK_DEADLOCK FALSE
