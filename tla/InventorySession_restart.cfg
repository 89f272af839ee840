SPECIFICATION Spec
CONSTANTS
    Callers = {c1}
    Runs = {r1, r2}
    Links = {k1, k2}
    None = none
SYMMETRY Symmetry
INVARIANT OwedRunIsOn
CHECK_DEADLOCK FALSE
