CONSTANTS
    c1 = c1
    c2 = c2
    c3 = c3
    q1 = q1
    None = None
    Calls = {c1, c2, c3}
    Questions = {}
    Idiomatic = {c1, c2, c3}
    Sync = {}
SPECIFICATION Spec
INVARIANT
    ResultsInPlace
CHECK_DEADLOCK FALSE
