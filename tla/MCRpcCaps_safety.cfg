CONSTANTS
    b1 = b1
    b2 = b2
    q1 = q1
    q2 = q2
    q3 = q3
    p1 = p1
    Bootstraps = {b1}
    Calls = {q1, q2}
    HostCalls = {p1}
    None = None
    Faults = {"abort", "unread", "oversize", "close"}
SPECIFICATION Spec
SYMMETRY Symmetry
INVARIANTS
    CapsInv
    RefcountsAccounted
    CallsFindTheirTarget
CHECK_DEADLOCK FALSE
