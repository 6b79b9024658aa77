CONSTANTS
    a = a
    b = b
    c = c
    s = s
    t = t
    Names = {a, b, c}
    Signatures = {s, t}
    NoSignature = NoSignature
    Inherited = {c}
    DetectRenames = TRUE
SPECIFICATION Spec
INVARIANT
    LockInv
PROPERTIES
    PreservedVerbatim
    RenamesKeepType
CHECK_DEADLOCK FALSE
