CONSTANTS
    f = f
    g = g
    h = h
    NoCallback = NoCallback
    Callbacks = {f, g, h}
    Enduring = {f}
    Hanging = {g}
    MaxSessions = 3
    MaxBackoff = 3
SPECIFICATION FairLoopSpec
INVARIANT
    ReconnectInv
PROPERTIES
    EveryoneTold
    Recovers
    CloseEnds
CHECK_DEADLOCK FALSE
