CONSTANTS
    j1 = j1
    j2 = j2
    j3 = j3
    None = None
    Calls = {j1, j2, j3}
    Unencodable = {j1}
    Undecodable = {j2}
    Faults = {"close", "hangup", "abort", "garbage"}
SPECIFICATION FairWireSpec
INVARIANT
    JsonInv
PROPERTIES
    EveryCallSettles
    ExportsReleased
CHECK_DEADLOCK FALSE
