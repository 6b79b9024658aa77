CONSTANTS
    r1 = r1
    r2 = r2
    r3 = r3
    None = None
    Readers = {r1, r2, r3}
    Dynamic = {r1}
    Slots = 2
    ArenaCap = 2
    HeapBlocks = 2
SPECIFICATION Spec
INVARIANTS
    SlotsInv
PROPERTIES
    PooledCursorsKept
    PooledReadsOwn
CHECK_DEADLOCK FALSE
