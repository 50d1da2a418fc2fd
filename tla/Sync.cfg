SPECIFICATION MCSpec
CONSTANTS
    A = A
    B = B
    C = C
    O1 = O1
    O2 = O2
    None = None
    Nodes = {A, B, C}
    Setups <- Networks
    MaxBlocks = 4
INVARIANTS
    SyncSound
    SimulationSound
PROPERTIES
    CatchUp
CHECK_DEADLOCK FALSE
