CONSTANTS
    w1 = w1
    w2 = w2
    Worker = {w1, w2}
    NoWorker = none
    FieldCount = 2
    Chunks = 1
    Kinds <- ParseAndDelete
    StartReady = FALSE
    MaxRequests = 4
    MaxFaults = 0
SPECIFICATION Spec
SYMMETRY Workers
INVARIANTS
    DeletionLeavesNoSnapshot
CHECK_DEADLOCK FALSE
