CONSTANTS
    w1 = w1
    w2 = w2
    Worker = {w1, w2}
    NoWorker = none
    FieldCount = 2
    Chunks = 1
    Kinds <- IntakeKinds
    StartReady = FALSE
    MaxRequests = 5
    MaxFaults = 0
SPECIFICATION Spec
SYMMETRY Workers
PROPERTIES
    FollowsStateDiagram
CHECK_DEADLOCK FALSE
