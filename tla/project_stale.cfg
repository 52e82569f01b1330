SPECIFICATION Spec
CONSTANTS
    Worker = {w1, w2}
    Project = {p1}
    Name = {n1}
    File = {f1}
    Item = {i1}
    Match = {m1}
    Session = {s1}
    None = None
    LargeFile = {f1}
    Limit = 1
    StartFiles = {}
    Kinds <- EditKinds
    MaxRequests = 3
    MaxFaults = 0
PROPERTIES
    StaleUpdatesConflict
CHECK_DEADLOCK FALSE
