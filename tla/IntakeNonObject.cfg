SPECIFICATION FairSpec
CONSTANTS
    j1 = j1
    j2 = j2
    Worker = {w1, w2}
    Job = {j1, j2}
    Prefetch = 1
    MaxSent = 2
    MaxFaults = 0
CONSTANT Command <- WithNonObject
PROPERTIES
    NonObjectIsDeadLettered
CHECK_DEADLOCK FALSE
