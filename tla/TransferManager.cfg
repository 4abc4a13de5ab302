CONSTANTS
    Worker = {w1}
    NumThreads = 2
    DefaultMax = 1024
    AbsoluteMax = 65536
    Names = {1000, 1010}
    MaxFiles = 2
SPECIFICATION Spec
INVARIANTS
    ManagerKeepsUp
CHECK_DEADLOCK FALSE
