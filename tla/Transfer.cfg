CONSTANTS
    Worker = {w1, w2}
    NumThreads = 2
    DefaultMax = 1024
    AbsoluteMax = 65536
    Names = {1000, 1010, 65500}
    MaxFiles = 2
SPECIFICATION Spec
SYMMETRY Symmetry
INVARIANTS
    TypeOK
    NothingTruncated
    BeliefsComeTrue
    OnlyTerminateProbed
CHECK_DEADLOCK FALSE
