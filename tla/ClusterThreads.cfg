CONSTANTS
    Worker = {w1}
    NumThreads = 2
    Outcomes = {"solved", "unsolved", "failed"}
    Scripts <- OnlyOneWorker
SPECIFICATION Spec
INVARIANTS
    TypeOK
    NothingLost
    NeverStarved
    LeavesClean
PROPERTIES
    ImplementsScheduler
CHECK_DEADLOCK FALSE
