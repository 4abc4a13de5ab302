CONSTANTS
    Worker = {w1, w2}
    NumThreads = 1
    Outcomes = {"solved", "unsolved"}
    Scripts <- AllScripts
SPECIFICATION Spec
SYMMETRY Symmetry
INVARIANTS
    NothingLost
    SolutionBeforeStatistics
    TotalsComplete
    LastToLeave
    AbortsUnused
PROPERTIES
    ImplementsScheduler
CHECK_DEADLOCK FALSE
