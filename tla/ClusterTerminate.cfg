CONSTANTS
    Worker = {w1}
    NumThreads = 2
    Outcomes = {"unsolved"}
    Scripts <- OnlyExitEarly
SPECIFICATION FairSpec
PROPERTIES
    TerminateEndsServer
CHECK_DEADLOCK FALSE
