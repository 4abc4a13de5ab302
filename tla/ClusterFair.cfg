CONSTANTS
    Worker = {w1, w2}
    NumThreads = 1
    Outcomes = {"solved", "unsolved"}
    Scripts <- OnlyWorkersFirst
SPECIFICATION FairSpec
PROPERTIES
    SearchEnds
CHECK_DEADLOCK FALSE
