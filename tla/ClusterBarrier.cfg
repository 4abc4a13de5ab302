CONSTANTS
    Worker = {w1, w2}
    NumThreads = 1
    Outcomes = {"unsolved"}
    Scripts <- OnlyFilesFirst
SPECIFICATION Spec
INVARIANTS
    SpawnedIsAccepted
CHECK_DEADLOCK FALSE
