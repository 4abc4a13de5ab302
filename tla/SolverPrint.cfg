CONSTANTS
    Files <- CleanFiles
    CntMax = 3
    SumMax = 9
    SettingsFor <- PrintingProbsat
    FlipBound = 5
SPECIFICATION Spec
INVARIANTS
    PrintedIsSolution
CHECK_DEADLOCK FALSE
