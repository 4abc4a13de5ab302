CONSTANTS
    Files <- TautologyFiles
    CntMax = 9
    SumMax = 99
    SettingsFor <- Tasks
    FlipBound = 5
SPECIFICATION Spec
INVARIANTS
    SolvedIsSatisfied
CHECK_DEADLOCK FALSE
