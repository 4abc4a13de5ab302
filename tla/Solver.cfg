CONSTANTS
    Files <- CleanFiles
    CntMax = 3
    SumMax = 9
    SettingsFor <- Both
    FlipBound = 5
SPECIFICATION Spec
INVARIANTS
    TypeOK
    SegmentsExact
    ListMatchesIndex
    LocationCountsSatisfied
    NumBreaksExact
    NumBreaksInRange
    AdditionalChecks
    Inv
PROPERTIES
    ImplementsWalk
CHECK_DEADLOCK FALSE
