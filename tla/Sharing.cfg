CONSTANTS
    Main = main
    Thread = {t1, t2, t3}
    Files <- SmallFiles
    Instances = 4
SPECIFICATION Spec
INVARIANTS
    TypeOK
    UsesWholeFormula
PROPERTIES
    SharedIsConstant
SYMMETRY Symmetry
