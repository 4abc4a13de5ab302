CONSTANTS
    Worker = {w1}
    FileSizes = {0, 2}
    Requests = {1, 2}
    MaxFiles = 2
    MaxPending = 2
SPECIFICATION HistorySpec
CONSTRAINT Bounded
INVARIANTS
    TypeOK
    Accounting
    QueueExact
    Startable
PROPERTIES
    GivenOutOnce
    LeavesForGood
    CompleteStatistics
    NothingAfterSolution
CHECK_DEADLOCK FALSE
