CONSTANTS
    NrThreads = 3
    NrSizes = 2
SPECIFICATION Spec
CHECK_DEADLOCK FALSE
INVARIANTS
    TypeOK
    PhasesApart
    ReadsUseKey
    ReadReport
    StuckOnlyAfterLoss
