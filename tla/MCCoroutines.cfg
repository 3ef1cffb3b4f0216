SPECIFICATION FairSpec
CONSTANTS
    MaxKey = 4
    MaxYields = 2
    MaxCreated = 4
INVARIANTS
    PoolOK
    MainIsLast
PROPERTIES
    FinishedStaysFinished
    GoReturns
CHECK_DEADLOCK FALSE
