SPECIFICATION Spec
CONSTANTS
    TotalCoresCount = 2
    DefaultCoreId = 1
INVARIANTS
    RemovedThreadWasRunning
CHECK_DEADLOCK FALSE
