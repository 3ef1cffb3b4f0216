SPECIFICATION FairSpec
CONSTANTS
    TotalCoresCount = 3
    DefaultCoreId = 2
INVARIANTS
    TypeOK
    OnlyMappedCoreWorks
    SchedulerBalanced
    AssertionsHold
    PickFindsThread
    
    SessionLeavesNothing
PROPERTIES
    ImplementsLifecycle
    StartLeadsToRun
    JoinEndsOrCoreSleeps
    ShutdownCompletes
CHECK_DEADLOCK FALSE
