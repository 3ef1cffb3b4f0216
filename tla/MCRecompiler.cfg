CONSTANTS
    Threads = {t1, t2}
    Ids = {1, 2}
    Programs <- MCPrograms
    CodeSize = 4
    Regions = {1, 2, 3}
    Strays <- MCStrays
    MaxRuns = 2
    MaxFaults = 1
SPECIFICATION Spec
INVARIANTS CodeOK CursorInBlock
PROPERTIES EmissionFaultHasCause
CHECK_DEADLOCK FALSE
