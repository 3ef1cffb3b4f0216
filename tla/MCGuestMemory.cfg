SPECIFICATION Spec
CONSTANTS
    PageSize = 2
    Modulus = 1000
    GuestSize = 200
    BackSize = 120
    SelfTest <- MCSelfTest
    Stack <- MCStack
    Tls <- MCTls
    CodeAddr = 10
    Shapes <- MCShapes
    Modules = 4
    StackSizes = {1, 4, 8}
    ResourceSizes = {0, 5}
    MapLimits = {1, 5}
INVARIANTS
    TableOK
    TrackerConserves
    GivenPagesKept
    SectionsMapped
    LoadSucceeds
CHECK_DEADLOCK FALSE
