CONSTANTS
    Disks <- MCDisks
    CodeStart = 4
    MaxChanges = 2
    NsoPage = 2
SPECIFICATION Spec
INVARIANTS ProcessFitsTitle
CHECK_DEADLOCK FALSE
