SPECIFICATION Spec
CONSTANTS
    BufferSize = 2
    Wide = 64
    MaxStarts = 1
    MaxFaults = 0
    Parts <- MCParts
    Files <- MCFiles
    Size <- MCSize
    Overlaps <- MCOverlaps
INVARIANT ContentExtracted
CHECK_DEADLOCK FALSE
