SPECIFICATION FairSpec
CONSTANTS
    BufferSize = 2
    Wide = 64
    MaxStarts = 3
    MaxFaults = 2
    Parts <- MCParts
    Files <- MCFiles
    Size <- MCSize
    Overlaps <- MCOverlaps
INVARIANTS TypeOK CopiedInOrder LossHasCause
PROPERTIES CompleteStays ExtractionEnds
CHECK_DEADLOCK FALSE
