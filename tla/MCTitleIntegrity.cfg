SPECIFICATION FairSpec
CONSTANTS
    Page = 2
    Wide = 64
    BufferSize = 4
    LongestArchive = 5
    TableSize = 3
    MaxArchives = 2
    MaxErrors = 1
    Sizes <- MCSizes
INVARIANTS ChecksumOK VerdictIsRight
PROPERTY CompleteTitleIsJudged
CHECK_DEADLOCK FALSE
