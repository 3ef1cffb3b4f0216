SPECIFICATION FairSpec
CONSTANTS
    Page = 2
    Wide = 64
    BufferSize = 4
    LongestArchive = 5
    TableSize = 3
    MaxArchives = 2
    MaxErrors = 1
    Sizes <- MCSizes
PROPERTY TitleIsJudged
CHECK_DEADLOCK FALSE
