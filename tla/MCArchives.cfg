CONSTANTS
    Page = 3
    Wide = 64
    CtrBlock = 2
    MaxDirectories = 3
    MaxFiles = 2
    EntryName = {"a", "b"}
    Nothing = Nothing
    Narrow = 8
    Media = 2
    Rights = {"r1", "r2"}
    Free = Free
    Before = 3
    ArchiveSize = 14
    Packages <- MCPackages
SPECIFICATION ArchivesSpec
INVARIANTS ContentsOK FitTitleOpens TreeIsWhole
CHECK_DEADLOCK FALSE
