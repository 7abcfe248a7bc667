SPECIFICATION Spec
CONSTANTS
    UpperOf <- Case
    Word = 4096
    LinkMask = 64
    FatEntrySize = 1
    DirEntrySize = 1
    ExtLength = 3
    LevelRange = 4
    Requests <- TwoClusterRequests
    SectorsPerCluster = 2
    UnitsPerSector = 1
    PathLength = 0
INVARIANTS
    ReadsTheContent
