SPECIFICATION Spec
CONSTANTS
    UpperOf <- Case
    Word = 4096
    LinkMask = 64
    FatEntrySize = 1
    DirEntrySize = 1
    ExtLength = 3
    LevelRange = 4
    Requests <- MCRequests
    SectorsPerCluster = 1
    UnitsPerSector = 2
    PathLength = 6
INVARIANTS
    TypeOK
    SplitsThePath
    CrashesOnRootOnly
PROPERTIES
    ImplementsFileTree
    CallsReturn
