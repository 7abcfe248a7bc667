CONSTANTS
    TlbSize = 2
    NumPages = 5
    NumFrames = 3
    PageSize = 2
    a = a
    b = b
    Char = {a, b}
    Blank = "blank"
    Addresses = {1, 2, 5, 6, 9}
    MaxAccesses = 6
SPECIFICATION Spec
SYMMETRY Symmetry
INVARIANTS
    TypeOK
    TlbPagesDistinct
    CountersAreAges
    UsedFramesAreMapped
    TlbWithinPt
PROPERTIES
    SavesModifiedPages
