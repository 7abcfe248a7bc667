CONSTANTS
    TlbSize = 2
    NumPages = 5
    NumFrames = 3
    PageSize = 5
    a = a
    b = b
    Char = {a}
    Blank = "blank"
    Addresses = {0, 5, 10, 15, 20}
    MaxAccesses = 6
SPECIFICATION Spec
INVARIANT FramesNotShared
