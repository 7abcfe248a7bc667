CONSTANTS
    p1 = p1
    p2 = p2
    w1 = w1
    w2 = w2
    Process = {p1, p2}
    Worker = {w1, w2}
    Monitor = Monitor
    NULL = NULL
    Bursts = 1
    Time = 3
    OtherBursts = 2
    OtherTime = 2
    BurstCount <- MCBurstCount
    BurstTime <- MCBurstTime
SPECIFICATION FairSpec
PROPERTIES
    WorkerGivesBack
    BoostEnds
    ImplementsProcessLife
