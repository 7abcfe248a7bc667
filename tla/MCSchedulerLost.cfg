CONSTANTS
    p1 = p1
    p2 = p2
    w1 = w1
    w2 = w2
    Process = {p1}
    Worker = {w1}
    Monitor = Monitor
    NULL = NULL
    Bursts = 1
    Time = 1
    OtherBursts = 1
    OtherTime = 1
    BurstCount <- MCBurstCount
    BurstTime <- MCBurstTime
SPECIFICATION FairSpec
PROPERTY EveryProcessIsExecuted
