CONSTANTS
    Process = {p1, p2, p3}
    InitialQuantum = 5
    Modulus = 256
    IntLimit = 32
    MicroMax = 2
    MaxBurst = 4
SPECIFICATION Spec
INVARIANTS
    TypeOK
    EmptyAverageIsInitial
    QuantumIsPositive
PROPERTY
    AverageNeverAboveMean
