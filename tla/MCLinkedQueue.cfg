CONSTANTS
    p1 = p1
    p2 = p2
    p3 = p3
    Process = {p1, p2, p3}
    Node = {n1, n2, n3, n4}
    NULL = NULL
    Nil = Nil
    Key <- MCKey
SPECIFICATION Spec
INVARIANTS
    TypeOK
    WellLinked
    PopsShortestFirst
PROPERTY ImplementsList
