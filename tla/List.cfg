SPECIFICATION Spec
CONSTANTS
    Node = {n1, n2, n3, n4}
    Data = {d1, d2}
    MinLength <- MinusTwo
    NULL = NULL
SYMMETRY Alike
INVARIANTS TypeOK NoLeakNoDangling LengthCounts
PROPERTIES QueueDiscipline ImplementsSequence AtIndex
CHECK_DEADLOCK FALSE
