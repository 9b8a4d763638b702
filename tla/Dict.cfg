SPECIFICATION Spec
CONSTANTS
    Keys <- FourKeys
    Values = {v1, v2}
    MaxCalls = 4
    NULL = NULL
SYMMETRY Alike
INVARIANTS TypeOK Ordered TreeShape KeysListed
PROPERTIES ImplementsMap
CHECK_DEADLOCK FALSE
