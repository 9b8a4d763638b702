SPECIFICATION FairSpec
CONSTANTS
    Keys <- FourKeys
    MaxLength = 6
INVARIANTS TypeOK StaysInside SearchCorrect Logarithmic
PROPERTIES Terminates Narrows
CHECK_DEADLOCK FALSE
