SPECIFICATION FairSpec
CONSTANTS
    Workers = {w1, w2}
    Callers = {c1}
    Jobs = {j1, j2}
    Builds <- InPlace
    Spurious = FALSE
    Destroys = FALSE
    Nobody = Nobody
PROPERTIES JobsRun
CHECK_DEADLOCK FALSE
