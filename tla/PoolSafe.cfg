SPECIFICATION FairSpec
CONSTANTS
    Workers = {w1, w2}
    Callers = {c1, c2}
    Jobs = {j1, j2, j3}
    Builds <- BothBuilds
    Spurious = TRUE
    Destroys = TRUE
    Nobody = Nobody
INVARIANTS TypeOK JobsConserved WokenHaveWork
PROPERTIES AddReturns DestructorReturns
CHECK_DEADLOCK FALSE
