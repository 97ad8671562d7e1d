SPECIFICATION Spec
CONSTANTS
    Unit = 2
    Problems <- MCProblems
    Knots <- MCKnots
    Base <- MCBase
    Linear <- MCLinear
    kPooledMaxW = 3
    Points <- MCPoints
    Bands <- MCBands
    Targets = {0, 1}
    LiveTargets = {1}
INVARIANTS AnsweredByLiveBands DeadRowsServed
