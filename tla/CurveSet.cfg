SPECIFICATION Spec
CONSTANTS
    CurveSets <- MCCurveSets
    Knots <- MCKnots
    DefaultKnot = 1
INVARIANTS DiscountsAreExact JacobianIsTheSlope DirectionIsCurrent
