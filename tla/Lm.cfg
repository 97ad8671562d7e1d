SPECIFICATION Spec
CONSTANTS
  Coordinates <- MCCoordinates
  Problems <- MCProblems
  NKnots = 2
  Factor = 2
  MaxFev = 4
  MaxTrials = 3
  MaxPar = 3
  Spread = 4
INVARIANT NeverWorse StatusIsOfTheResult BracketHoldsRoot
PROPERTY SolveEnds
CHECK_DEADLOCK FALSE
