SPECIFICATION Spec
CONSTANTS
  NumBands = 2
  Maps <- DataMaps
  GeneralRows = {2}
  DeadRowsKept = {2}
  Zero = Zero
  PinScale = 10
  DriftRefresh = TRUE
  MaxSteps = 1
  MaxFrozen = 1
  MaxRefresh = 1
  MaxRescales = 3
  MaxWeak = 0
  JacobianMayFail = FALSE
  RestoreMayFail = FALSE
VIEW WalkView
INVARIANTS
  StepUsesTruePiece
  OperatorMatchesRows
  AnchorAtSolution
