SPECIFICATION Spec
CONSTANTS
  NumBands = 1
  Maps <- HuberMaps
  GeneralRows = {}
  DeadRowsKept = {}
  Zero = Zero
  PinScale = 10
  DriftRefresh = TRUE
  MaxSteps = 4
  MaxFrozen = 2
  MaxRefresh = 2
  MaxRescales = 4
  MaxWeak = 1
  JacobianMayFail = TRUE
  RestoreMayFail = TRUE
VIEW ControlView
INVARIANTS
  CommittedAtFullRank
PROPERTIES
  RePinIsFinal
  TickEnds
