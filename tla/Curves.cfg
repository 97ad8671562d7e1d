SPECIFICATION Spec
CONSTANTS
  Specs <- DataSpecs
CHECK_DEADLOCK FALSE
INVARIANTS ClosedFormsAgree PiecesJoin TangentIsTheGradient CellPricesTheCurve SchemesKeepTheirShape
