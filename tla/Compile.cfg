SPECIFICATION CompileSpec
CONSTANTS
  Specs <- MCSpecs
  Business <- MCBusiness
  Spot = 2
  Absent = Absent
  Bad = Bad
INVARIANTS CurvesAreStacked MeetingsTile RowsReadTheirQuotes
CHECK_DEADLOCK FALSE
