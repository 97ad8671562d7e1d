SPECIFICATION Spec
CONSTANTS
  Builds <- MCBuilds
  Documents <- MCDocuments
  Edits = {"knot", "scheme", "lambda", "turn", "terms", "pay", "accrual", "resetFx", "fixing", "drop", "constrain", "interior", "penalty"}
  Quotes <- MCQuotes
  Dates = {2, 3}
INVARIANTS RebindPricesTheBundle StampIsTwin OwnDocumentIsTaken
CHECK_DEADLOCK FALSE
