\* Advance with an answer that comes after the budget ran out.
SPECIFICATION Spec
CONSTANTS
  Starts <- MCStarts
  IdSpace = 3
  Lateness = {TRUE}
  MayClose = FALSE
PROPERTY AdvanceReturns
