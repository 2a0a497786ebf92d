\* Hosts that keep to the budgets of the lifecycle and hosts that do not; the
\* driver may abandon the session.
SPECIFICATION Spec
CONSTANTS
  Starts <- MCStarts
  IdSpace = 3
  Lateness = {FALSE, TRUE}
  MayClose = TRUE
INVARIANTS
  TypeOK
  ReplyAnswersItsCall
  SignIsAttended
  PendingOrOutcome
  EmittedCallBlocks
PROPERTIES
  LifecycleEnds
  CloseUnwindsUnlessSigning
  AdvanceReturnsInTime
  ImplementsParkedSession
