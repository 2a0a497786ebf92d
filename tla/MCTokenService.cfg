\* Two sessions of each tool, answered in any order and any form.
SPECIFICATION Spec
CONSTANTS
  MaxSessions = 2
  BudgetsExpire = TRUE
INVARIANTS
  TypeOK
  RegistryExact
  SafeReportIsTrue
PROPERTY
  EndedStaysEnded
