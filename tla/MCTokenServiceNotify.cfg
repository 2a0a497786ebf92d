\* Lines without an id.
SPECIFICATION Spec
CONSTANTS
  MaxSessions = 1
  BudgetsExpire = TRUE
INVARIANT NotificationsUnanswered
