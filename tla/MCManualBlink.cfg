SPECIFICATION FairSpec
CONSTANTS
  None = None
  Employees = {e1}
  Calls = {q1}
  MaxAsked = 1
  MaxSessions = 1
  MaxChecks = 1
PROPERTY ManualBlinkSeen
CHECK_DEADLOCK FALSE
