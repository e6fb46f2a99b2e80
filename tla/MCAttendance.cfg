CONSTANTS
  Employees = {e1}
  Requests = {r1, r2}
  MaxDay = 2
  MaxTime = 1
  MaxRecords = 2
  ShiftOf <- MCShiftOf
  None = None

SPECIFICATION MCSpec
SYMMETRY Symmetry
INVARIANTS
  TypeOK
  RecordsSound
  
PROPERTIES
  NeverUndone
  ClockOutOnce
  ImplementsDayLifecycle
