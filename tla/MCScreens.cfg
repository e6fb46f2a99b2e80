SPECIFICATION MCSpec
CONSTANTS
  None = None
  Rows = {1, 2}
  Calls = {q1, q2}
  Searches = {"", "x"}
  Found <- MCFound
  Sizes = {1, 2}
  Filters = {f1, f2}
  MaxVersion = 1
  Employees = {e1, e2}
  MaxAsked = 1
  MaxSessions = 2
  MaxChecks = 1
  Supervisors = {u1}
  Workers = {w1}
  Companies = {"a", "b"}
  CompanyOf <- MCCompanyOf
  Sites = {1, 2}
  OwnerOf <- MCOwnerOf
  RowIds = {1, 2, 3}
  MinGap = 1
  MaxTime = 1
  Vehicles = {v1, v2}
  Drivers = {d1, d2}
  Assignments = {1, 2, 3}
  Requests = {r1, r2}
SYMMETRY Symmetric
INVARIANTS
  TypesOK
  
  ButtonsWork
  
  VehiclesMatch
CHECK_DEADLOCK FALSE
