CONSTANTS
  c1 = c1
  Employees = {e1}
  Companies = {c1}
  CompanyOf <- MCCompanyOf
  Scopes = {c1, None}
  Periods = {1, 2}
  Amounts = {3}
  Months = {2}
  MaxAdvances = 2
  MaxRuns = 3
  Requests = {r1, r2}
  None = None

SPECIFICATION MCSpec
SYMMETRY Symmetry
INVARIANTS
  TypeOK
  ActiveOwes
  
PROPERTIES
  StaysSettled
  
