CONSTANTS
  LastMinute = 1080
  Salaries = {0, 1, 1000000, 1000033, 2599999}
  HourlyRates = {5000, 6137}
  LastDay = 31
  Names = {"DA", "HRA", "PF"}
  Values = {500, 1250}
  Size = 3
  Basic = 100033
  DaysWorked = 25
  Moments = 2
  Period = 2
  LastInstant = 15
  MaxLicences = 2
  None = None

SPECIFICATION Spec
CHECK_DEADLOCK FALSE
INVARIANT RunsPayLikePayslips
