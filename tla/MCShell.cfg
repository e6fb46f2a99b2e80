SPECIFICATION MCSpec
CONSTANTS
  None = None
  All = All
  Tabs = {t1, t2}
  Users = {ann, bob}
  Masters = {ann}
  Companies = {c1}
  Notes = {n1, n2}
  Vehicles = {v1, v2}
  Calls = {q1, q2}
  MaxAt = 1
  Employees = {e1}
  Requests = {r1, r2}
  Threshold = 2
  EventIds = {1, 2}
INVARIANTS
  TypesOK
  LinksAdmit
  CopiesAreTrue
  EpisodesSound
PROPERTIES
  SessionsAreTrue
  IdleLocks
  BadgeSettles
  MapHeals
  EpisodesSettle
CHECK_DEADLOCK FALSE
