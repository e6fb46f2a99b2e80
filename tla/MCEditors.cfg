SPECIFICATION MCSpec
CONSTANTS
  None = None
  BaseTypes <- MCBaseTypes
  CustomTypes = {"info", "note"}
  MaxIds = 5
  MaxLive = 3
  MaxFields = 3
  ExtraKeys = {hra, tds}
  CustomKey = custom
  Templates = {t1, t2}
  First = {t1, t2}
  Calls = {q1, q2}
  Users = {u1}
  FewCompanies = {c1}
  Companies = {c1, c2, c3}
  Names = {"a", "b"}
  Logins = {l1, l2}
  Accounts = {a1, a2}
  Streams = {s1, s2}
  Minutes = {2, 9}
  Themes = {"light", "dark"}
INVARIANTS
  TypesOK
  BuilderSound
  FormsAreTrue
  
  
PROPERTY
  SteadyDragMovesShown
CHECK_DEADLOCK FALSE
