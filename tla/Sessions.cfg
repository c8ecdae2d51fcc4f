SPECIFICATION Spec
CONSTANTS
  a1 = a1
  t1 = t1
  t2 = t2
  t3 = t3
  r1 = r1
  r2 = r2
  Admins = {a1}
  SuperAdmins = {}
  Tokens = {t1, t2, t3}
  Requests = {r1, r2}
  MaxLoginFailures = 2
  MaxAttempts = 3
  MaxPasswords = 2
  HazardSets = {{}, {"logins_overlap"}, {"change_overlap"}, {"db_error", "crash"}}
SYMMETRY SessionSymmetry
INVARIANTS
  TypeOK
  OneLiveToken
  PasswordEndsSessions
  FailuresCounted
PROPERTIES
  EndedStaysEnded
CHECK_DEADLOCK FALSE
