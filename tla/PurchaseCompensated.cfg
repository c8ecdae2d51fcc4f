SPECIFICATION Spec
CONSTANTS
  r1 = r1
  r2 = r2
  a1 = a1
  a2 = a2
  k1 = k1
  Requests = {r1, r2}
  UserOf <- OwnUser
  KeyOf <- OwnKey
  UserLimitQty = 0
  Attempts = {a1}
  Consumers = {k1}
  ReservedStockTotal = 1
  MaxTries = 2
  Faults = {"create_failed"}
CHECK_DEADLOCK FALSE
INVARIANTS
  NoOversell
