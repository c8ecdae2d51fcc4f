SPECIFICATION FairSpec
CONSTANTS
  r1 = r1
  r2 = r2
  a1 = a1
  a2 = a2
  k1 = k1
  Requests = {r1}
  UserOf <- OwnUser
  KeyOf <- OwnKey
  UserLimitQty = 0
  Attempts = {a1, a2}
  Consumers = {k1}
  ReservedStockTotal = 1
  MaxTries = 2
  Faults = {"overlap", "redis_error", "lost_ack", "create_failed", "commit_lost"}
CHECK_DEADLOCK FALSE
INVARIANTS
  CompensatedAtMostOnce
  ClosedBeforeReleased
PROPERTIES
  AcceptedIsSettled
