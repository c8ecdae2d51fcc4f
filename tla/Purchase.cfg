SPECIFICATION Spec
CONSTANTS
  r1 = r1
  r2 = r2
  a1 = a1
  a2 = a2
  k1 = k1
  Requests = {r1, r2}
  UserOf <- OneUser
  KeyOf <- OwnKey
  UserLimitQty = 1
  Attempts = {a1, a2}
  Consumers = {k1}
  ReservedStockTotal = 2
  MaxTries = 2
  Faults = {}
CHECK_DEADLOCK FALSE
SYMMETRY Symmetry
INVARIANTS
  CacheCoversOrders
  LimitRespected
PROPERTIES
  KeepsSale
