SPECIFICATION Spec
CONSTANTS
  n1 = n1
  n2 = n2
  s1 = s1
  c1 = c1
  c2 = c2
  j1 = j1
  j2 = j2
  Orders = {n1, n2}
  SeckillOrders = {}
  LargeOrders = {n1}
  CreateSources = {"normal", "seckill"}
  Clients = {c1, c2}
  Jobs = {j1}
  AmbiguousCommit = FALSE
  InitialStock = 1
SYMMETRY ClientSymmetry
INVARIANTS
  LifecycleInv
  ReleaseMatchesClose
  ReleasedAtMostOnce
  LiveOrderHoldsUnit
  FlaggedMeansReturned
  RefundIffPaidAndAbandoned
  ShippedWasPaidAndReviewed
  NoOversell
PROPERTIES
  ClosedIsFinal
  KeepsPromise
