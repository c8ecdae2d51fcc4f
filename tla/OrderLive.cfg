SPECIFICATION FairSpec
CONSTANTS
  n1 = n1
  n2 = n2
  s1 = s1
  c1 = c1
  c2 = c2
  j1 = j1
  j2 = j2
  Orders = {n1}
  SeckillOrders = {}
  LargeOrders = {n1}
  CreateSources = {"normal"}
  Clients = {c1}
  Jobs = {j1}
  AmbiguousCommit = FALSE
  InitialStock = 1
PROPERTIES
  KeepsPromiseInTheEnd
  NobodyWaitsForEver
