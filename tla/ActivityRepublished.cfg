SPECIFICATION Spec
CONSTANTS
  i1 = i1
  i2 = i2
  a1 = a1
  a2 = a2
  Items = {i1, i2}
  Admins = {a1}
  MaxQuantity = 1
  MaxPublications = 2
  MaxSales = 1
  HazardSets = {{"republish"}}
SYMMETRY ActivitySymmetry
INVARIANTS
  PublishReserves
CHECK_DEADLOCK FALSE
