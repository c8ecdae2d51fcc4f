SPECIFICATION Spec
CONSTANTS
  i1 = i1
  i2 = i2
  a1 = a1
  a2 = a2
  Items = {i1, i2}
  Admins = {a1, a2}
  MaxQuantity = 1
  MaxPublications = 2
  MaxSales = 1
  HazardSets = {{}, {"republish"}, {"sale_overlap"}, {"disabled_item"}, {"async"}, {"edit_overlap"}, {"rpc_error", "crash"}, {"status_error"}}
SYMMETRY ActivitySymmetry
INVARIANTS
  TypeOK
  ProductBalance
  NoPieceFromNowhere
  OnSaleIsBacked
  FailedPublishReturnsStock
CHECK_DEADLOCK FALSE
