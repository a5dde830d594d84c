SPECIFICATION FairSpec
CONSTANTS
  Slots = {s1, s2}
  Cids = {c1, c2}
  Programs <- MCPrograms
  Grants <- MCGrants
  Blobs = {b1}
  FuelLimit = 2
  MaxLoads = 2
INVARIANTS
  FuelBoundsWork
  StoreOnlyTier1
PROPERTIES
  RowsKept
  EveryCallReturns
