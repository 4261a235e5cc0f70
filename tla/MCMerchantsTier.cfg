SPECIFICATION LineSpec
CONSTANTS
  StoreCalls = {c1, c2}
  StoreEmails = {e1, e2}
  Vpas = {v1, v2}
  Aadhaars = {a1, a2}
  GrowthLimit = 2
  MaxStores = 2
  MaxVisits = 4
  MaxStoreFaults = 0
SYMMETRY MerchantSymmetry
INVARIANT RefusedWhenFull
CHECK_DEADLOCK FALSE
