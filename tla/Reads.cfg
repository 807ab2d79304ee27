SPECIFICATION ReadsSpec
CONSTANTS
  k1 = k1
  k2 = k2
  k3 = k3
  k4 = k4
  k5 = k5
  r1 = r1
  ord = ord
  pref = pref
  ann = ann
  bob = bob
  cat = cat
  Call = {k1, k2, k3, k4}
  ShareClass = {ord}
  Shareholder = {ann, bob, cat}
  Requests <- MovingRequests
  ParValues = {1}
  Reader = {r1}
  Reads <- AnyRead
  DecimalOne = 10
INVARIANTS
  AllocationsAddUp
  PercentagesAddUp
