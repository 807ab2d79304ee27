SPECIFICATION FairPoolSpec
CONSTANTS
  k1 = k1
  k2 = k2
  k3 = k3
  k4 = k4
  k5 = k5
  ord = ord
  pref = pref
  ann = ann
  bob = bob
  Call = {k1, k2, k3, k4}
  ShareClass = {ord}
  Shareholder = {ann, bob}
  Requests <- PooledRequests
  ParValues = {1}
  Pools <- LeastPools
INVARIANTS
  PoolIsNeverStuck
PROPERTIES
  EveryCallEnds
