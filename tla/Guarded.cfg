SPECIFICATION GuardedSpec
CONSTANTS
  k1 = k1
  k2 = k2
  k3 = k3
  k4 = k4
  ord = ord
  pref = pref
  ann = ann
  bob = bob
  Call = {k1, k2}
  ShareClass = {ord}
  Shareholder = {ann, bob}
  Requests <- GuardedRequests
  ParValues = {1}
  Surfaces = {"guarded", "readonly", "all"}
  MaxCrud = 3
INVARIANTS
  RegisterIsGuarded
  ReferencesResolve
CHECK_DEADLOCK FALSE
