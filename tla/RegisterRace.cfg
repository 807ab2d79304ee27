SPECIFICATION RegisterSpec
CONSTANTS
  k1 = k1
  k2 = k2
  k3 = k3
  k4 = k4
  ord = ord
  pref = pref
  ann = ann
  bob = bob
  Call = {k1, k2, k3, k4}
  ShareClass = {ord}
  Shareholder = {ann, bob}
  Requests <- RaceRequests
  ParValues = {1}
INVARIANTS
  TypeOK
  PositionsAreLocked
  NonNegative
  CheckedBoundHolds
  OutstandingIsHeld
  ReplayNeverNegative
  ReplayIsRegister
  RetiredClassHasNoCapital
PROPERTIES
  ImplementsCapTable
