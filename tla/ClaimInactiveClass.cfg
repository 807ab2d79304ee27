SPECIFICATION FairRegisterSpec
CONSTANTS
  k1 = k1
  k2 = k2
  k3 = k3
  k4 = k4
  ord = ord
  pref = pref
  ann = ann
  bob = bob
  Call = {k1, k2}
  ShareClass = {ord}
  Shareholder = {ann, bob}
  Requests <- MoveRequests
  ParValues = {1}
PROPERTIES
  InactiveClassTakesNoMovement
