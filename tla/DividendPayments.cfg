SPECIFICATION ServiceSpec
CONSTANTS
  k1 = k1
  k2 = k2
  k3 = k3
  k4 = k4
  k5 = k5
  ord = ord
  pref = pref
  ann = ann
  bob = bob
  Call = {k1, k2, k3, k4, k5}
  ShareClass = {ord}
  Shareholder = {ann}
  Requests <- PaymentRequests
  ParValues = {1}
INVARIANTS
  ServiceTypeOK
  DeclaredIsBooked
  PayableSettles
  NeverRemitsMoreThanDeclared
  DividendEventsMatch
  ClaimIsExclusive
PROPERTIES
  ImplementsDividendLedger
