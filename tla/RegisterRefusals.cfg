SPECIFICATION RegisterSpec
CONSTANTS
  k1 = k1
  k2 = k2
  k3 = k3
  k4 = k4
  ord = ord
  pref = pref
  ann = ann
  bob = bob
  Call = {k1, k2, k3}
  ShareClass = {ord, pref}
  Shareholder = {ann, bob}
  Requests <- RefusedRequests
  ParValues <- RefusedParValues
INVARIANTS
  GlPostedIsHonest
  JournalsAreExplained
  UnscopedLeavesNoTrace
