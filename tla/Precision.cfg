SPECIFICATION PrecisionSpec
CONSTANTS
  Holder = {1, 2}
  Base = 4
  MaxColumn = 5
  Quantities = {0, 1, 2, 18}
  Prices = {0, 4, 21, 23}
  Rates = {2, 21, 23}
  Pars = {0, 4}
  MaxVerbs = 5
INVARIANTS
  RoundingNeverOverdraws
  RowsFollowTheCash
  PayableResidualIsSmall
  OrphansOnlyComeIn
  CapitalFollowsTheShares
  NothingIsUnbalanced
PROPERTIES
  PremiumIsKept
CHECK_DEADLOCK FALSE
