SPECIFICATION SeedersSpec
CONSTANTS
  Run = {1, 2}
  MaxCopies = 2
  Filters = {
    {"dividend"},
    {"dividend", "share_transaction"},
    {"share_class", "shareholder", "share_transaction"},
    {"dividend", "share_class", "shareholder", "share_transaction"}}
INVARIANTS
  SeedsAreAppliedOnce
PROPERTIES
  SeedingCompletes
CHECK_DEADLOCK FALSE
