SPECIFICATION RowsSpec
CONSTANTS
  Id = {1}
  Kinds = {"share_class", "shareholder", "dividend", "share_transaction"}
  MaxWrites = 3
INVARIANTS
  RefusalsAreJustified
PROPERTIES
  NoWriteBreaksARule
CHECK_DEADLOCK FALSE
