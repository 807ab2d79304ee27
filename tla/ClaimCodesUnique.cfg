SPECIFICATION RowsSpec
CONSTANTS
  Id = {1, 2}
  Kinds = {"share_class"}
  MaxWrites = 2
INVARIANTS
  CodesAreUnique
CHECK_DEADLOCK FALSE
