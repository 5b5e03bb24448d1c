SPECIFICATION MCSpec
CONSTANTS
  Blocks = {"b1", "b2", "b3", "b4", "b5", "b6", "b7"}
  Null = "null"
  MaxLen = 2
  Scenarios <- StructsOfEnums
INVARIANT SingleOwner
CHECK_DEADLOCK FALSE
