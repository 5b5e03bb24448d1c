SPECIFICATION MCSpec
CONSTANTS
  Blocks = {"b1", "b2", "b3", "b4", "b5"}
  Null = "null"
  MaxLen = 2
  Scenarios <- Accepted
INVARIANTS TypesOK NoCorruption SingleOwner OnlyTemporariesLeak
PROPERTY AreValues
CHECK_DEADLOCK FALSE
