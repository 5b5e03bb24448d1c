\* A while on a ternary, a range whose end changes: is what a loop tests
\* evaluated as often as it should be?
SPECIFICATION Spec
CONSTANTS
  Verified <- Accepted
  CodeOf <- LowerMethod
  FactsOf <- Dataflow
  Fields <- MCFields
  Params <- MCParams
  Locals <- MCLocals
  Owning <- MCOwning
  Classes <- LoopConditions
  MaxPicks = 5
  MaxCalls = 3
INVARIANTS
  EvaluatedAsOften
\* calls stop at MaxCalls, loops at MaxPicks
CHECK_DEADLOCK FALSE
