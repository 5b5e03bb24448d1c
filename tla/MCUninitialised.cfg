\* Locals read before they have a value: does the verifier see it?
SPECIFICATION Spec
CONSTANTS
  Verified <- Accepted
  CodeOf <- LowerMethod
  FactsOf <- Dataflow
  Fields <- MCFields
  Params <- MCParams
  Locals <- MCLocals
  Owning <- MCOwning
  Classes <- Unassigned
  MaxPicks = 5
  MaxCalls = 3
INVARIANTS
  ReadsInitialised
\* calls stop at MaxCalls, loops at MaxPicks
CHECK_DEADLOCK FALSE
