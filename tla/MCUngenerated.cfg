\* Accepted classes that leave a block open, or return nothing from a method
\* with a result: are they generated?
SPECIFICATION Spec
CONSTANTS
  Verified <- Accepted
  CodeOf <- LowerMethod
  FactsOf <- Dataflow
  Fields <- MCFields
  Params <- MCParams
  Locals <- MCLocals
  Owning <- MCOwning
  Classes <- Ungenerated
  MaxPicks = 5
  MaxCalls = 3
INVARIANTS
  AcceptedIsGenerated
\* calls stop at MaxCalls, loops at MaxPicks
CHECK_DEADLOCK FALSE
