\* The ordinary programs: control flow, lifetimes and initialisation.
SPECIFICATION Spec
CONSTANTS
  Verified <- Accepted
  CodeOf <- LowerMethod
  FactsOf <- Dataflow
  Fields <- MCFields
  Params <- MCParams
  Locals <- MCLocals
  Owning <- MCOwning
  Classes <- Ordinary
  MaxPicks = 5
  MaxCalls = 3
INVARIANTS
  TypeOK
  FollowsSource
  ReadsInitialised
  OwnedCleanedOnce
  ReturnsValue
  AcceptedIsGenerated
  CodeCertified
\* calls stop at MaxCalls, loops at MaxPicks
CHECK_DEADLOCK FALSE
