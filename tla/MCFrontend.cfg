SPECIFICATION Spec
CHECK_DEADLOCK FALSE
CONSTANT Texts <- AllTexts
INVARIANT TypeOK
INVARIANT MaximalMunch
INVARIANT NothingLost
PROPERTY ScanAdvances
INVARIANT RoundTrip
INVARIANT ScopesMatched
INVARIANT OnlyDiagnostics
INVARIANT NearestType
INVARIANT MethodsFiled
INVARIANT MethodsDistinct
PROPERTY LayoutByInheritance
INVARIANT RefusedForCycles
INVARIANT LoopControl
PROPERTY EveryScanEnds
INVARIANT UsesHaveFinalType
INVARIANT ChosenOverload
INVARIANT Exhaustive
INVARIANT OverridesMarked
INVARIANT ObserversInMethods
INVARIANT WidthKept
INVARIANT ValuesKept
