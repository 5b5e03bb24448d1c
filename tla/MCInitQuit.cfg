\* A Main.init that destroys an entity and quits: does the destroyed entity's
\* onDestroy run, as the documentation of onDestroy says?
CONSTANTS
  MaxEntities = 2
  GenMod = 4
  OnDestroySpawns = FALSE
  UninitHandles = FALSE
SPECIFICATION Spec
INVARIANTS
  OnDestroyAlwaysRuns
