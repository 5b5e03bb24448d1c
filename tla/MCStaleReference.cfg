\* An onDestroy that spawns: does every handle to a removed entity become
\* invalid, as the documentation of destroy says?
CONSTANTS
  MaxEntities = 3
  GenMod = 5
  OnDestroySpawns = TRUE
  UninitHandles = FALSE
SPECIFICATION Spec
INVARIANTS
  RemovedHandlesInvalid
