\* Programs whose onDestroy does not spawn, with generations wide enough
\* never to wrap: the runtime implements EntityRegistry.
CONSTANTS
  MaxEntities = 3
  GenMod = 5
  OnDestroySpawns = FALSE
  UninitHandles = TRUE
SPECIFICATION FairSpec
PROPERTIES
  RegistrySpec
  DestroyCompletes
