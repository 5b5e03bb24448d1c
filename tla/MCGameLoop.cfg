\* Every interleaving of four objects over slots whose generation wraps
\* after two occupants (1, 2, 0, ...), with onDestroy methods that spawn.
CONSTANTS
  MaxEntities = 4
  GenMod = 3
  OnDestroySpawns = TRUE
  UninitHandles = TRUE
SPECIFICATION Spec
INVARIANTS
  TypeOK
  SlotDiscipline
  ViewFidelity
  ObserversAlive
  ExitDrained
