SPECIFICATION Spec
CONSTANTS
  Procs = {p1, p2}
  Kernels = {k1, k2}
  Versions = {v1, v2}
  FaultSets <- ReadOnlyDirectory
  None = None
  Error = Error
INVARIANTS
  PersistenceFailureIsGraceful
