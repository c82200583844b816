SPECIFICATION Spec
CONSTANTS
  Procs = {p1, p2, p3}
  Kernels = {k1, k2}
  Versions = {v1, v2}
  FaultSets <- OneAtATime
  None = None
  Error = Error
SYMMETRY Symmetry
INVARIANTS
  IInv
  OwnVersion
  CompiledOnce
PROPERTIES
  RefinesKernelCache
