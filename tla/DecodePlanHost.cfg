SPECIFICATION Spec
CONSTANTS
  BatchSize = 2
  MaxLength = 3
  MaxGridSize = 4
  Setups <- HostIndptr
  MaxPlans = 2
  MaxRuns = 2
  None = None
INVARIANTS
  OutputCorrect
