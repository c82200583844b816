SPECIFICATION Spec
CONSTANTS
  BatchSize = 3
  MaxLength = 3
  MaxGridSize = 5
  Setups <- Supported
  MaxPlans = 2
  MaxRuns = 2
  None = None
INVARIANTS
  IInv
  OutputCorrect
  SearchIsLeast
  ScheduleFits
