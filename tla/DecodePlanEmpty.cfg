SPECIFICATION Spec
CONSTANTS
  BatchSize = 3
  MaxLength = 4
  MaxGridSize = 5
  Setups <- EmptyUnderGraph
  MaxPlans = 2
  MaxRuns = 2
  None = None
INVARIANTS
  ScheduleFits
