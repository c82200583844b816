SPECIFICATION Spec
CONSTANTS
  EpSize = 2
  Programs <- Growing
  MaxTokens = 2
  FlagCount = 3
  None = None
INVARIANTS
  ResultCorrect
CHECK_DEADLOCK FALSE
