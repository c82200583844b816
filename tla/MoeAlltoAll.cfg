SPECIFICATION FairSpec
CONSTANTS
  EpSize = 2
  Programs <- Regular
  MaxTokens = 2
  FlagCount = 3
  None = None
INVARIANTS
  IInv
  ResultCorrect
PROPERTIES
  AllOpsEnd
CHECK_DEADLOCK FALSE
