SPECIFICATION FairSpec
CONSTANTS
  NumCtas = 3
  ChunkSize = 2
  Radix = 2
  NumRounds = 2
  Programs <- Mixed
  None = None
INVARIANTS
  IInv
  ResultCorrect
PROPERTIES
  AllLaunchesEnd
CHECK_DEADLOCK FALSE
