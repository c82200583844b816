SPECIFICATION FairSpec
CONSTANTS
  NumCtas = 3
  ChunkSize = 2
  Radix = 2
  NumRounds = 2
  Programs <- SummedRow
  None = None
INVARIANTS
  ResultCorrect
CHECK_DEADLOCK FALSE
