SPECIFICATION ReduceFairSpec
CONSTANTS
  N = 4
  Sizes <- TwoSizes
  OneStageBelow = 3
  Threads = 1
  BlockLimit = 2
  MaxCalls = 2
INVARIANTS
  ReduceInv
  ResultCorrect
PROPERTIES
  BuffersReadByAll
  AllCallsEnd
