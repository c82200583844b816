SPECIFICATION FairSpec
CONSTANTS
  NRanks = 2
  Programs <- Shrinking
  MaxTokens = 4
  SmCount = 2
  FlagCount = 2
INVARIANTS
  IInv
  NoEarlyPass
  ResultCorrect
PROPERTIES
  AllCallsEnd
