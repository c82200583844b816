SPECIFICATION FairSpec
CONSTANTS
  WorldSize = 2
  Programs <- AllPrograms
  MaxTokens = 2
  CellsPerBuffer = 4
  Resident = 2
INVARIANTS
  IInv
  DirtIsRecorded
  ResultCorrect
PROPERTIES
  StoreFindsSentinel
  AllCallsEnd
