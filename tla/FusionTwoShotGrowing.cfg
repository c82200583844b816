SPECIFICATION Spec
CONSTANTS
  NRanks = 2
  Programs <- Growing
  MaxTokens = 4
  SmCount = 2
  FlagCount = 2
INVARIANTS
  NoEarlyPass
