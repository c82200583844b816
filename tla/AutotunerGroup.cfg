SPECIFICATION FairSpec
CONSTANTS
  a = a
  b = b
  c = c
  d = d
  Groupings <- TwoRanks
  NProfiles = 2
  Tactics <- TwoRunners
  Times = {1, 2}
  MaxFaults = 2
  None = None
  Missing = Missing
INVARIANTS
  Inv
  ReducesMatch
  SameChoice
  SameAfterReload
PROPERTIES
  AllServe
CHECK_DEADLOCK FALSE
