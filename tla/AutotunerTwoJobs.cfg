SPECIFICATION FairSpec
CONSTANTS
  a = a
  b = b
  c = c
  d = d
  Groupings <- TwoJobs
  NProfiles = 1
  Tactics <- OneRunner
  Times = {1}
  MaxFaults = 0
  None = None
  Missing = Missing
PROPERTIES
  AllServe
CHECK_DEADLOCK FALSE
