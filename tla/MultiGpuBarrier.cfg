SPECIFICATION FairSpec
CONSTANTS
  Ranks = {g1, g2}
  g1 = g1
  g2 = g2
  Wrap = 4
  MaxRounds = 9
INVARIANTS
  IInv
  Meeting
  NoLostSignal
PROPERTIES
  RefinesRankBarrier
