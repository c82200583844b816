SPECIFICATION SpecUnzeroed
CONSTANTS
  Ranks = {g1, g2}
  g1 = g1
  g2 = g2
  Wrap = 4
  MaxRounds = 1
  Leftover = {0, 1}
PROPERTIES
  AllGetThrough
CHECK_DEADLOCK FALSE
