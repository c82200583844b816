SPECIFICATION TableSpec
CONSTANTS
  Processes = {g1, g2}
  g1 = g1
  g2 = g2
  Allocs = {m}
  m = m
  Offsets = {0, 1}
  Capacity = 3
  MaxOps = 5
  LateRegister = FALSE
INVARIANTS
  TableInv
  CapturedArgsFilled
  SameTable
  EagerArgsRight
