SPECIFICATION FairSpec
CONSTANTS
  p1 = p1
  p2 = p2
  p3 = p3
  p4 = p4
  g1 = g1
  g2 = g2
  g3 = g3
  g4 = g4
  g5 = g5
  None = None
  Op <- FourOps
  Gate <- FiveGates
INVARIANTS MutualExclusion
PROPERTIES WaiterProceeds
