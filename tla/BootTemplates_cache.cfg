SPECIFICATION FairSpec
CONSTANTS
  r1 = r1
  r2 = r2
  b1 = b1
  b2 = b2
  i1 = i1
  None = None
  Request <- TwoRequests
  Binary <- TwoBinaries
  Image <- OneImage
  Retain = 1
  Faults <- AllFaults
INVARIANTS InUseKept OrphansArePending
PROPERTIES OrphansCollected StaleEvicted
