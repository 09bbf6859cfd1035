SPECIFICATION FairSpec
CONSTANTS
  c1 = c1
  c2 = c2
  None = None
  Client <- TwoClients
  Options <- Pairs
  Faults <- AllFaults
INVARIANTS TypeOK PreparedIsOwn
PROPERTIES ExitZeroIsSuccess OwnRunReported AnnotationAgrees ClientReturns
