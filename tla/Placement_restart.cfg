SPECIFICATION FairSpec
CONSTANTS
  r1 = r1
  r2 = r2
  n1 = n1
  AgentCount = 2
  Request <- Requests
  Name <- OneName
  Requested = 2
  ChildMemory = 2
  Reserve = 1
  LimitFiles <- FilesUsed
  MaxDeaths = 1
  Faults <- AllFaults
INVARIANTS TypeOK OneOwner ChildBudgetFits NamesAreOwn DeleteMeansGone
PROPERTIES  AgentBecomesReady
