SPECIFICATION FairSpec
CONSTANTS
  c1 = c1
  c2 = c2
  Coord <- Mixed
  Agent <- TwoAgents
  Rank <- RankTwo
  Slots <- SlotsTwo
  HostClass <- HostsTwo
  Kind <- KindMixed
  Wanted <- WantedMixed
  Children <- ChildrenMixed
  MaxInFlight <- InFlightMixed
  Faults <- AllFaults
INVARIANTS TypeOK PlanFitsSelection NoHiddenLeak NeverOversubscribed
PROPERTY PreparedGoes
