SPECIFICATION FairSpec
CONSTANTS
  q1 = q1
  q2 = q2
  q3 = q3
  q4 = q4
  n1 = n1
  n2 = n2
  Request <- FourRequests
  Name <- TwoNames
  Slots = 2
  Faults <- AllFaults
INVARIANTS SlotsAccounted ExecStaysTracked
PROPERTIES ReservationSettles
