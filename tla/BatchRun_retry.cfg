SPECIFICATION FairSpec
CONSTANTS
  s1 = s1
  s2 = s2
  Submission <- OneSubmission
  ChildCount = 2
  MaxInFlight = 1
  AttemptBudget = 2
  Slots = 1
  Faults <- CallFaults
  MaxCrashes = 0
PROPERTIES RunEnds SlotsComeBack
