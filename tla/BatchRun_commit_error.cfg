SPECIFICATION Spec
CONSTANTS
  s1 = s1
  s2 = s2
  Submission <- OneSubmission
  ChildCount = 1
  MaxInFlight = 1
  AttemptBudget = 1
  Slots = 1
  Faults <- StoreFaults
  MaxCrashes = 0
INVARIANTS EverySuccessIsCommitted
