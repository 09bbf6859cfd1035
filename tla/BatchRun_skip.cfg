SPECIFICATION Spec
CONSTANTS
  s1 = s1
  s2 = s2
  Submission <- TwoSubmissions
  ChildCount = 1
  MaxInFlight = 1
  AttemptBudget = 1
  Slots = 2
  Faults <- NoFaults
  MaxCrashes = 0
INVARIANTS FailedChildFailsRun
