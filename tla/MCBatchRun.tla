----------------------------- MODULE MCBatchRun -----------------------------
(* Instances of BatchRun for TLC.                                           *)
EXTENDS BatchRun, TLC

CONSTANTS s1, s2

OneSubmission == {s1}
TwoSubmissions == {s1, s2}

NoFaults == {}
StoreFaults == {"read", "commit", "write"}
AgentFaults == StoreFaults \cup {"pressure"}
CallFaults == {"transport"}

\* Submissions of a run are interchangeable.
Symmetry == Permutations(TwoSubmissions)
=============================================================================
