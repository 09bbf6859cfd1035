---------------------------- MODULE MCPlacement ----------------------------
(* Placement on a small instance.                                           *)
EXTENDS Placement

CONSTANTS r1, r2, n1

Requests == {r1, r2}
OneName == {n1}

\* Room for one child or for two; for one, the first file absent, or for none.
FilesUsed == <<{<<4, Unlimited>>, <<Missing, 6>>}, {<<Missing, 4>>, <<2, 9>>}>>

AllFaults == FaultKinds
=============================================================================
