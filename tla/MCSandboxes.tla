---------------------------- MODULE MCSandboxes ----------------------------
(* Instances of Sandboxes for TLC.                                          *)
EXTENDS Sandboxes

CONSTANTS q1, q2, q3, q4, n1, n2

FourRequests == {q1, q2, q3, q4}
OneName == {n1}
TwoNames == {n1, n2}

AllFaults == FaultKinds
NoFaults == {}
=============================================================================
