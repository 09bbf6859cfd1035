---------------------------- MODULE MCJobSubmit ----------------------------
(* JobSubmit on a small instance.                                           *)
EXTENDS JobSubmit

CONSTANTS c1, c2

TwoClients == {c1, c2}

Option(replace, wait, buildkite) == [replace |-> replace, wait |-> wait, buildkite |-> buildkite]

Default == Option(FALSE, TRUE, FALSE)
NoWait == Option(FALSE, FALSE, FALSE)
Replace == Option(TRUE, TRUE, TRUE)

\* The submissions are interchangeable, so every pair but two that do not wait.
Pairs == [c \in TwoClients |-> IF c = c1 THEN {Default, NoWait, Replace} ELSE {Default, Replace}]

AllFaults == FaultKinds
=============================================================================
