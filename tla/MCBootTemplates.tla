-------------------------- MODULE MCBootTemplates --------------------------
(* BootTemplates on small instances.                                        *)
EXTENDS BootTemplates

CONSTANTS r1, r2, b1, b2, i1

TwoRequests == {r1, r2}
TwoBinaries == {b1, b2}
OneImage == {i1}

AllFaults == FaultKinds
=============================================================================
