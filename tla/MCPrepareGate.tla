--------------------------- MODULE MCPrepareGate ---------------------------
(* Instances of PrepareGate for TLC.                                        *)
EXTENDS PrepareGate

CONSTANTS p1, p2, p3, p4, g1, g2, g3, g4, g5

FourOps == {p1, p2, p3, p4}
FiveGates == {g1, g2, g3, g4, g5}
=============================================================================
