------------------------- MODULE MCPreparedCapture -------------------------
(* Instances of PreparedCapture for TLC.                                    *)
EXTENDS PreparedCapture

ThreeChildren == 3
AllCaptureFaults == {"start", "die", "heir", "read", "signal"}
=============================================================================
