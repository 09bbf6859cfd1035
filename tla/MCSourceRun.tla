---------------------------- MODULE MCSourceRun ----------------------------
(* SourceRun on a small cell.                                               *)
EXTENDS SourceRun, TLC

CONSTANTS c1, c2

\* Two agents of different size and host class; the IDs sort against the URLs.
TwoAgents == {1, 2}
RankTwo == (1 :> 2) @@ (2 :> 1)
SlotsTwo == (1 :> 1) @@ (2 :> 2)
HostsTwo == (1 :> "h1") @@ (2 :> "h2")

\* A source run of three children, two at a time, and a bundle run.
Mixed == {c1, c2}
KindMixed == (c1 :> "packed") @@ (c2 :> "bundle")
WantedMixed == (c1 :> "h1") @@ (c2 :> "h2")
ChildrenMixed == (c1 :> 3) @@ (c2 :> 1)
InFlightMixed == (c1 :> 2) @@ (c2 :> 2)

AllFaults == FaultKinds
=============================================================================
