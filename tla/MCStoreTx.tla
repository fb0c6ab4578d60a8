----------------------------- MODULE MCStoreTx -----------------------------
(***************************************************************************)
(* Instances of StoreTx for TLC: the rescan goroutine and a tool handler   *)
(* of one process, and a goroutine of a second one.                        *)
(***************************************************************************)
EXTENDS StoreTx, TLC

CONSTANTS p1, p2, rescan, tool, other
ThreeWorkers == {rescan, tool, other}
TwoProcs == {p1, p2}
ProcOfThree == rescan :> p1 @@ tool :> p1 @@ other :> p2
CallsOfThree == rescan :> 2 @@ tool :> 1 @@ other :> 2
=============================================================================
