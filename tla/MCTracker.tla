----------------------------- MODULE MCTracker -----------------------------
(***************************************************************************)
(* Instances of Tracker for TLC: each decay lowers a temperature a level,  *)
(* and .temp.json seeds the file of node 2.                                *)
(***************************************************************************)
EXTENDS Tracker, TLC

DownOneLevel == [t \in Temps |-> IF t = 0 THEN 0 ELSE t - 1]
SeedOfSecond == [n \in Nodes |-> IF n = 2 THEN 1 ELSE NoSeed]
=============================================================================
