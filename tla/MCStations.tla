----------------------------- MODULE MCStations -----------------------------
(***************************************************************************)
(* Instances of Stations for TLC: a station that is removed and one that   *)
(* takes its place, two loops, so that both can be on one runner.          *)
(***************************************************************************)
EXTENDS Stations

CONSTANTS r1, r2, l1, l2

TwoRunners == {r1, r2}
TwoLoops   == {l1, l2}
=============================================================================
