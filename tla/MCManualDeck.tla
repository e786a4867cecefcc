---------------------------- MODULE MCManualDeck ----------------------------
(***************************************************************************)
(* Instances of ManualDeck for TLC: two files, and as many requests at     *)
(* once as it takes for one to wait behind another and a third to pause.   *)
(***************************************************************************)
EXTENDS ManualDeck

CONSTANTS a, b, c1, c2, c3

TwoFiles   == {a, b}
ThreeCalls == {c1, c2, c3}
=============================================================================
