--------------------------- MODULE MCWebRTCPeers ---------------------------
(***************************************************************************)
(* Instances of WebRTCPeers for TLC: a broadcaster that is closed or       *)
(* overwritten and one that takes its place, with two listeners.           *)
(***************************************************************************)
EXTENDS WebRTCPeers

CONSTANTS b1, b2, p1, p2

TwoBroadcasters == {b1, b2}
TwoPeers        == {p1, p2}
=============================================================================
