--------------------------- MODULE MCBroadcaster ---------------------------
(***************************************************************************)
(* Instances of Broadcaster for TLC.  The sizes keep the order of the      *)
(* code's: the history (128) is longer than a listener's channel (100),    *)
(* and /mixer/buffer can make it shorter.                                  *)
(***************************************************************************)
EXTENDS Broadcaster

CONSTANTS c1, c2, f1

TwoClients == {c1, c2}
OneFeeder  == {f1}
Sizes      == {1, 3}
=============================================================================
