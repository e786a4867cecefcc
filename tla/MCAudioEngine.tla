---------------------------- MODULE MCAudioEngine ----------------------------
(***************************************************************************)
(* Instances of AudioEngine for TLC.                                       *)
(***************************************************************************)
EXTENDS AudioEngine

CONSTANTS t1, i1, i2

OneTrack    == {t1}
OneInstant  == {i1}
TwoInstants == {i1, i2}
ChannelOne  == {1}
=============================================================================
