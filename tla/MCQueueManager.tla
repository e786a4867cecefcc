--------------------------- MODULE MCQueueManager ---------------------------
(***************************************************************************)
(* Instances of QueueManager for TLC.                                      *)
(***************************************************************************)
EXTENDS QueueManager

CONSTANTS a, b, m, h1, h2

TwoFiles    == {a, b}
ThreeFiles  == {a, b, m}
Gone        == {m}
NoneGone    == {}
TwoHandlers == {h1, h2}
OneHandler  == {h1}
Basename    == [f \in Files |-> f]
\* a and b are files of the same name in two directories
SameName    == [f \in Files |-> IF f = b THEN a ELSE f]
ABatches    == {<<a>>, <<a, b>>}
LBatches    == {<<a, m>>, <<b>>}
NoDir       == {<<>>}
SomeDir     == {<<>>, <<b>>}

Setting(l, r, u) == [loop |-> l, random |-> r, unique |-> u]
AllConfigs  == {Setting(TRUE, FALSE, TRUE), Setting(TRUE, TRUE, TRUE), Setting(FALSE, FALSE, FALSE)}

LoopOrNot   == {Setting(TRUE, FALSE, TRUE), Setting(FALSE, FALSE, FALSE)}
=============================================================================
