--------------------------- MODULE MCSmartInject ---------------------------
(***************************************************************************)
(* Instances of SmartInject for TLC: the announcer's channel 0, one        *)
(* channel of music, and two announcements.                                *)
(***************************************************************************)
EXTENDS SmartInject, TLC

CONSTANTS j1, j2

TwoInjects  == {j1, j2}
TwoChannels == {0, 1}
Duck1       == (0 :> 3) @@ (1 :> 0)
Only1       == 1 :> 0
Asks(file, long, volumes) == [file |-> file, long |-> long, target |-> 0, volumes |-> volumes]

\* The profile handleBreaking has for a request without volumes, and a change of
\* volumes without a file.
Announcements == {Asks(TRUE, TRUE, Duck1), Asks(FALSE, FALSE, Only1)}
\* A map that leaves out the target, and a file of less than a second.
OddRequests   == {Asks(TRUE, TRUE, Only1), Asks(TRUE, FALSE, Duck1)}
SomeLevels    == {-1, 3}
=============================================================================
