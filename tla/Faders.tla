-------------------------------- MODULE Faders --------------------------------
(***************************************************************************)
(* What the tokens of MixerChannel promise to those who set faders: each   *)
(* fader is in the hands of whoever set it last; who owes a fader back     *)
(* gives it back, at 1.0 or above, if it still is in his hands, and        *)
(* changes nothing if somebody else has taken it since.  SmartInject       *)
(* implements this specification.                                          *)
(***************************************************************************)
EXTENDS Integers

CONSTANTS Channels,  \* mixer channels
          Users,     \* who sets faders
          NoOne,     \* the holder of a free fader
          Full,      \* the level of 1.0
          MaxLevel   \* the level of 2.0

VARIABLES up,      \* there is a mixer
          level,   \* the level each fader is set to
          holder,  \* whose hands it is in
          due      \* the pairs of a user and a fader he has still to give back

vars == <<up, level, holder, due>>

Init ==
    /\ up = FALSE
    /\ level = [ch \in Channels |-> Full]
    /\ holder = [ch \in Channels |-> NoOne]
    /\ due = {}

\* A new mixer has new faders, but who owed one does not know.
NewMixer ==
    /\ up' = TRUE
    /\ level' = [ch \in Channels |-> Full]
    /\ holder' = [ch \in Channels |-> NoOne]
    /\ UNCHANGED due

\* Whoever wants a fader takes it, whoever had it, and may owe it back.
Take(u, ch) ==
    /\ up
    /\ \E v \in 0 .. MaxLevel : level' = [level EXCEPT ![ch] = v]
    /\ holder' = [holder EXCEPT ![ch] = u]
    /\ due' \in {due, due \union {<<u, ch>>}}
    /\ UNCHANGED up

\* Without a mixer there is nothing to take.
TakeNothing(u, ch) ==
    /\ ~up
    /\ due' = due \union {<<u, ch>>}
    /\ UNCHANGED <<up, level, holder>>

GiveBack(u, ch) ==
    /\ <<u, ch>> \in due /\ holder[ch] = u
    /\ due' = due \ {<<u, ch>>}
    /\ \E v \in Full .. MaxLevel : level' = [level EXCEPT ![ch] = v]
    /\ holder' = [holder EXCEPT ![ch] = NoOne]
    /\ UNCHANGED up

\* The fader was taken by another since, or belongs to another mixer.
GiveBackNothing(u, ch) ==
    /\ <<u, ch>> \in due /\ holder[ch] # u
    /\ due' = due \ {<<u, ch>>}
    /\ UNCHANGED <<up, level, holder>>

Next ==
    \/ NewMixer
    \/ \E u \in Users, ch \in Channels :
          Take(u, ch) \/ TakeNothing(u, ch) \/ GiveBack(u, ch) \/ GiveBackNothing(u, ch)

Spec == Init /\ [][Next]_vars
=============================================================================
