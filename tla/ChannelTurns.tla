---------------------------- MODULE ChannelTurns ----------------------------
(***************************************************************************)
(* What the mutexes of AudioEngine.instantMu promise to the calls that ask *)
(* to play on a mixer channel, whoever makes them: each channel is given   *)
(* to one of its calls at a time, and every call that asks gets its turn   *)
(* and gives it back.  AudioEngine (PlayInstant) and ManualDeck            *)
(* (PlayChannel, RewindChannel) implement this specification.              *)
(***************************************************************************)
CONSTANTS Calls,    \* calls that may ask
          Channels  \* mixer channels

VARIABLES waiting,  \* the pairs of a call and the channel it asked for
          holding   \* the pairs of a call and the channel it was given

Init == waiting = {} /\ holding = {}

Ask(t, ch) ==
    /\ \A c \in Channels : <<t, c>> \notin waiting \union holding
    /\ waiting' = waiting \union {<<t, ch>>}
    /\ UNCHANGED holding

Take(t, ch) ==
    /\ <<t, ch>> \in waiting
    /\ \A s \in Calls : <<s, ch>> \notin holding
    /\ waiting' = waiting \ {<<t, ch>>}
    /\ holding' = holding \union {<<t, ch>>}

GiveBack(t, ch) ==
    /\ <<t, ch>> \in holding
    /\ holding' = holding \ {<<t, ch>>}
    /\ UNCHANGED waiting

Next == \E t \in Calls, ch \in Channels : Ask(t, ch) \/ Take(t, ch) \/ GiveBack(t, ch)

Spec == Init /\ [][Next]_<<waiting, holding>>

\* Whoever asked has had the channel and has left it.
EveryTurnComes ==
    \A t \in Calls, ch \in Channels :
        <<t, ch>> \in waiting ~> <<t, ch>> \notin waiting \union holding
=============================================================================
