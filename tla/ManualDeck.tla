----------------------------- MODULE ManualDeck -----------------------------
(***************************************************************************)
(* One channel of the manual mixing deck: PlayChannel, PauseChannel and    *)
(* RewindChannel of encoder/ffmpeg.go, the standby file and the change of  *)
(* mode of station/manager.go, and the buffer of encoder/mixer.go.         *)
(*                                                                         *)
(* Play and rewind start a goroutine that waits for the channel's mutex of *)
(* instantMu and keeps it until its ffmpeg, the feeder, has ended.  An     *)
(* action ends where ch.mu, ae.mu or the mutex is released or taken.       *)
(*                                                                         *)
(* The handlers test the mode before the call; the test is part of the     *)
(* call here, as a change to auto mode between them leaves the deck alone. *)
(*                                                                         *)
(* The engine runs throughout: another start of it has a new mixer, whose  *)
(* channels know nothing of this one's.  Positions in the track, volumes   *)
(* and labels are left out, and with them the rewind of a paused track,    *)
(* which changes its position only; so are the runner, which feeds         *)
(* channels in auto mode without the mutex, and PlayInstant, which waits   *)
(* for the mutex as a play does (AudioEngine).  One change of mode is      *)
(* under way at a time.                                                    *)
(***************************************************************************)
EXTENDS Integers, FiniteSets

CONSTANTS Files,  \* files a DJ loads
          NoFile, \* ""
          Calls,  \* requests to the deck, with the goroutines they start
          NoCall  \* nobody

ASSUME DeckAssumption == NoFile \notin Files /\ NoCall \notin Calls

VARIABLES
    manual,    \* Station.Mode is "manual"
    resetting, \* SetMixerMode has still to reset the channel
    standby,   \* StandbyFile
    current,   \* CurrentPlayingFile
    paused,    \* IsPaused
    active,    \* the channel has samples that wait to be mixed
    pc,        \* control state of each call
    rewinds,   \* it is a rewind
    file,      \* what its feeder plays
    turn,      \* who holds the channel's mutex
    cmd        \* whose feeder channelCmds has

mode == <<manual, resetting>>
deck == <<standby, current, paused>>
vars == <<manual, resetting, standby, current, paused, active, pc, rewinds, file, turn, cmd>>

Init ==
    /\ manual = FALSE /\ resetting = FALSE
    /\ standby = NoFile /\ current = NoFile /\ paused = FALSE /\ active = FALSE
    /\ pc = [t \in Calls |-> "idle"]
    /\ rewinds = [t \in Calls |-> FALSE]
    /\ file = [t \in Calls |-> NoFile]
    /\ turn = NoCall /\ cmd = NoCall

Goto(t, state) == pc' = [pc EXCEPT ![t] = state]

(***************************************************************************)
(* Requests.                                                               *)
(***************************************************************************)

SetMixerMode(isManual) ==
    /\ ~resetting
    /\ manual' = isManual /\ resetting' = isManual
    /\ UNCHANGED <<deck, active, pc, rewinds, file, turn, cmd>>

ResetManualState ==
    /\ resetting /\ resetting' = FALSE
    /\ standby' = NoFile /\ current' = NoFile /\ paused' = FALSE
    /\ UNCHANGED <<manual, active, pc, rewinds, file, turn, cmd>>

SetMixerStandby(f) ==
    /\ manual
    /\ standby' = f
    /\ UNCHANGED <<mode, current, paused, active, pc, rewinds, file, turn, cmd>>

\* Every call but a pause becomes a goroutine that queues for the mutex.
Queue(t, f, isRewind) ==
    /\ Goto(t, "wait")
    /\ file' = [file EXCEPT ![t] = f]
    /\ rewinds' = [rewinds EXCEPT ![t] = isRewind]

\* A paused track is resumed, or else the standby file starts.
PlayChannel(t) ==
    LET f == IF paused /\ current # NoFile THEN current ELSE standby
    IN  /\ pc[t] = "idle" /\ manual /\ f # NoFile
        /\ current' = f /\ paused' = FALSE
        /\ Queue(t, f, FALSE)
        /\ UNCHANGED <<mode, standby, active, turn, cmd>>

PauseChannel(t) ==
    /\ pc[t] = "idle" /\ manual
    /\ active /\ ~paused
    /\ paused' = TRUE
    /\ Goto(t, "pause")
    /\ UNCHANGED <<mode, standby, current, active, rewinds, file, turn, cmd>>

RewindChannel(t) ==
    /\ pc[t] = "idle" /\ manual
    /\ current # NoFile /\ ~paused
    /\ Queue(t, current, TRUE)
    /\ UNCHANGED <<mode, deck, active, turn, cmd>>

(***************************************************************************)
(* The goroutines.                                                         *)
(***************************************************************************)

\* Mutant: the mutex is not waited for.
TakeTurnAtOnce(t) ==
    /\ pc[t] = "wait"
    /\ turn' = t
    /\ Goto(t, "stop")
    /\ UNCHANGED <<mode, deck, active, rewinds, file, cmd>>

TakeTurn(t) ==
    /\ pc[t] = "wait" /\ turn = NoCall
    /\ turn' = t
    /\ Goto(t, "stop")
    /\ UNCHANGED <<mode, deck, active, rewinds, file, cmd>>

\* The feeder in channelCmds is interrupted, if its process has started.  A pause
\* ends with it, a player goes on.
StopChannel(t) ==
    /\ pc[t] \in {"pause", "stop"}
    /\ pc' = [s \in Calls |-> IF s = cmd /\ pc[s] = "running" THEN "signalled"
                              ELSE IF s # t THEN pc[s]
                              ELSE IF pc[t] = "pause" THEN "idle" ELSE "feed"]
    /\ UNCHANGED <<mode, deck, active, rewinds, file, turn, cmd>>

Register(t) ==
    /\ pc[t] = "feed"
    /\ cmd' = t
    /\ Goto(t, "registered")
    /\ UNCHANGED <<mode, deck, active, rewinds, file, turn>>

Run(t) ==
    /\ pc[t] = "registered"
    /\ Goto(t, "running")
    /\ UNCHANGED <<mode, deck, active, rewinds, file, turn, cmd>>

Writes(t) == pc[t] \in {"running", "signalled"}

Write(t) ==
    /\ Writes(t) /\ ~active
    /\ active' = TRUE
    /\ UNCHANGED <<mode, deck, pc, rewinds, file, turn, cmd>>

\* The mixer takes the last samples.
Drain ==
    /\ active
    /\ active' = FALSE
    /\ UNCHANGED <<mode, deck, pc, rewinds, file, turn, cmd>>

\* The process ends: it was interrupted, could not start, or the track is over.
FeederEnds(t) ==
    /\ Writes(t) \/ pc[t] = "registered"
    /\ Goto(t, "ended")
    /\ UNCHANGED <<mode, deck, active, rewinds, file, turn, cmd>>

Deregister(t) ==
    /\ pc[t] = "ended"
    /\ cmd' = IF cmd = t THEN NoCall ELSE cmd
    /\ Goto(t, "clear")
    /\ UNCHANGED <<mode, deck, active, rewinds, file, turn>>

\* The goroutine's variables are gone.
Forget(t) ==
    /\ file' = [file EXCEPT ![t] = NoFile]
    /\ rewinds' = [rewinds EXCEPT ![t] = FALSE]

\* Mutant: a deck that was loaded anew is left alone.
ClearUnlessLoaded(t) ==
    /\ pc[t] = "clear"
    /\ IF paused \/ standby # file[t] THEN UNCHANGED <<standby, current>>
                                      ELSE standby' = NoFile /\ current' = NoFile
    /\ turn' = NoCall
    /\ Goto(t, "idle") /\ Forget(t)
    /\ UNCHANGED <<mode, paused, active, cmd>>

\* Mutant: the mutex is not released.
ClearNoUnlock(t) ==
    /\ pc[t] = "clear"
    /\ IF paused THEN UNCHANGED <<standby, current>>
                 ELSE standby' = NoFile /\ current' = NoFile
    /\ Goto(t, "idle") /\ Forget(t)
    /\ UNCHANGED <<mode, paused, active, turn, cmd>>

\* Unless the track was paused, the deck is emptied, a file that was loaded since
\* included; the mutex is released.
Clear(t) ==
    /\ pc[t] = "clear"
    /\ IF paused THEN UNCHANGED <<standby, current>>
                 ELSE standby' = NoFile /\ current' = NoFile
    /\ turn' = NoCall
    /\ Goto(t, "idle") /\ Forget(t)
    /\ UNCHANGED <<mode, paused, active, cmd>>

Proceed(t) ==
    \/ StopChannel(t) \/ Register(t) \/ Run(t) \/ FeederEnds(t) \/ Deregister(t) \/ Clear(t)

Next ==
    \/ \E isManual \in BOOLEAN : SetMixerMode(isManual)
    \/ ResetManualState \/ Drain
    \/ \E f \in Files \union {NoFile} : SetMixerStandby(f)
    \/ \E t \in Calls : \/ PlayChannel(t) \/ PauseChannel(t) \/ RewindChannel(t)
                        \/ TakeTurn(t) \/ Write(t) \/ Proceed(t)

\* Goroutines go on, tracks end, and Go's mutex starves no waiter.
Fairness == \A t \in Calls : WF_vars(Proceed(t)) /\ SF_vars(TakeTurn(t))

Spec == Init /\ [][Next]_vars

FairSpec == Spec /\ Fairness

(***************************************************************************)
(* Properties                                                              *)
(***************************************************************************)

Holding == {"stop", "feed", "registered", "running", "signalled", "ended", "clear"}

\* Every variable has its type; only players and rewinds have a turn.
TypeOK ==
    /\ {manual, resetting, paused, active} \subseteq BOOLEAN
    /\ {standby, current} \subseteq Files \union {NoFile}
    /\ pc \in [Calls -> {"idle", "wait", "pause"} \union Holding]
    /\ rewinds \in [Calls -> BOOLEAN]
    /\ file \in [Calls -> Files \union {NoFile}]
    /\ turn \in Calls \union {NoCall} /\ cmd \in Calls \union {NoCall}
    /\ \A t \in Calls : pc[t] \in Holding <=> turn = t

\* Plays and rewinds of a channel never feed it together (PlayChannel and
\* RewindChannel share the mutex), and the feeder that plays is the one that a
\* pause finds.
OneDeckFeeder ==
    \A t \in Calls : Writes(t) => cmd = t /\ \A s \in Calls : Writes(s) => s = t

\* A deck on which nothing plays, waits to play or is paused shows no file and
\* refuses a rewind, whatever order loads, resets, pauses and the ends of tracks
\* came in.
QuietDeckIsEmpty ==
    (\A t \in Calls : pc[t] \in {"idle", "pause"}) /\ ~paused => current = NoFile

Turns == INSTANCE ChannelTurns WITH
             Channels <- {0},
             waiting  <- {t \in Calls : pc[t] = "wait"} \X {0},
             holding  <- {t \in Calls : pc[t] \in Holding} \X {0}

\* Plays, pauses and rewinds of the deck take turns at the channel as ChannelTurns says:
\* one of their goroutines at a time is past the mutex, it gives the channel back before
\* the next, and whoever asked gets its turn and returns, though each play keeps the
\* mutex for its whole track.
TakesTurns == Turns!Spec /\ Turns!EveryTurnComes
=============================================================================
