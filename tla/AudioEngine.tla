---------------------------- MODULE AudioEngine ----------------------------
(***************************************************************************)
(* The audio engine of a station, encoder/ffmpeg.go with the Start and     *)
(* Stop of encoder/mixer.go: the encoder processes, the mixer in front of  *)
(* them, and the feeder processes that decode tracks into its channels.    *)
(*                                                                         *)
(* Each startFFmpeg makes a generation: an HLS encoder, an MP3 encoder     *)
(* (the RTMP relay is started, kept and killed like it), a mixer, and a    *)
(* monitor goroutine that waits for the HLS encoder's exit.                *)
(* What the engine holds of a process or a mixer is its generation, 0 for  *)
(* nil.  Execute and PlayInstant run in goroutines (Calls); an action ends *)
(* where the code releases ae.mu or waits for something.                   *)
(*                                                                         *)
(* Execute's channel labels, prevFile, the log, and the WebRTC encoder with*)
(* its broadcaster are left out.                                           *)
(***************************************************************************)
EXTENDS Integers, FiniteSets

CONSTANTS Tracks,          \* goroutines of the runner that run Execute
          Instants,        \* goroutines of PlayInstant
          InstantChannels, \* mixer channels PlayInstant is asked for
          NoCall,          \* nil in channelCmds
          MaxStarts,       \* bound: calls of startFFmpeg
          MaxResets        \* bound: calls of Reset

ASSUME EngineAssumption ==
    /\ Tracks \intersect Instants = {} /\ NoCall \notin Tracks \union Instants
    /\ InstantChannels \subseteq 0 .. 7
    /\ MaxStarts \in Nat \ {0} /\ MaxResets \in Nat

VARIABLES
    started,   \* ae.started
    held,      \* the generations in ae.ffmpegCmd and ae.streamCmd
    mixer,     \* the generation in ae.Mixer
    gen,       \* generations so far
    proc,      \* per generation, the state of its two processes
    mixState,  \* per generation, the state of its mixer
    monitor,   \* per generation, the state of its monitor goroutine
    nextCh,    \* ae.nextCh
    cmds,      \* ae.channelCmds
    call,      \* control state of each call
    insert,    \* IsInsert of each track, until its channel is chosen
    target,    \* its mixer channel
    turn,      \* per channel, the call that holds its instantMu
    newest,    \* per channel, the feeder that registered last, till it ends
    resets,    \* what MaxResets counts
    overtaken  \* an engine was started while the monitor of an older one waited

Calls     == Tracks \union Instants
Gens      == 1 .. MaxStarts
Kinds     == {"hls", "stream"}
Channels  == {0, 1, 2} \union InstantChannels
engine    == <<started, held, mixer, gen, proc, mixState, monitor, resets, overtaken>>
callVars  == <<call, insert, target>>
feeding   == <<cmds, turn, newest>>
vars      == <<started, held, mixer, gen, proc, mixState, monitor, resets, overtaken, nextCh,
               call, insert, target, cmds, turn, newest>>

Init ==
    /\ started = FALSE
    /\ held = [k \in Kinds |-> 0]
    /\ mixer = 0 /\ gen = 0
    /\ proc = [g \in Gens |-> [k \in Kinds |-> "none"]]
    /\ mixState = [g \in Gens |-> "none"]
    /\ monitor = [g \in Gens |-> "none"]
    /\ nextCh = 1
    /\ cmds = [ch \in Channels |-> NoCall]
    /\ call = [t \in Calls |-> "idle"]
    /\ insert = [t \in Tracks |-> FALSE]
    /\ target = [t \in Calls |-> 0]
    /\ turn = [ch \in Channels |-> NoCall]
    /\ newest = [ch \in Channels |-> NoCall]
    /\ resets = 0 /\ overtaken = FALSE

Goto(t, state) == call' = [call EXCEPT ![t] = state]

(***************************************************************************)
(* Generations: startFFmpeg, the mixer, the monitor, Reset.                *)
(***************************************************************************)

\* Mutant: the mixer is created once and kept.
StartFFmpegKeepMixer ==
    /\ gen < MaxStarts
    /\ gen' = gen + 1
    /\ \E ok \in {S \in SUBSET Kinds : "hls" \in S} :
          /\ held' = [k \in Kinds |-> IF k \in ok THEN gen + 1 ELSE held[k]]
          /\ proc' = [proc EXCEPT ![gen+1] = [k \in Kinds |-> IF k \in ok THEN "runs" ELSE "none"]]
    /\ started' = TRUE
    /\ mixer' = IF mixer = 0 THEN gen + 1 ELSE mixer
    /\ mixState' = IF mixer = 0 THEN [mixState EXCEPT ![gen+1] = "starting"] ELSE mixState
    /\ monitor' = [monitor EXCEPT ![gen+1] = "waiting"]
    /\ overtaken' = (overtaken \/ \E g \in Gens : monitor[g] = "waiting")
    /\ UNCHANGED resets

\* An MP3 encoder that fails to start leaves the command of the previous
\* generation in place (`ok`: the processes that did start).
StartFFmpeg ==
    /\ gen < MaxStarts
    /\ gen' = gen + 1
    /\ \E ok \in {S \in SUBSET Kinds : "hls" \in S} :
          /\ held' = [k \in Kinds |-> IF k \in ok THEN gen + 1 ELSE held[k]]
          /\ proc' = [proc EXCEPT ![gen+1] = [k \in Kinds |-> IF k \in ok THEN "runs" ELSE "none"]]
    /\ started' = TRUE
    /\ mixer' = gen + 1
    /\ mixState' = [mixState EXCEPT ![gen+1] = "starting"]
    /\ monitor' = [monitor EXCEPT ![gen+1] = "waiting"]
    /\ overtaken' = (overtaken \/ \E g \in Gens : monitor[g] = "waiting")
    /\ UNCHANGED resets

\* The goroutine `go ae.Mixer.Start()`.
MixerStart(g) ==
    /\ mixState[g] = "starting"
    /\ mixState' = [mixState EXCEPT ![g] = "runs"]
    /\ UNCHANGED <<started, held, mixer, gen, proc, monitor, resets, overtaken, nextCh, callVars, feeding>>

\* Stop does nothing to a mixer that is not running yet.
MixerStop(g) ==
    mixState' = IF g # 0 /\ mixState[g] = "runs" THEN [mixState EXCEPT ![g] = "stopped"]
                ELSE mixState

\* The processes after a kill of what the engine holds of the kinds K.
Killed(K) ==
    [g \in Gens |-> [k \in Kinds |-> IF k \in K /\ held[k] = g THEN "exited" ELSE proc[g][k]]]

\* The HLS encoder dies by itself.  (Nobody notices when the MP3 encoder does,
\* and nothing else changes: that is left out.)
EncoderExits(g) ==
    /\ proc[g]["hls"] = "runs"
    /\ proc' = [proc EXCEPT ![g]["hls"] = "exited"]
    /\ UNCHANGED <<started, held, mixer, gen, mixState, monitor, resets, overtaken, nextCh, callVars, feeding>>

\* Mutant: the monitor logs the exit and leaves ae.started set.
MonitorKeepStarted(g) ==
    /\ monitor[g] = "waiting" /\ proc[g]["hls"] = "exited"
    /\ monitor' = [monitor EXCEPT ![g] = "done"]
    /\ MixerStop(mixer)
    /\ proc' = Killed({"stream"})
    /\ UNCHANGED <<started, held, mixer, gen, resets, overtaken, nextCh, callVars, feeding>>

\* cmd.Wait returned: the goroutine takes ae.mu and stops what the engine holds
\* now, which need not be of its own generation.
Monitor(g) ==
    /\ monitor[g] = "waiting" /\ proc[g]["hls"] = "exited"
    /\ monitor' = [monitor EXCEPT ![g] = "done"]
    /\ started' = FALSE
    /\ MixerStop(mixer)
    /\ proc' = Killed({"stream"})
    /\ UNCHANGED <<held, mixer, gen, resets, overtaken, nextCh, callVars, feeding>>

\* Reset, from /station/update or selfHeal.  The mixer keeps running until the
\* monitor of the killed encoder stops it.
Reset ==
    /\ resets < MaxResets
    /\ resets' = resets + 1
    /\ proc' = Killed(Kinds)
    /\ held' = [k \in Kinds |-> 0]
    /\ started' = FALSE
    /\ UNCHANGED <<mixer, gen, mixState, monitor, overtaken, nextCh, callVars, feeding>>

(***************************************************************************)
(* Calls: Execute, PlayInstant, StopChannel and feedStream.                *)
(***************************************************************************)

\* The runner executes an insert or a playlist track.
Execute(t) ==
    /\ call[t] = "idle"
    /\ \E isInsert \in BOOLEAN : insert' = [insert EXCEPT ![t] = isInsert]
    /\ Goto(t, "ready")
    /\ UNCHANGED <<engine, nextCh, target, feeding>>

PlayInstant(t, ch) ==
    /\ call[t] = "idle"
    /\ target' = [target EXCEPT ![t] = ch]
    /\ Goto(t, "queued")
    /\ UNCHANGED <<engine, nextCh, insert, feeding>>

\* mu.Lock of the channel's instantMu.
TakeTurn(t) ==
    /\ call[t] = "queued" /\ turn[target[t]] = NoCall
    /\ turn' = [turn EXCEPT ![target[t]] = t]
    /\ Goto(t, "ready")
    /\ UNCHANGED <<engine, nextCh, insert, target, cmds, newest>>

\* The call returns, and releases instantMu if it held it.
Return(t) ==
    /\ Goto(t, "idle")
    /\ turn' = [turn EXCEPT ![target[t]] = IF @ = t THEN NoCall ELSE @]
    /\ insert' = [s \in Tracks |-> s # t /\ insert[s]]
    /\ target' = [target EXCEPT ![t] = 0]

\* The first section of ae.mu: start the engine unless it is started, ...
EnsureStarted(t) ==
    /\ call[t] = "ready"
    /\ IF started THEN UNCHANGED engine ELSE StartFFmpeg
    /\ Goto(t, IF t \in Tracks /\ ~insert[t] THEN "pick" ELSE "stop")
    /\ insert' = [s \in Tracks |-> s # t /\ insert[s]]
    /\ UNCHANGED <<nextCh, target, feeding>>

\* Mutant: the early return does not run the deferred mu.Unlock.
StartFailsNoDefer(t) ==
    /\ call[t] = "ready" /\ ~started
    /\ Goto(t, "idle")
    /\ UNCHANGED <<engine, nextCh, insert, target, feeding>>

\* ... which may fail.
StartFails(t) ==
    /\ call[t] = "ready" /\ ~started
    /\ Return(t)
    /\ UNCHANGED <<engine, nextCh, cmds, newest>>

\* Mutant: the channel number is counted up without end.
PickChannelNoWrap(t) ==
    /\ call[t] = "pick"
    /\ target' = [target EXCEPT ![t] = nextCh]
    /\ nextCh' = nextCh + 1
    /\ Goto(t, "stop")
    /\ UNCHANGED <<engine, insert, feeding>>

\* Playlist tracks alternate between the channels 1 and 2.
PickChannel(t) ==
    /\ call[t] = "pick"
    /\ target' = [target EXCEPT ![t] = nextCh]
    /\ nextCh' = IF nextCh = 1 THEN 2 ELSE 1
    /\ Goto(t, "stop")
    /\ UNCHANGED <<engine, insert, feeding>>

\* StopChannel: the feeder registered for the channel is interrupted, if its
\* process was started; it goes away in its own time.
StopChannel(t) ==
    /\ call[t] = "stop"
    /\ LET old == cmds[target[t]]
       IN  call' = [s \in Calls |-> IF s = t THEN "feed"
                                    ELSE IF s = old /\ call[s] = "running" THEN "signalled"
                                    ELSE call[s]]
    /\ UNCHANGED <<engine, nextCh, insert, target, feeding>>

\* feedStream reads ae.started and ae.Mixer under ae.mu, ...
Feed(t) ==
    /\ call[t] = "feed"
    /\ IF started /\ mixer # 0
       THEN /\ Goto(t, "register")
            /\ UNCHANGED <<insert, target, turn>>
       ELSE Return(t)
    /\ UNCHANGED <<engine, nextCh, cmds, newest>>

\* ... registers its command, not started yet, under ae.mu again, ...
Register(t) ==
    /\ call[t] = "register"
    /\ cmds' = [cmds EXCEPT ![target[t]] = t]
    /\ newest' = [newest EXCEPT ![target[t]] = t]
    /\ Goto(t, "registered")
    /\ UNCHANGED <<engine, nextCh, insert, target, turn>>

\* ... runs it (cmd.Run may also fail), ...
Run(t) ==
    /\ call[t] = "registered"
    /\ \E ok \in BOOLEAN : Goto(t, IF ok THEN "running" ELSE "ended")
    /\ UNCHANGED <<engine, nextCh, insert, target, feeding>>

\* ... until the file ends, or the signal does.
FeederEnds(t) ==
    /\ call[t] \in {"running", "signalled"}
    /\ Goto(t, "ended")
    /\ UNCHANGED <<engine, nextCh, insert, target, feeding>>

\* Mutant: the entry is deleted without looking whose it is.
DeregisterAny(t) ==
    /\ call[t] = "ended"
    /\ cmds' = [cmds EXCEPT ![target[t]] = NoCall]
    /\ newest' = [newest EXCEPT ![target[t]] = IF @ = t THEN NoCall ELSE @]
    /\ Return(t)
    /\ UNCHANGED <<engine, nextCh>>

\* The entry goes if it is still this command's.
Deregister(t) ==
    /\ call[t] = "ended"
    /\ cmds' = [cmds EXCEPT ![target[t]] = IF @ = t THEN NoCall ELSE @]
    /\ newest' = [newest EXCEPT ![target[t]] = IF @ = t THEN NoCall ELSE @]
    /\ Return(t)
    /\ UNCHANGED <<engine, nextCh>>

Proceed(t) ==
    \/ TakeTurn(t) \/ EnsureStarted(t) \/ StartFails(t) \/ PickChannel(t) \/ StopChannel(t)
    \/ Feed(t) \/ Register(t) \/ Run(t) \/ FeederEnds(t) \/ Deregister(t)

Next ==
    \/ \E t \in Tracks : Execute(t)
    \/ \E t \in Instants, ch \in InstantChannels : PlayInstant(t, ch)
    \/ \E t \in Calls : Proceed(t)
    \/ \E g \in Gens : MixerStart(g) \/ Monitor(g) \/ EncoderExits(g)
    \/ Reset

\* Goroutines that can run do run, a feeder's file ends, the runner executes
\* tracks for ever; starting the engine, tried again and again, succeeds; Go's mutex
\* starves no waiter.
Fairness ==
    /\ \A t \in Tracks : WF_vars(Execute(t))
    /\ \A t \in Calls : WF_vars(Proceed(t)) /\ SF_vars(EnsureStarted(t))
    /\ \A t \in Instants : SF_vars(TakeTurn(t))
    /\ WF_vars(\E g \in Gens : MixerStart(g) \/ Monitor(g))

Spec == Init /\ [][Next]_vars

FairSpec == Spec /\ Fairness

(***************************************************************************)
(* Properties                                                              *)
(***************************************************************************)

\* Every variable has its type; what the engine holds was started.
TypeOK ==
    /\ started \in BOOLEAN
    /\ held \in [Kinds -> 0 .. gen]
    /\ gen \in 0 .. MaxStarts /\ mixer \in 0 .. gen
    /\ proc \in [Gens -> [Kinds -> {"none", "runs", "exited"}]]
    /\ mixState \in [Gens -> {"none", "starting", "runs", "stopped"}]
    /\ monitor \in [Gens -> {"none", "waiting", "done"}]
    /\ nextCh \in {1, 2}
    /\ cmds \in [Channels -> Calls \union {NoCall}]
    /\ call \in [Calls -> {"idle", "queued", "ready", "pick", "stop", "feed", "register",
                           "registered", "running", "signalled", "ended"}]
    /\ insert \in [Tracks -> BOOLEAN]
    /\ target \in [Calls -> Channels]
    /\ turn \in [Channels -> Calls \union {NoCall}]
    /\ newest \in [Channels -> Calls \union {NoCall}]
    /\ resets \in 0 .. MaxResets
    /\ overtaken \in BOOLEAN

Encoding == {g \in Gens : proc[g]["hls"] = "runs"}

\* Two HLS encoders of a station would write the same segment files, two MP3
\* encoders would mix their streams.
OneEncoder == \A k \in Kinds : Cardinality({g \in Gens : proc[g][k] = "runs"}) <= 1

\* An encoder that runs is fed: the mixer that calls put their feeders on is its own,
\* and nobody stopped it.
MixerServesEncoder == \A g \in Encoding : mixer = g /\ mixState[g] \in {"starting", "runs"}

\* However often encoders die or are reset, there is one of each kind at most, served by
\* its mixer, provided that the monitor of a dead encoder ran before the next start.
EngineIsWhole == ~overtaken => OneEncoder /\ MixerServesEncoder

\* The feeder that registered last for a channel is the one StopChannel finds
\* until it has ended, though others of the channel register and deregister.
NewestCanBeStopped ==
    \A ch \in Channels :
        LET t == newest[ch]
        IN  /\ t # NoCall
            /\ target[t] = ch
            /\ call[t] \in {"registered", "running", "signalled", "ended"}
            => cmds[ch] = t

\* main.go:179, "audio engine restarted": an engine is stopped by a reset or by
\* the exit of its own encoder only, so the one started after a reset stays up.
EngineStopsForCause ==
    [][ started /\ ~started' => resets' # resets \/ proc[gen]["hls"] = "exited" ]_vars

\* After the encoder died the engine is started anew, by the next track.
EngineComesBack ==
    \A g \in 1 .. MaxStarts - 1 : proc[g]["hls"] = "exited" ~> gen > g

Turns == INSTANCE ChannelTurns WITH
             Calls    <- Instants,
             Channels <- InstantChannels,
             waiting  <- {p \in Instants \X InstantChannels :
                             call[p[1]] = "queued" /\ target[p[1]] = p[2]},
             holding  <- {p \in Instants \X InstantChannels :
                             call[p[1]] \notin {"idle", "queued"} /\ target[p[1]] = p[2]}

\* ffmpeg.go:426: a PlayInstant waits for the one before it on its channel, the whole
\* of its track included, as ChannelTurns says; it gets its turn and returns, whatever
\* fails before it.
InstantsTakeTurns == Turns!Spec /\ Turns!EveryTurnComes
=============================================================================
