------------------------------ MODULE Stations ------------------------------
(***************************************************************************)
(* The life of one station id: the registry of station/manager.go, the     *)
(* loop of station/lifecycle.go, and the goroutines that may start the     *)
(* station's engine.                                                       *)
(*                                                                         *)
(* A runner is a StationRunner object with its Station and its engine; a   *)
(* station that was removed and created again has another one, for the     *)
(* same output directory.  A loop is a goroutine of Run; every create      *)
(* starts one, also when the station exists.  A call is the goroutine of a *)
(* track (`go Execute`) or of a PlayInstant until it has found the engine  *)
(* started or has started it.  A PlayInstant may have to wait for the one  *)
(* before it on its channel, which is in AudioEngine: here it takes any    *)
(* time.                                                                   *)
(*                                                                         *)
(* Of the engine there is only whether its encoder runs: that the monitor  *)
(* of a dead encoder comes late is in AudioEngine.  What is in the queues  *)
(* is in QueueManager: a pop finds a track or does not.  A skip ends the   *)
(* wait for a track's end, as its timer may at any time.                   *)
(***************************************************************************)
EXTENDS Integers, FiniteSets

CONSTANTS Runners,  \* runners that are in use at a time
          NoRunner, \* nil
          Loops,    \* goroutines of Run at a time
          MaxCalls  \* tracks and PlayInstants on their way to a runner's engine at a time

ASSUME StationsAssumption == NoRunner \notin Runners /\ MaxCalls \in Nat \ {0}

VARIABLES
    registered, \* m.stations[id]
    stopped,    \* runners whose stopCh is closed
    manual,     \* runners in manual mode
    on,         \* runners whose encoder runs
    called,     \* of these, the ones that a track or a PlayInstant started, not a boot
    loop,       \* control state of each loop
    of,         \* the runner of each loop
    calls,      \* how many calls are on their way to the engine of each runner
    late        \* tracks a loop launched since the stop or the change to manual

runners == <<registered, stopped, manual>>
engines == <<on, called>>
vars    == <<registered, stopped, manual, on, called, loop, of, calls, late>>

LoopsOf(r) == {l \in Loops : of[l] = r}

Init ==
    /\ registered = NoRunner
    /\ stopped = {} /\ manual = {} /\ on = {} /\ called = {}
    /\ loop = [l \in Loops |-> "none"]
    /\ of = [l \in Loops |-> NoRunner]
    /\ calls = [r \in Runners |-> 0]
    /\ late = [l \in Loops |-> 0]

(***************************************************************************)
(* Requests: /station/create, remove, update, /mixer/mode, /breaking.      *)
(***************************************************************************)

\* Nothing of the runner is left but garbage.
Free(r) == r # registered /\ r \notin on /\ LoopsOf(r) = {} /\ calls[r] = 0

\* `go runner.Run()`.
StartLoop(r) ==
    \E l \in Loops :
        /\ loop[l] = "none"
        /\ loop' = [loop EXCEPT ![l] = "run"]
        /\ of' = [of EXCEPT ![l] = r]

\* Mutant: the registry is not looked at first.
CreateStationAnew ==
    \E r \in Runners :
        /\ Free(r)
        /\ registered' = r
        /\ stopped' = stopped \ {r} /\ manual' = manual \ {r}
        /\ StartLoop(r)
        /\ UNCHANGED <<engines, calls, late>>

\* The runner that is registered gets another loop, or a new one is registered.
CreateStation ==
    \E r \in Runners :
        /\ r = registered \/ (registered = NoRunner /\ Free(r))
        /\ registered' = r
        /\ IF r = registered THEN UNCHANGED <<stopped, manual>>
           ELSE stopped' = stopped \ {r} /\ manual' = manual \ {r}
        /\ StartLoop(r)
        /\ UNCHANGED <<engines, calls, late>>

\* Mutant: the runner is stopped and stays in the registry.
RemoveStationStopsOnly ==
    /\ registered # NoRunner
    /\ stopped' = stopped \union {registered}
    /\ UNCHANGED <<registered, manual, engines, loop, of, calls, late>>

\* RemoveStation; StopAll does the same for every station.
RemoveStation ==
    /\ registered # NoRunner
    /\ stopped' = stopped \union {registered}
    /\ registered' = NoRunner
    /\ late' = [l \in Loops |-> IF of[l] = registered /\ registered \notin manual THEN 0
                                ELSE late[l]]
    /\ UNCHANGED <<manual, engines, loop, of, calls>>

SetMixerMode(isManual) ==
    /\ registered # NoRunner
    /\ manual' = IF isManual THEN manual \union {registered} ELSE manual \ {registered}
    /\ late' = [l \in Loops |-> IF of[l] = registered /\ registered \notin manual THEN 0
                                ELSE late[l]]
    /\ UNCHANGED <<registered, stopped, engines, loop, of, calls>>

\* Reset of the engine: the next track starts it again.
Update ==
    /\ registered \in on
    /\ on' = on \ {registered} /\ called' = called \ {registered}
    /\ UNCHANGED <<runners, loop, of, calls, late>>

AddCall(r) == calls[r] < MaxCalls /\ calls' = [calls EXCEPT ![r] = @ + 1]

PlayInstant ==
    /\ registered # NoRunner
    /\ AddCall(registered)
    /\ UNCHANGED <<runners, engines, loop, of, late>>

(***************************************************************************)
(* The loop.                                                               *)
(***************************************************************************)

Goto(l, state) == loop' = [loop EXCEPT ![l] = state]

\* Mutant: the loop of a manual station never looks at stopCh.
RunUnlessManual(l) ==
    /\ loop[l] = "run"
    /\ IF of[l] \in stopped \ manual
       THEN Goto(l, "none") /\ of' = [of EXCEPT ![l] = NoRunner] /\ late' = [late EXCEPT ![l] = 0]
       ELSE Goto(l, "boot") /\ UNCHANGED <<of, late>>
    /\ UNCHANGED <<runners, engines, calls>>

Run(l) ==
    /\ loop[l] = "run"
    /\ IF of[l] \in stopped
       THEN Goto(l, "none") /\ of' = [of EXCEPT ![l] = NoRunner] /\ late' = [late EXCEPT ![l] = 0]
       ELSE Goto(l, "boot") /\ UNCHANGED <<of, late>>
    /\ UNCHANGED <<runners, engines, calls>>

\* runLoop executes the silent file itself: the engine is started, or fails to.
Boot(l) ==
    /\ loop[l] = "boot"
    /\ \/ on' = on \union {of[l]} /\ Goto(l, "silence")
       \/ of[l] \notin on /\ UNCHANGED on /\ Goto(l, "heal")
    /\ UNCHANGED <<runners, called, of, calls, late>>

\* The silence is over, or its feeder failed: a PlayInstant on its channel, another
\* loop's silence or a reset is enough for that.
SilenceEnds(l) ==
    /\ loop[l] = "silence"
    /\ Goto(l, "turn") \/ Goto(l, "heal")
    /\ UNCHANGED <<runners, engines, of, calls, late>>

\* Mutant: the goroutine returns at the stop, without the self-heal.
TurnReturns(l) ==
    /\ loop[l] = "turn"
    /\ IF of[l] \in stopped
       THEN Goto(l, "none") /\ of' = [of EXCEPT ![l] = NoRunner] /\ late' = [late EXCEPT ![l] = 0]
       ELSE of[l] \notin manual /\ Goto(l, "pop") /\ UNCHANGED <<of, late>>
    /\ UNCHANGED <<runners, engines, calls>>

\* The top of the loop: the stop, and the mode, in which the loop sleeps if it is manual.
Turn(l) ==
    /\ loop[l] = "turn"
    /\ IF of[l] \in stopped THEN Goto(l, "heal")
                            ELSE of[l] \notin manual /\ Goto(l, "pop")
    /\ UNCHANGED <<runners, engines, of, calls, late>>

Launch(l) ==
    /\ AddCall(of[l])
    /\ late' = [late EXCEPT ![l] = IF of[l] \in stopped \union manual /\ @ < 2
                                   THEN @ + 1 ELSE @]

\* popTrack finds nothing and the silence goes on, or a track (or the silence after
\* one) is launched.
Pop(l) ==
    /\ loop[l] = "pop"
    /\ \/ Goto(l, "turn") /\ UNCHANGED <<calls, late>>
       \/ Goto(l, "wait") /\ Launch(l)
    /\ UNCHANGED <<runners, engines, of>>

\* Mutant: when its time is over the next track is popped at once.
WaitThenPop(l) ==
    /\ loop[l] = "wait"
    /\ Goto(l, "pop") \/ (of[l] \in stopped /\ Goto(l, "heal"))
    /\ UNCHANGED <<runners, engines, of, calls, late>>

\* The select of the wait: the stop, a skip, or the time of the track is over.
Wait(l) ==
    /\ loop[l] = "wait"
    /\ Goto(l, "turn") \/ (of[l] \in stopped /\ Goto(l, "heal"))
    /\ UNCHANGED <<runners, engines, of, calls, late>>

\* Every return of runLoop, the one at a stop included, is followed by a reset of the
\* engine.
SelfHeal(l) ==
    /\ loop[l] = "heal"
    /\ on' = on \ {of[l]} /\ called' = called \ {of[l]}
    /\ Goto(l, "run")
    /\ UNCHANGED <<runners, of, calls, late>>

(***************************************************************************)
(* The calls, and the encoder.                                             *)
(***************************************************************************)

Return(r) == calls[r] > 0 /\ calls' = [calls EXCEPT ![r] = @ - 1]

\* The first section of Execute and PlayInstant: the engine is started if it is not, of
\* a removed runner as well.
EnsureStarted(r) ==
    /\ Return(r)
    /\ on' = on \union {r}
    /\ called' = IF r \in on THEN called ELSE called \union {r}
    /\ UNCHANGED <<runners, loop, of, late>>

StartFails(r) ==
    /\ r \notin on
    /\ Return(r)
    /\ UNCHANGED <<runners, engines, loop, of, late>>

EncoderExits(r) ==
    /\ r \in on
    /\ on' = on \ {r} /\ called' = called \ {r}
    /\ UNCHANGED <<runners, loop, of, calls, late>>

Proceed(l) ==
    Run(l) \/ Boot(l) \/ SilenceEnds(l) \/ Turn(l) \/ Pop(l) \/ Wait(l) \/ SelfHeal(l)

Serve(r) == EnsureStarted(r) \/ StartFails(r)

Next ==
    \/ CreateStation \/ RemoveStation \/ Update \/ PlayInstant
    \/ \E isManual \in BOOLEAN : SetMixerMode(isManual)
    \/ \E l \in Loops : Proceed(l)
    \/ \E r \in Runners : Serve(r) \/ EncoderExits(r)

\* Goroutines go on, and silence and tracks end.
Fairness ==
    /\ \A l \in Loops : WF_vars(Proceed(l))
    /\ \A r \in Runners : WF_vars(Serve(r))

Spec == Init /\ [][Next]_vars

FairSpec == Spec /\ Fairness

(***************************************************************************)
(* Properties                                                              *)
(***************************************************************************)

\* Every variable has its type; what is registered was not stopped, and a loop that
\* runs has a runner.
TypeOK ==
    /\ registered \in (Runners \ stopped) \union {NoRunner}
    /\ stopped \subseteq Runners /\ manual \subseteq Runners
    /\ on \subseteq Runners /\ called \subseteq on
    /\ loop \in [Loops -> {"none", "run", "boot", "silence", "turn", "pop", "wait", "heal"}]
    /\ of \in [Loops -> Runners \union {NoRunner}]
    /\ \A l \in Loops : loop[l] = "none" <=> of[l] = NoRunner
    /\ calls \in [Runners -> 0 .. MaxCalls]
    /\ late \in [Loops -> 0 .. 2]

\* A loop tests the stop and the mode, unlocks, pops and launches: after a removal or a
\* change to manual mode it launches one more track, and never a second, however the
\* requests interleave with it.
AtMostOneLateTrack == \A l \in Loops : late[l] <= 1

\* Encoders of an id write to the same directory: two may run only while one is that
\* of a removed runner, though stations are created twice, and removed and created again.
OneEncoderPerDirectory == Cardinality(on \ stopped) <= 1

\* A loop takes the encoder it started with it: when the loops of a removed runner have
\* ended, its encoder runs only if a track or a PlayInstant started it, after the last
\* reset.
RemovedEngineNeedsCall ==
    \A r \in stopped : r \in on /\ LoopsOf(r) = {} => r \in called

\* A removal ends every loop of the runner, also in manual mode, in the silence at the
\* start, and in the wait for a track.
StopEndsLoops == \A r \in Runners : r \in stopped ~> LoopsOf(r) = {}

\* API.md:210, "Stops and removes a station": once it is removed its encoder does not run
\* for ever.
RemovedFallsSilent == \A r \in Runners : r \in stopped ~> r \notin on
=============================================================================
