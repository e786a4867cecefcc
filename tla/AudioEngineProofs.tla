------------------------- MODULE AudioEngineProofs -------------------------
(***************************************************************************)
(* Theorems about AudioEngine, for any number of tracks, PlayInstants,     *)
(* channels, starts and resets.                                            *)
(***************************************************************************)
EXTENDS AudioEngine, FiniteSetTheorems, TLAPS

LEMMA ChannelFacts == 0 \in Channels /\ 1 \in Channels /\ 2 \in Channels
                      /\ InstantChannels \subseteq Channels
  BY DEF Channels

LEMMA ReturnTypes ==
    ASSUME TypeOK, NEW t \in Calls, Return(t)
    PROVE  /\ call' \in [Calls -> {"idle", "queued", "ready", "pick", "stop", "feed", "register",
                                   "registered", "running", "signalled", "ended"}]
           /\ insert' \in [Tracks -> BOOLEAN]
           /\ target' \in [Calls -> Channels]
           /\ turn' \in [Channels -> Calls \union {NoCall}]
  BY ChannelFacts DEF Return, Goto, TypeOK

LEMMA StartTypes ==
    ASSUME TypeOK, StartFFmpeg
    PROVE  /\ started' = TRUE
           /\ held' \in [Kinds -> 0 .. gen']
           /\ gen' \in 0 .. MaxStarts /\ mixer' \in 0 .. gen'
           /\ proc' \in [Gens -> [Kinds -> {"none", "runs", "exited"}]]
           /\ mixState' \in [Gens -> {"none", "starting", "runs", "stopped"}]
           /\ monitor' \in [Gens -> {"none", "waiting", "done"}]
           /\ resets' \in 0 .. MaxResets
           /\ overtaken' \in BOOLEAN
  <1>1. gen' = gen + 1 /\ gen + 1 \in 0 .. MaxStarts /\ gen + 1 \in Gens
    BY EngineAssumption DEF StartFFmpeg, TypeOK, Gens
  <1> PICK ok \in SUBSET Kinds :
             /\ held' = [k \in Kinds |-> IF k \in ok THEN gen + 1 ELSE held[k]]
             /\ proc' = [proc EXCEPT ![gen+1] =
                            [k \in Kinds |-> IF k \in ok THEN "runs" ELSE "none"]]
    BY DEF StartFFmpeg
  <1>2. held' \in [Kinds -> 0 .. gen']
    BY <1>1, EngineAssumption DEF TypeOK
  <1>3. proc' \in [Gens -> [Kinds -> {"none", "runs", "exited"}]]
    BY <1>1 DEF TypeOK
  <1>4. overtaken' \in BOOLEAN
    BY DEF StartFFmpeg, TypeOK
  <1> QED
    BY <1>1, <1>2, <1>3, <1>4, EngineAssumption DEF StartFFmpeg, TypeOK

LEMMA KilledTypes ==
    ASSUME TypeOK, NEW K
    PROVE  Killed(K) \in [Gens -> [Kinds -> {"none", "runs", "exited"}]]
  BY DEF Killed, TypeOK

LEMMA MixerStopTypes ==
    ASSUME TypeOK, NEW g, MixerStop(g)
    PROVE  mixState' \in [Gens -> {"none", "starting", "runs", "stopped"}]
  BY DEF MixerStop, TypeOK

\* Every variable keeps its type: the engine holds processes and mixers of generations
\* that were started, and a channel is one the code has.
THEOREM TypeCorrect == Spec => []TypeOK
  <1>1. Init => TypeOK
    <2> SUFFICES ASSUME Init
                 PROVE  TypeOK
      OBVIOUS
    <2>1. gen \in 0 .. MaxStarts /\ mixer \in 0 .. gen /\ resets \in 0 .. MaxResets
      BY EngineAssumption DEF Init
    <2>2. held \in [Kinds -> 0 .. gen]
      BY DEF Init
    <2> QED
      BY <2>1, <2>2, ChannelFacts DEF Init, TypeOK
  <1>2. TypeOK /\ [Next]_vars => TypeOK'
    <2> SUFFICES ASSUME TypeOK, [Next]_vars
                 PROVE  TypeOK'
      OBVIOUS
    <2> USE DEF engine, callVars, feeding
    <2>1. ASSUME NEW t \in Tracks, Execute(t)
          PROVE  TypeOK'
      BY <2>1 DEF Execute, Goto, TypeOK, Calls
    <2>2. ASSUME NEW t \in Instants, NEW ch \in InstantChannels, PlayInstant(t, ch)
          PROVE  TypeOK'
      BY <2>2, ChannelFacts DEF PlayInstant, Goto, TypeOK, Calls
    <2>3. ASSUME NEW t \in Calls, TakeTurn(t)
          PROVE  TypeOK'
      BY <2>3 DEF TakeTurn, Goto, TypeOK
    <2>4. ASSUME NEW t \in Calls, EnsureStarted(t)
          PROVE  TypeOK'
      <3>1. call' \in [Calls -> {"idle", "queued", "ready", "pick", "stop", "feed", "register",
                                   "registered", "running", "signalled", "ended"}]
        BY <2>4 DEF EnsureStarted, Goto, TypeOK
      <3>2. insert' \in [Tracks -> BOOLEAN]
        BY <2>4 DEF EnsureStarted, TypeOK
      <3>3. CASE StartFFmpeg
        BY <2>4, <3>1, <3>2, <3>3, StartTypes DEF EnsureStarted, TypeOK
      <3>4. CASE UNCHANGED engine
        BY <2>4, <3>1, <3>2, <3>4 DEF EnsureStarted, TypeOK
      <3> QED
        BY <2>4, <3>3, <3>4 DEF EnsureStarted
    <2>5. ASSUME NEW t \in Calls, StartFails(t)
          PROVE  TypeOK'
      BY <2>5, ReturnTypes DEF StartFails, TypeOK
    <2>6. ASSUME NEW t \in Calls, PickChannel(t)
          PROVE  TypeOK'
      BY <2>6, ChannelFacts DEF PickChannel, Goto, TypeOK
    <2>7. ASSUME NEW t \in Calls, StopChannel(t)
          PROVE  TypeOK'
      BY <2>7 DEF StopChannel, TypeOK
    <2>8. ASSUME NEW t \in Calls, Feed(t)
          PROVE  TypeOK'
      <3>1. CASE Return(t)
        BY <2>8, <3>1, ReturnTypes DEF Feed, TypeOK
      <3>2. CASE Goto(t, "register") /\ UNCHANGED <<insert, target, turn>>
        BY <2>8, <3>2 DEF Feed, Goto, TypeOK
      <3> QED
        BY <2>8, <3>1, <3>2 DEF Feed
    <2>9. ASSUME NEW t \in Calls, Register(t)
          PROVE  TypeOK'
      BY <2>9 DEF Register, Goto, TypeOK
    <2>10. ASSUME NEW t \in Calls, Run(t) \/ FeederEnds(t)
           PROVE  TypeOK'
      BY <2>10 DEF Run, FeederEnds, Goto, TypeOK
    <2>11. ASSUME NEW t \in Calls, Deregister(t)
           PROVE  TypeOK'
      BY <2>11, ReturnTypes DEF Deregister, TypeOK
    <2>12. ASSUME NEW g \in Gens, MixerStart(g)
           PROVE  TypeOK'
      BY <2>12 DEF MixerStart, TypeOK
    <2>13. ASSUME NEW g \in Gens, Monitor(g)
           PROVE  TypeOK'
      BY <2>13, KilledTypes, MixerStopTypes DEF Monitor, TypeOK
    <2>14. ASSUME NEW g \in Gens, EncoderExits(g)
           PROVE  TypeOK'
      <3>1. proc' \in [Gens -> [Kinds -> {"none", "runs", "exited"}]]
        BY <2>14 DEF EncoderExits, TypeOK, Kinds
      <3> QED
        BY <2>14, <3>1 DEF EncoderExits, TypeOK
    <2>15. CASE Reset
      <3>1. held' \in [Kinds -> 0 .. gen] /\ resets' \in 0 .. MaxResets
        BY <2>15, EngineAssumption DEF Reset, TypeOK
      <3>2. proc' \in [Gens -> [Kinds -> {"none", "runs", "exited"}]]
        BY <2>15, KilledTypes DEF Reset
      <3> QED
        BY <2>15, <3>1, <3>2 DEF Reset, TypeOK
    <2>16. CASE UNCHANGED vars
      BY <2>16 DEF vars, TypeOK
    <2> QED
      BY <2>1, <2>2, <2>3, <2>4, <2>5, <2>6, <2>7, <2>8, <2>9, <2>10, <2>11, <2>12, <2>13,
         <2>14, <2>15, <2>16 DEF Next, Proceed
  <1> QED
    BY <1>1, <1>2, PTL DEF Spec

-----------------------------------------------------------------------------
\* Theorem: the feeder that registered last for a channel is the one StopChannel finds,
\* until it has ended; the invariant is inductive with the types.
THEOREM NewestIsFound == Spec => []NewestCanBeStopped
  <1>1. Init => NewestCanBeStopped
    BY DEF Init, NewestCanBeStopped
  <1>2. TypeOK /\ NewestCanBeStopped /\ [Next]_vars => NewestCanBeStopped'
    <2> SUFFICES ASSUME TypeOK, NewestCanBeStopped, [Next]_vars
                 PROVE  NewestCanBeStopped'
      OBVIOUS
    <2> USE DEF engine, callVars, feeding, NewestCanBeStopped
    <2>1. ASSUME NEW t \in Tracks, Execute(t)
          PROVE  NewestCanBeStopped'
      BY <2>1 DEF Execute, Goto, TypeOK
    <2>2. ASSUME NEW t \in Instants, NEW ch \in InstantChannels, PlayInstant(t, ch)
          PROVE  NewestCanBeStopped'
      BY <2>2 DEF PlayInstant, Goto, TypeOK
    <2>3. ASSUME NEW t \in Calls, TakeTurn(t) \/ EnsureStarted(t) \/ PickChannel(t)
          PROVE  NewestCanBeStopped'
      BY <2>3 DEF TakeTurn, EnsureStarted, PickChannel, Goto, TypeOK
    <2>4. ASSUME NEW t \in Calls, StartFails(t) \/ Feed(t)
          PROVE  NewestCanBeStopped'
      BY <2>4 DEF StartFails, Feed, Return, Goto, TypeOK
    <2>5. ASSUME NEW t \in Calls, StopChannel(t)
          PROVE  NewestCanBeStopped'
      BY <2>5 DEF StopChannel, TypeOK
    <2>6. ASSUME NEW t \in Calls, Register(t)
          PROVE  NewestCanBeStopped'
      BY <2>6 DEF Register, Goto, TypeOK
    <2>7. ASSUME NEW t \in Calls, Run(t) \/ FeederEnds(t)
          PROVE  NewestCanBeStopped'
      BY <2>7 DEF Run, FeederEnds, Goto, TypeOK
    <2>8. ASSUME NEW t \in Calls, Deregister(t)
          PROVE  NewestCanBeStopped'
      BY <2>8 DEF Deregister, Return, Goto, TypeOK
    <2>9. ASSUME NEW g \in Gens, MixerStart(g) \/ Monitor(g) \/ EncoderExits(g)
          PROVE  NewestCanBeStopped'
      BY <2>9 DEF MixerStart, Monitor, EncoderExits
    <2>10. CASE Reset \/ UNCHANGED vars
      BY <2>10 DEF Reset, vars
    <2> QED
      BY <2>1, <2>2, <2>3, <2>4, <2>5, <2>6, <2>7, <2>8, <2>9, <2>10 DEF Next, Proceed
  <1> QED
    BY <1>1, <1>2, TypeCorrect, PTL DEF Spec

-----------------------------------------------------------------------------
\* While no start overtook a monitor: only the newest generation has a monitor that waits,
\* whatever runs has one, and what it would stop is what the engine holds.
NewestRuns ==
    /\ mixer = gen
    /\ \A g \in Gens : proc[g]["hls"] = "runs" => monitor[g] = "waiting"
    /\ ~overtaken => \A g \in Gens :
          /\ monitor[g] = "waiting" => g = gen /\ mixState[g] \in {"starting", "runs"}
          /\ proc[g]["stream"] = "runs" => monitor[g] = "waiting" /\ held["stream"] = g

LEMMA NewestRunsHolds == Spec => []NewestRuns
  <1>1. Init => NewestRuns
    BY DEF Init, NewestRuns, Kinds
  <1>2. TypeOK /\ NewestRuns /\ [Next]_vars => NewestRuns'
    <2> SUFFICES ASSUME TypeOK, NewestRuns, [Next]_vars
                 PROVE  NewestRuns'
      OBVIOUS
    <2> USE DEF engine, callVars, feeding, NewestRuns, Kinds
    <2>1. CASE StartFFmpeg
      <3>1. gen + 1 \in Gens /\ 0 \notin Gens /\ gen' = gen + 1 /\ mixer' = gen'
        BY <2>1, EngineAssumption DEF StartFFmpeg, TypeOK, Gens
      <3> PICK ok \in {S \in SUBSET Kinds : "hls" \in S} :
             /\ held' = [k \in Kinds |-> IF k \in ok THEN gen + 1 ELSE held[k]]
             /\ proc' = [proc EXCEPT ![gen+1] =
                            [k \in Kinds |-> IF k \in ok THEN "runs" ELSE "none"]]
        BY <2>1 DEF StartFFmpeg
      <3>2. /\ monitor' = [monitor EXCEPT ![gen+1] = "waiting"]
            /\ mixState' = [mixState EXCEPT ![gen+1] = "starting"]
            /\ ~overtaken' => ~overtaken /\ \A g \in Gens : monitor[g] # "waiting"
        BY <2>1 DEF StartFFmpeg
      <3>3. \A g \in Gens : proc'[g]["hls"] = "runs" => monitor'[g] = "waiting"
        BY <3>1, <3>2 DEF TypeOK
      <3>4. ASSUME ~overtaken', NEW g \in Gens
            PROVE  /\ monitor'[g] = "waiting" => g = gen' /\ mixState'[g] \in {"starting", "runs"}
                   /\ proc'[g]["stream"] = "runs" => monitor'[g] = "waiting" /\ held'["stream"] = g
        <4>1. CASE g = gen + 1
          BY <3>1, <3>2, <4>1 DEF TypeOK
        <4>2. CASE g # gen + 1
          BY <3>1, <3>2, <3>4, <4>2 DEF TypeOK
        <4> QED
          BY <4>1, <4>2
      <3> QED
        BY <3>1, <3>3, <3>4
    <2>2. ASSUME NEW g \in Gens, MixerStart(g)
          PROVE  NewestRuns'
      BY <2>2 DEF MixerStart, TypeOK
    <2>3. ASSUME NEW g \in Gens, Monitor(g)
          PROVE  NewestRuns'
      BY <2>3 DEF Monitor, MixerStop, Killed, TypeOK
    <2>4. ASSUME NEW g \in Gens, EncoderExits(g)
          PROVE  NewestRuns'
      BY <2>4 DEF EncoderExits, TypeOK
    <2>5. CASE Reset
      BY <2>5 DEF Reset, Killed, TypeOK
    <2>6. CASE UNCHANGED engine
      BY <2>6
    <2>7. ASSUME NEW t \in Calls, Proceed(t)
          PROVE  StartFFmpeg \/ UNCHANGED engine
      BY <2>7 DEF Proceed, TakeTurn, EnsureStarted, StartFails, PickChannel, StopChannel, Feed,
                  Register, Run, FeederEnds, Deregister
    <2> QED
      BY <2>1, <2>2, <2>3, <2>4, <2>5, <2>6, <2>7 DEF Next, Execute, PlayInstant, vars
  <1> QED
    BY <1>1, <1>2, TypeCorrect, PTL DEF Spec

\* Theorem: of each kind one encoder runs at most, fed by its own mixer, however often
\* encoders die and are reset, unless a start overtakes the monitor of a dead encoder.
THEOREM EngineStaysWhole == Spec => []EngineIsWhole
  <1>1. TypeOK /\ NewestRuns => EngineIsWhole
    <2> SUFFICES ASSUME TypeOK, NewestRuns, ~overtaken
                 PROVE  OneEncoder /\ MixerServesEncoder
      BY DEF EngineIsWhole
    <2>1. \A g \in Gens, k \in Kinds : proc[g][k] = "runs" => monitor[g] = "waiting" /\ g = gen
      BY DEF NewestRuns, Kinds
    <2>2. ASSUME NEW k \in Kinds
          PROVE  Cardinality({g \in Gens : proc[g][k] = "runs"}) <= 1
      <3>1. {g \in Gens : proc[g][k] = "runs"} \subseteq {gen}
        BY <2>1
      <3>2. IsFiniteSet({gen}) /\ Cardinality({gen}) = 1
        BY FS_Singleton
      <3> QED
        BY <3>1, <3>2, FS_Subset
    <2>3. MixerServesEncoder
      BY <2>1 DEF MixerServesEncoder, Encoding, NewestRuns
    <2> QED
      BY <2>2, <2>3 DEF OneEncoder
  <1> QED
    BY <1>1, TypeCorrect, NewestRunsHolds, PTL

-----------------------------------------------------------------------------
\* A PlayInstant that is past the mutex of its channel holds it, and never picks another
\* channel.
PastIsHolder ==
    \A t \in Instants :
        /\ call[t] # "pick"
        /\ call[t] \notin {"idle", "queued"} => turn[target[t]] = t

LEMMA PastIsHolderHolds == Spec => []PastIsHolder
  <1>1. Init => PastIsHolder
    BY DEF Init, PastIsHolder, Calls
  <1>2. TypeOK /\ PastIsHolder /\ [Next]_vars => PastIsHolder'
    <2> SUFFICES ASSUME TypeOK, PastIsHolder, [Next]_vars
                 PROVE  PastIsHolder'
      OBVIOUS
    <2> USE EngineAssumption DEF engine, callVars, feeding, PastIsHolder, Calls
    <2>1. ASSUME NEW t \in Tracks, Execute(t)
          PROVE  PastIsHolder'
      BY <2>1 DEF Execute, Goto, TypeOK
    <2>2. ASSUME NEW t \in Instants, NEW ch \in InstantChannels, PlayInstant(t, ch)
          PROVE  PastIsHolder'
      BY <2>2 DEF PlayInstant, Goto, TypeOK
    <2>3. ASSUME NEW t \in Calls, TakeTurn(t)
          PROVE  PastIsHolder'
      BY <2>3 DEF TakeTurn, Goto, TypeOK
    <2>4. ASSUME NEW t \in Calls, EnsureStarted(t) \/ PickChannel(t)
          PROVE  PastIsHolder'
      BY <2>4 DEF EnsureStarted, PickChannel, Goto, TypeOK
    <2>5. ASSUME NEW t \in Calls, Return(t)
          PROVE  PastIsHolder'
      BY <2>5 DEF Return, Goto, TypeOK
    <2>6. ASSUME NEW t \in Calls, StopChannel(t)
          PROVE  PastIsHolder'
      BY <2>6 DEF StopChannel, TypeOK
    <2>7. ASSUME NEW t \in Calls,
                 Feed(t) \/ Register(t) \/ Run(t) \/ FeederEnds(t), ~Return(t)
          PROVE  PastIsHolder'
      BY <2>7 DEF Feed, Register, Run, FeederEnds, Goto, TypeOK
    <2>8. ASSUME NEW g \in Gens, MixerStart(g) \/ Monitor(g) \/ EncoderExits(g)
          PROVE  PastIsHolder'
      BY <2>8 DEF MixerStart, Monitor, EncoderExits
    <2>9. CASE Reset \/ UNCHANGED vars
      BY <2>9 DEF Reset, vars
    <2> QED
      BY <2>1, <2>2, <2>3, <2>4, <2>5, <2>6, <2>7, <2>8, <2>9
      DEF Next, Proceed, StartFails, Deregister
  <1> QED
    BY <1>1, <1>2, TypeCorrect, PTL DEF Spec

Waiters == {p \in Instants \X InstantChannels : call[p[1]] = "queued" /\ target[p[1]] = p[2]}
Holders == {p \in Instants \X InstantChannels :
               call[p[1]] \notin {"idle", "queued"} /\ target[p[1]] = p[2]}

\* A step that lets every PlayInstant stay where it is with respect to the mutex, for its
\* channel, is a stutter.
LEMMA SameSides ==
    ASSUME \A t \in Instants : call'[t] = "queued" <=> call[t] = "queued",
           \A t \in Instants : call'[t] = "idle" <=> call[t] = "idle",
           \A t \in Instants : call[t] # "idle" => target'[t] = target[t]
    PROVE  UNCHANGED <<Waiters, Holders>>
  BY DEF Waiters, Holders

LEMMA PlayAsks ==
    ASSUME TypeOK, NEW t \in Instants, NEW ch \in InstantChannels, PlayInstant(t, ch)
    PROVE  Turns!Ask(t, ch)
  <1>1. /\ call[t] = "idle" /\ call'[t] = "queued" /\ target'[t] = ch
        /\ \A s \in Instants \ {t} : call'[s] = call[s] /\ target'[s] = target[s]
    BY DEF PlayInstant, Goto, TypeOK, Calls
  <1>2. Waiters' = Waiters \union {<<t, ch>>}
    <2>1. \A p \in Instants \X InstantChannels : p = <<t, ch>> <=> p[1] = t /\ p[2] = ch
      OBVIOUS
    <2> QED
      BY <1>1, <2>1 DEF Waiters
  <1>3. Holders' = Holders
    BY <1>1 DEF Holders
  <1>4. \A c \in InstantChannels : <<t, c>> \notin Waiters \union Holders
    BY <1>1 DEF Waiters, Holders
  <1> QED
    BY <1>2, <1>3, <1>4 DEF Turns!Ask, Waiters, Holders

LEMMA TurnTakes ==
    ASSUME TypeOK, PastIsHolder, NEW t \in Instants, TakeTurn(t),
           NEW ch \in InstantChannels, target[t] = ch
    PROVE  Turns!Take(t, ch)
  <1>1. /\ call[t] = "queued" /\ call'[t] = "ready" /\ target' = target /\ turn[ch] = NoCall
        /\ \A s \in Instants \ {t} : call'[s] = call[s]
    BY DEF TakeTurn, Goto, TypeOK, Calls, callVars
  <1>2. \A p \in Instants \X InstantChannels : p = <<t, ch>> <=> p[1] = t /\ p[2] = ch
    OBVIOUS
  <1>3. Waiters' = Waiters \ {<<t, ch>>}
    BY <1>1, <1>2 DEF Waiters
  <1>4. Holders' = Holders \union {<<t, ch>>}
    BY <1>1, <1>2 DEF Holders
  <1>5. <<t, ch>> \in Waiters
    BY <1>1 DEF Waiters
  <1>6. \A s \in Instants : <<s, ch>> \notin Holders
    BY <1>1, EngineAssumption DEF Holders, PastIsHolder
  <1> QED
    BY <1>3, <1>4, <1>5, <1>6 DEF Turns!Take, Waiters, Holders

LEMMA ReturnGivesBack ==
    ASSUME TypeOK, NEW t \in Instants, Return(t), call[t] \notin {"idle", "queued"},
           NEW ch \in InstantChannels, target[t] = ch
    PROVE  Turns!GiveBack(t, ch)
  <1>1. /\ call'[t] = "idle"
        /\ \A s \in Instants \ {t} : call'[s] = call[s] /\ target'[s] = target[s]
    BY DEF Return, Goto, TypeOK, Calls
  <1>2. \A p \in Instants \X InstantChannels : p = <<t, ch>> <=> p[1] = t /\ p[2] = ch
    OBVIOUS
  <1>3. Waiters' = Waiters
    BY <1>1 DEF Waiters
  <1>4. Holders' = Holders \ {<<t, ch>>}
    BY <1>1, <1>2 DEF Holders
  <1>5. <<t, ch>> \in Holders
    BY DEF Holders
  <1> QED
    BY <1>3, <1>4, <1>5 DEF Turns!GiveBack, Waiters, Holders

\* A PlayInstant that runs has a channel it was asked for.
AskedForItsChannel == \A t \in Instants : call[t] # "idle" => target[t] \in InstantChannels

LEMMA AskedForItsChannelHolds == Spec => []AskedForItsChannel
  <1>1. Init => AskedForItsChannel
    BY DEF Init, AskedForItsChannel, Calls
  <1>2. TypeOK /\ PastIsHolder /\ AskedForItsChannel /\ [Next]_vars => AskedForItsChannel'
    <2> SUFFICES ASSUME TypeOK, PastIsHolder, AskedForItsChannel, [Next]_vars
                 PROVE  AskedForItsChannel'
      OBVIOUS
    <2> USE EngineAssumption
        DEF engine, callVars, feeding, AskedForItsChannel, PastIsHolder, Calls
    <2>1. ASSUME NEW t \in Tracks, Execute(t)
          PROVE  AskedForItsChannel'
      BY <2>1 DEF Execute, Goto, TypeOK
    <2>2. ASSUME NEW t \in Instants, NEW ch \in InstantChannels, PlayInstant(t, ch)
          PROVE  AskedForItsChannel'
      BY <2>2 DEF PlayInstant, Goto, TypeOK
    <2>3. ASSUME NEW t \in Calls, TakeTurn(t) \/ EnsureStarted(t) \/ PickChannel(t)
          PROVE  AskedForItsChannel'
      BY <2>3 DEF TakeTurn, EnsureStarted, PickChannel, Goto, TypeOK
    <2>4. ASSUME NEW t \in Calls, Return(t)
          PROVE  AskedForItsChannel'
      BY <2>4 DEF Return, Goto, TypeOK
    <2>5. ASSUME NEW t \in Calls, StopChannel(t)
          PROVE  AskedForItsChannel'
      BY <2>5 DEF StopChannel, TypeOK
    <2>6. ASSUME NEW t \in Calls,
                 Feed(t) \/ Register(t) \/ Run(t) \/ FeederEnds(t), ~Return(t)
          PROVE  AskedForItsChannel'
      BY <2>6 DEF Feed, Register, Run, FeederEnds, Goto, TypeOK
    <2>7. ASSUME NEW g \in Gens, MixerStart(g) \/ Monitor(g) \/ EncoderExits(g)
          PROVE  AskedForItsChannel'
      BY <2>7 DEF MixerStart, Monitor, EncoderExits
    <2>8. CASE Reset \/ UNCHANGED vars
      BY <2>8 DEF Reset, vars
    <2> QED
      BY <2>1, <2>2, <2>3, <2>4, <2>5, <2>6, <2>7, <2>8
      DEF Next, Proceed, StartFails, Deregister
  <1> QED
    BY <1>1, <1>2, TypeCorrect, PastIsHolderHolds, PTL DEF Spec

\* Theorem: PlayInstants implement the safety part of ChannelTurns (ffmpeg.go:426-428):
\* every step of the engine asks for, takes or gives back one turn, or none.
THEOREM InstantsTurn == Spec => Turns!Spec
  <1>1. Init => Turns!Init
    BY DEF Init, Turns!Init, Calls
  <1>2. TypeOK /\ PastIsHolder /\ AskedForItsChannel /\ [Next]_vars
            => [Turns!Next]_<<Waiters, Holders>>
    <2> SUFFICES ASSUME TypeOK, PastIsHolder, AskedForItsChannel, [Next]_vars
                 PROVE  Turns!Next \/ UNCHANGED <<Waiters, Holders>>
      OBVIOUS
    <2> USE EngineAssumption DEF engine, callVars, feeding, Calls
    <2>1. ASSUME NEW t \in Instants, NEW ch \in InstantChannels, PlayInstant(t, ch)
          PROVE  Turns!Next
      BY <2>1, PlayAsks DEF Turns!Next
    <2>2. ASSUME NEW t \in Instants, TakeTurn(t)
          PROVE  Turns!Next
      <3> PICK ch \in InstantChannels : target[t] = ch
        BY <2>2 DEF TakeTurn, AskedForItsChannel
      <3>1. Turns!Take(t, ch)
        BY <2>2, TurnTakes
      <3> QED
        BY <3>1 DEF Turns!Next
    <2>3. ASSUME NEW t \in Instants, Return(t), call[t] \notin {"idle", "queued"}
          PROVE  Turns!Next
      <3> PICK ch \in InstantChannels : target[t] = ch
        BY <2>3 DEF AskedForItsChannel
      <3>1. Turns!GiveBack(t, ch)
        BY <2>3, ReturnGivesBack
      <3> QED
        BY <3>1 DEF Turns!Next
    <2>4. ASSUME NEW t \in Tracks, Execute(t) \/ TakeTurn(t) \/ Return(t)
          PROVE  UNCHANGED <<Waiters, Holders>>
      BY <2>4, SameSides DEF Execute, TakeTurn, Return, Goto, TypeOK
    <2>5. ASSUME NEW t \in Calls, EnsureStarted(t) \/ PickChannel(t)
          PROVE  UNCHANGED <<Waiters, Holders>>
      BY <2>5, SameSides DEF EnsureStarted, PickChannel, Goto, TypeOK, PastIsHolder
    <2>6. ASSUME NEW t \in Calls, StopChannel(t)
          PROVE  UNCHANGED <<Waiters, Holders>>
      BY <2>6, SameSides DEF StopChannel, TypeOK
    <2>7. ASSUME NEW t \in Calls,
                 Feed(t) \/ Register(t) \/ Run(t) \/ FeederEnds(t), ~Return(t)
          PROVE  UNCHANGED <<Waiters, Holders>>
      BY <2>7, SameSides DEF Feed, Register, Run, FeederEnds, Goto, TypeOK
    <2>8. CASE UNCHANGED callVars
      BY <2>8, SameSides
    <2>9. ASSUME NEW t \in Calls, Proceed(t)
          PROVE  Turns!Next \/ UNCHANGED <<Waiters, Holders>>
      <3>1. CASE Return(t) /\ call[t] \notin {"idle", "queued"}
        BY <3>1, <2>3, <2>4
      <3>2. CASE TakeTurn(t)
        BY <3>2, <2>2, <2>4
      <3>3. StartFails(t) \/ Deregister(t) => Return(t) /\ call[t] \notin {"idle", "queued"}
        BY DEF StartFails, Deregister
      <3>4. Feed(t) => call[t] \notin {"idle", "queued"}
        BY DEF Feed
      <3>5. Register(t) \/ Run(t) \/ FeederEnds(t) => call[t] \notin {"idle", "queued"}
        BY DEF Register, Run, FeederEnds
      <3> QED
        BY <2>9, <3>1, <3>2, <3>3, <3>4, <3>5, <2>5, <2>6, <2>7 DEF Proceed
    <2>10. ASSUME NEW g \in Gens, MixerStart(g) \/ Monitor(g) \/ EncoderExits(g)
           PROVE  UNCHANGED callVars
      BY <2>10 DEF MixerStart, Monitor, EncoderExits
    <2>11. Reset \/ UNCHANGED vars => UNCHANGED callVars
      BY DEF Reset, vars
    <2> QED
      BY <2>1, <2>4, <2>8, <2>9, <2>10, <2>11 DEF Next
  <1> QED
    BY <1>1, <1>2, TypeCorrect, PastIsHolderHolds, AskedForItsChannelHolds, PTL
    DEF Spec, Turns!Spec, Waiters, Holders
=============================================================================
