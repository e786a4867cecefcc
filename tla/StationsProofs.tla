--------------------------- MODULE StationsProofs ---------------------------
(***************************************************************************)
(* Theorems about Stations, for any number of runners, loops and calls.    *)
(***************************************************************************)
EXTENDS Stations, FiniteSetTheorems, TLAPS

\* Every variable keeps its type, what is registered is not stopped, and a loop has a
\* runner exactly while it runs.
THEOREM TypeCorrect == Spec => []TypeOK
  <1>1. Init => TypeOK
    BY StationsAssumption DEF Init, TypeOK
  <1>2. TypeOK /\ [Next]_vars => TypeOK'
    <2> SUFFICES ASSUME TypeOK, [Next]_vars
                 PROVE  TypeOK'
      OBVIOUS
    <2> USE StationsAssumption DEF runners, engines
    <2>1. CASE CreateStation
      BY <2>1 DEF CreateStation, StartLoop, Free, TypeOK
    <2>2. CASE RemoveStation
      BY <2>2 DEF RemoveStation, TypeOK
    <2>3. CASE Update
      BY <2>3 DEF Update, TypeOK
    <2>4. CASE PlayInstant
      BY <2>4 DEF PlayInstant, AddCall, TypeOK
    <2>5. ASSUME NEW isManual \in BOOLEAN, SetMixerMode(isManual)
          PROVE  TypeOK'
      BY <2>5 DEF SetMixerMode, TypeOK
    <2>6. ASSUME NEW l \in Loops, Run(l)
          PROVE  TypeOK'
      BY <2>6 DEF Run, Goto, TypeOK
    <2>7. ASSUME NEW l \in Loops, Boot(l)
          PROVE  TypeOK'
      BY <2>7 DEF Boot, Goto, TypeOK
    <2>8. ASSUME NEW l \in Loops, SilenceEnds(l)
          PROVE  TypeOK'
      BY <2>8 DEF SilenceEnds, Goto, TypeOK
    <2>9. ASSUME NEW l \in Loops, Turn(l)
          PROVE  TypeOK'
      BY <2>9 DEF Turn, Goto, TypeOK
    <2>10. ASSUME NEW l \in Loops, Pop(l)
           PROVE  TypeOK'
      <3>1. CASE Goto(l, "turn") /\ UNCHANGED <<calls, late>>
        BY <2>10, <3>1 DEF Pop, Goto, TypeOK
      <3>2. CASE Goto(l, "wait") /\ Launch(l)
        <4>1. of[l] \in Runners
          BY <2>10 DEF Pop, TypeOK
        <4>2. calls' \in [Runners -> 0 .. MaxCalls] /\ late' \in [Loops -> 0 .. 2]
          BY <3>2, <4>1 DEF Launch, AddCall, TypeOK
        <4> QED
          BY <2>10, <3>2, <4>2 DEF Pop, Goto, TypeOK
      <3> QED
        BY <2>10, <3>1, <3>2 DEF Pop
    <2>11. ASSUME NEW l \in Loops, Wait(l)
           PROVE  TypeOK'
      BY <2>11 DEF Wait, Goto, TypeOK
    <2>12. ASSUME NEW l \in Loops, SelfHeal(l)
           PROVE  TypeOK'
      BY <2>12 DEF SelfHeal, Goto, TypeOK
    <2>13. ASSUME NEW r \in Runners, EnsureStarted(r)
           PROVE  TypeOK'
      BY <2>13 DEF EnsureStarted, Return, TypeOK
    <2>14. ASSUME NEW r \in Runners, StartFails(r)
           PROVE  TypeOK'
      BY <2>14 DEF StartFails, Return, TypeOK
    <2>15. ASSUME NEW r \in Runners, EncoderExits(r)
           PROVE  TypeOK'
      BY <2>15 DEF EncoderExits, TypeOK
    <2>16. CASE UNCHANGED vars
      BY <2>16 DEF vars, TypeOK
    <2> QED
      BY <2>1, <2>2, <2>3, <2>4, <2>5, <2>6, <2>7, <2>8, <2>9, <2>10, <2>11, <2>12, <2>13,
         <2>14, <2>15, <2>16 DEF Next, Proceed, Serve
  <1> QED
    BY <1>1, <1>2, PTL DEF Spec

-----------------------------------------------------------------------------
\* Before it pops, a loop has launched nothing since the stop or the change to manual: it
\* looks at both at the top of every turn.
PopsOnTime ==
    \A l \in Loops : loop[l] = "pop" /\ of[l] \in stopped \union manual => late[l] = 0

\* Theorem: runLoop launches at most one track after a stop or a change to manual mode,
\* for any number of loops and requests.
THEOREM LateTracksAreSingle == Spec => []AtMostOneLateTrack
  <1> DEFINE Inv == TypeOK /\ AtMostOneLateTrack /\ PopsOnTime
  <1>1. Init => AtMostOneLateTrack /\ PopsOnTime
    BY DEF Init, AtMostOneLateTrack, PopsOnTime
  <1>2. Inv /\ [Next]_vars => (AtMostOneLateTrack /\ PopsOnTime)'
    <2> SUFFICES ASSUME TypeOK, AtMostOneLateTrack, PopsOnTime, [Next]_vars
                 PROVE  (AtMostOneLateTrack /\ PopsOnTime)'
      OBVIOUS
    <2> USE StationsAssumption DEF runners, engines, AtMostOneLateTrack, PopsOnTime
    <2>1. CASE CreateStation
      BY <2>1 DEF CreateStation, StartLoop, Free, LoopsOf, TypeOK
    <2>2. CASE RemoveStation
      BY <2>2 DEF RemoveStation, TypeOK
    <2>3. ASSUME NEW isManual \in BOOLEAN, SetMixerMode(isManual)
          PROVE  (AtMostOneLateTrack /\ PopsOnTime)'
      BY <2>3 DEF SetMixerMode, TypeOK
    <2>4. CASE Update \/ PlayInstant
      BY <2>4 DEF Update, PlayInstant, TypeOK
    <2>5. ASSUME NEW l \in Loops, Run(l)
          PROVE  (AtMostOneLateTrack /\ PopsOnTime)'
      BY <2>5 DEF Run, Goto, TypeOK
    <2>6. ASSUME NEW l \in Loops, Turn(l)
          PROVE  (AtMostOneLateTrack /\ PopsOnTime)'
      <3>1. CASE of[l] \in stopped \union manual
        BY <2>6, <3>1 DEF Turn, Goto, TypeOK
      <3>2. CASE of[l] \notin stopped \union manual
        BY <2>6, <3>2 DEF Turn, Goto, TypeOK
      <3> QED
        BY <3>1, <3>2
    <2>7. ASSUME NEW l \in Loops, Pop(l)
          PROVE  (AtMostOneLateTrack /\ PopsOnTime)'
      <3>1. CASE Goto(l, "turn") /\ UNCHANGED <<calls, late>>
        BY <2>7, <3>1 DEF Pop, Goto, TypeOK
      <3>2. CASE Goto(l, "wait") /\ Launch(l)
        <4>1. of[l] \in stopped \union manual => late[l] = 0
          BY <2>7 DEF Pop
        <4> QED
          BY <2>7, <3>2, <4>1 DEF Pop, Goto, Launch, TypeOK
      <3> QED
        BY <2>7, <3>1, <3>2 DEF Pop
    <2>8. ASSUME NEW l \in Loops, Boot(l) \/ SilenceEnds(l) \/ Wait(l) \/ SelfHeal(l)
          PROVE  (AtMostOneLateTrack /\ PopsOnTime)'
      BY <2>8 DEF Boot, SilenceEnds, Wait, SelfHeal, Goto, TypeOK
    <2>9. ASSUME NEW r \in Runners, Serve(r) \/ EncoderExits(r)
          PROVE  (AtMostOneLateTrack /\ PopsOnTime)'
      BY <2>9 DEF Serve, EnsureStarted, StartFails, EncoderExits, TypeOK
    <2>10. CASE UNCHANGED vars
      BY <2>10 DEF vars
    <2> QED
      BY <2>1, <2>2, <2>3, <2>4, <2>5, <2>6, <2>7, <2>8, <2>9, <2>10 DEF Next, Proceed
  <1> QED
    BY <1>1, <1>2, TypeCorrect, PTL DEF Spec

-----------------------------------------------------------------------------
\* Whatever runs, or may still start something, is registered or was stopped.
KnownOrStopped ==
    /\ on \subseteq stopped \union {registered}
    /\ \A l \in Loops : of[l] \in stopped \union {registered, NoRunner}
    /\ \A r \in Runners : calls[r] > 0 => r \in stopped \union {registered}

LEMMA KnownOrStoppedHolds == Spec => []KnownOrStopped
  <1>1. Init => KnownOrStopped
    BY DEF Init, KnownOrStopped
  <1>2. TypeOK /\ TypeOK' /\ KnownOrStopped /\ [Next]_vars => KnownOrStopped'
    <2> SUFFICES ASSUME TypeOK, TypeOK', KnownOrStopped, [Next]_vars
                 PROVE  KnownOrStopped'
      OBVIOUS
    <2> USE StationsAssumption DEF runners, engines, KnownOrStopped
    <2>1. CASE CreateStation
      <3> PICK r \in Runners : /\ r = registered \/ (registered = NoRunner /\ Free(r))
                               /\ registered' = r
                               /\ StartLoop(r)
                               /\ UNCHANGED <<engines, calls, late>>
                               /\ stopped \ {r} \subseteq stopped'
        BY <2>1 DEF CreateStation
      <3>1. registered # NoRunner => r = registered
        OBVIOUS
      <3> QED
        BY <3>1 DEF StartLoop, Free, LoopsOf, TypeOK
    <2>2. CASE RemoveStation
      BY <2>2 DEF RemoveStation, TypeOK
    <2>3. CASE Update
      BY <2>3 DEF Update, TypeOK
    <2>4. CASE PlayInstant
      BY <2>4 DEF PlayInstant, AddCall, TypeOK
    <2>5. ASSUME NEW isManual \in BOOLEAN, SetMixerMode(isManual)
          PROVE  KnownOrStopped'
      BY <2>5 DEF SetMixerMode, TypeOK
    <2>6. ASSUME NEW l \in Loops, Run(l)
          PROVE  KnownOrStopped'
      BY <2>6 DEF Run, Goto, TypeOK
    <2>7. ASSUME NEW l \in Loops, Boot(l)
          PROVE  KnownOrStopped'
      <3>1. of[l] \in stopped \union {registered}
        BY <2>7 DEF Boot, TypeOK
      <3> QED
        BY <2>7, <3>1 DEF Boot, TypeOK
    <2>8. ASSUME NEW l \in Loops, Pop(l)
          PROVE  KnownOrStopped'
      <3>1. of[l] \in Runners /\ of[l] \in stopped \union {registered}
        BY <2>8 DEF Pop, TypeOK
      <3>2. CASE calls' = calls
        BY <2>8, <3>2 DEF Pop, TypeOK
      <3>3. CASE AddCall(of[l])
        BY <2>8, <3>1, <3>3 DEF Pop, AddCall, TypeOK
      <3> QED
        BY <2>8, <3>2, <3>3 DEF Pop, Launch
    <2>9. ASSUME NEW l \in Loops, SilenceEnds(l) \/ Turn(l) \/ Wait(l) \/ SelfHeal(l)
          PROVE  KnownOrStopped'
      BY <2>9 DEF SilenceEnds, Turn, Wait, SelfHeal, TypeOK
    <2>10. ASSUME NEW r \in Runners, Serve(r)
           PROVE  KnownOrStopped'
      <3>1. r \in stopped \union {registered}
        BY <2>10 DEF Serve, EnsureStarted, StartFails, Return
      <3>2. \A s \in Runners : calls'[s] > 0 => s = r \/ calls[s] > 0
        BY <2>10 DEF Serve, EnsureStarted, StartFails, Return, TypeOK
      <3> QED
        BY <2>10, <3>1, <3>2 DEF Serve, EnsureStarted, StartFails, TypeOK
    <2>11. ASSUME NEW r \in Runners, EncoderExits(r)
           PROVE  KnownOrStopped'
      BY <2>11 DEF EncoderExits, TypeOK
    <2>12. CASE UNCHANGED vars
      BY <2>12 DEF vars
    <2> QED
      BY <2>1, <2>2, <2>3, <2>4, <2>5, <2>6, <2>7, <2>8, <2>9, <2>10, <2>11, <2>12
      DEF Next, Proceed
  <1> QED
    BY <1>1, <1>2, TypeCorrect, PTL DEF Spec

\* Theorem: of the encoders that write to a station's directory at most one belongs to a
\* runner that was not removed, however often the station was created and removed.
THEOREM OneEncoderRuns == Spec => []OneEncoderPerDirectory
  <1>1. KnownOrStopped => OneEncoderPerDirectory
    <2> SUFFICES ASSUME KnownOrStopped
                 PROVE  OneEncoderPerDirectory
      OBVIOUS
    <2>1. on \ stopped \subseteq {registered}
      BY DEF KnownOrStopped
    <2>2. IsFiniteSet({registered}) /\ Cardinality({registered}) = 1
      BY FS_Singleton
    <2>3. Cardinality(on \ stopped) <= Cardinality({registered})
      BY <2>1, <2>2, FS_Subset
    <2> QED
      BY <2>2, <2>3 DEF OneEncoderPerDirectory
  <1> QED
    BY <1>1, KnownOrStoppedHolds, PTL

-----------------------------------------------------------------------------
\* An engine that no call started was started by the boot of a loop that will heal it.
BootedIsHealed ==
    \A r \in on \ called :
        \E l \in LoopsOf(r) : loop[l] \in {"silence", "turn", "pop", "wait", "heal"}

LEMMA BootedIsHealedHolds == Spec => []BootedIsHealed
  <1>1. Init => BootedIsHealed
    BY DEF Init, BootedIsHealed
  <1>2. TypeOK /\ BootedIsHealed /\ [Next]_vars => BootedIsHealed'
    <2> SUFFICES ASSUME TypeOK, BootedIsHealed, [Next]_vars
                 PROVE  BootedIsHealed'
      OBVIOUS
    <2> USE StationsAssumption DEF runners, engines, BootedIsHealed, LoopsOf
    <2>1. CASE CreateStation
      BY <2>1 DEF CreateStation, StartLoop, TypeOK
    <2>2. CASE RemoveStation \/ PlayInstant
      BY <2>2 DEF RemoveStation, PlayInstant
    <2>3. CASE Update
      BY <2>3 DEF Update
    <2>4. ASSUME NEW isManual \in BOOLEAN, SetMixerMode(isManual)
          PROVE  BootedIsHealed'
      BY <2>4 DEF SetMixerMode
    <2>5. ASSUME NEW l \in Loops, Run(l)
          PROVE  BootedIsHealed'
      BY <2>5 DEF Run, Goto, TypeOK
    <2>6. ASSUME NEW l \in Loops, Boot(l)
          PROVE  BootedIsHealed'
      BY <2>6 DEF Boot, Goto, TypeOK
    <2>7. ASSUME NEW l \in Loops, SilenceEnds(l) \/ Turn(l) \/ Pop(l) \/ Wait(l)
          PROVE  BootedIsHealed'
      <3>1. /\ loop[l] \in {"silence", "turn", "pop", "wait"}
            /\ \E s \in {"turn", "pop", "wait", "heal"} : Goto(l, s)
            /\ UNCHANGED <<on, called, of>>
        BY <2>7 DEF SilenceEnds, Turn, Pop, Wait
      <3> QED
        BY <3>1 DEF Goto, TypeOK
    <2>8. ASSUME NEW l \in Loops, SelfHeal(l)
          PROVE  BootedIsHealed'
      BY <2>8 DEF SelfHeal, Goto, TypeOK
    <2>9. ASSUME NEW r \in Runners, Serve(r) \/ EncoderExits(r)
          PROVE  BootedIsHealed'
      BY <2>9 DEF Serve, EnsureStarted, StartFails, EncoderExits
    <2>10. CASE UNCHANGED vars
      BY <2>10 DEF vars
    <2> QED
      BY <2>1, <2>2, <2>3, <2>4, <2>5, <2>6, <2>7, <2>8, <2>9, <2>10 DEF Next, Proceed
  <1> QED
    BY <1>1, <1>2, TypeCorrect, PTL DEF Spec

\* Theorem: an encoder that runs when the loops of its removed runner have ended was
\* started by a track or a PlayInstant: a loop resets the engine that its boot started.
THEOREM RemovedEngineWasCalled == Spec => []RemovedEngineNeedsCall
  <1>1. TypeOK /\ BootedIsHealed => RemovedEngineNeedsCall
    BY DEF BootedIsHealed, RemovedEngineNeedsCall, TypeOK
  <1> QED
    BY <1>1, TypeCorrect, BootedIsHealedHolds, PTL
=============================================================================
