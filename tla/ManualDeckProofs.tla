-------------------------- MODULE ManualDeckProofs --------------------------
(***************************************************************************)
(* Theorems about ManualDeck, for any number of files and requests.        *)
(***************************************************************************)
EXTENDS ManualDeck, TLAPS

\* Every variable keeps its type, and whoever is between taking and releasing the
\* channel's mutex holds it (ffmpeg.go:550-551 and 681-682).
THEOREM TypeCorrect == Spec => []TypeOK
  <1>1. Init => TypeOK
    BY DeckAssumption DEF Init, TypeOK, Holding
  <1>2. TypeOK /\ [Next]_vars => TypeOK'
    <2> SUFFICES ASSUME TypeOK, [Next]_vars
                 PROVE  TypeOK'
      OBVIOUS
    <2>1. ASSUME NEW isManual \in BOOLEAN, SetMixerMode(isManual)
          PROVE  TypeOK'
      BY <2>1 DEF SetMixerMode, TypeOK, deck
    <2>2. CASE ResetManualState
      BY <2>2 DEF ResetManualState, TypeOK
    <2>3. CASE Drain
      BY <2>3 DEF Drain, TypeOK, mode, deck
    <2>4. ASSUME NEW f \in Files \union {NoFile}, SetMixerStandby(f)
          PROVE  TypeOK'
      BY <2>4 DEF SetMixerStandby, TypeOK, mode
    <2>5. ASSUME NEW t \in Calls, PlayChannel(t)
          PROVE  TypeOK'
      BY <2>5, DeckAssumption DEF PlayChannel, Queue, Goto, TypeOK, mode, Holding
    <2>6. ASSUME NEW t \in Calls, PauseChannel(t)
          PROVE  TypeOK'
      BY <2>6, DeckAssumption DEF PauseChannel, Goto, TypeOK, mode, Holding
    <2>7. ASSUME NEW t \in Calls, RewindChannel(t)
          PROVE  TypeOK'
      BY <2>7, DeckAssumption DEF RewindChannel, Queue, Goto, TypeOK, mode, deck, Holding
    <2>8. ASSUME NEW t \in Calls, TakeTurn(t)
          PROVE  TypeOK'
      BY <2>8, DeckAssumption DEF TakeTurn, Goto, TypeOK, mode, deck, Holding
    <2>9. ASSUME NEW t \in Calls, StopChannel(t)
          PROVE  TypeOK'
      BY <2>9, DeckAssumption DEF StopChannel, TypeOK, mode, deck, Holding
    <2>10. ASSUME NEW t \in Calls, Register(t)
           PROVE  TypeOK'
      BY <2>10 DEF Register, Goto, TypeOK, mode, deck, Holding
    <2>11. ASSUME NEW t \in Calls, Run(t)
           PROVE  TypeOK'
      BY <2>11 DEF Run, Goto, TypeOK, mode, deck, Holding
    <2>12. ASSUME NEW t \in Calls, Write(t)
           PROVE  TypeOK'
      BY <2>12 DEF Write, TypeOK, mode, deck
    <2>13. ASSUME NEW t \in Calls, FeederEnds(t)
           PROVE  TypeOK'
      BY <2>13 DEF FeederEnds, Writes, Goto, TypeOK, mode, deck, Holding
    <2>14. ASSUME NEW t \in Calls, Deregister(t)
           PROVE  TypeOK'
      BY <2>14 DEF Deregister, Goto, TypeOK, mode, deck, Holding
    <2>15. ASSUME NEW t \in Calls, Clear(t)
           PROVE  TypeOK'
      BY <2>15, DeckAssumption DEF Clear, Forget, Goto, TypeOK, mode, Holding
    <2>16. CASE UNCHANGED vars
      BY <2>16 DEF vars, TypeOK
    <2> QED
      BY <2>1, <2>2, <2>3, <2>4, <2>5, <2>6, <2>7, <2>8, <2>9, <2>10, <2>11, <2>12, <2>13,
         <2>14, <2>15, <2>16 DEF Next, Proceed
  <1> QED
    BY <1>1, <1>2, PTL DEF Spec

\* From its registration to its end the feeder of the goroutine that has the turn is
\* the one in channelCmds.
RegisteredIsFound ==
    \A t \in Calls : pc[t] \in {"registered", "running", "signalled", "ended"} => cmd = t

\* A file that is shown and not paused has a goroutine that will clear it.
ShownIsServed ==
    current # NoFile /\ ~paused => \E t \in Calls : pc[t] \in {"wait"} \union Holding

\* The inductive invariant.  One feeder at a time needs that only the holder of the
\* mutex runs one, a part of TypeOK, and that Deregister leaves others' alone.
Inv == TypeOK /\ RegisteredIsFound /\ ShownIsServed

\* A call that moves on without leaving Holding and "wait", while the deck stays or
\* is emptied, leaves the shown file served.
LEMMA StillServed ==
    ASSUME ShownIsServed, UNCHANGED <<current, paused>>,
           \A t \in Calls : pc[t] \in {"wait"} \union Holding => pc'[t] \in {"wait"} \union Holding
    PROVE  ShownIsServed'
  BY DEF ShownIsServed

\* Init implies the invariant and every action of ManualDeck preserves it.
LEMMA InvInductive == Spec => []Inv
  <1>1. Init => RegisteredIsFound /\ ShownIsServed
    BY DEF Init, RegisteredIsFound, ShownIsServed
  <1>2. TypeOK /\ RegisteredIsFound /\ ShownIsServed /\ [Next]_vars
            => RegisteredIsFound' /\ ShownIsServed'
    <2> SUFFICES ASSUME TypeOK, RegisteredIsFound, ShownIsServed, [Next]_vars
                 PROVE  RegisteredIsFound' /\ ShownIsServed'
      OBVIOUS
    <2>1. ASSUME NEW isManual \in BOOLEAN, SetMixerMode(isManual)
          PROVE  RegisteredIsFound' /\ ShownIsServed'
      BY <2>1 DEF SetMixerMode, RegisteredIsFound, ShownIsServed, deck
    <2>2. CASE ResetManualState
      BY <2>2 DEF ResetManualState, RegisteredIsFound, ShownIsServed
    <2>3. CASE Drain
      BY <2>3 DEF Drain, RegisteredIsFound, ShownIsServed, deck
    <2>4. ASSUME NEW f \in Files \union {NoFile}, SetMixerStandby(f)
          PROVE  RegisteredIsFound' /\ ShownIsServed'
      BY <2>4 DEF SetMixerStandby, RegisteredIsFound, ShownIsServed
    <2>5. ASSUME NEW t \in Calls, PlayChannel(t)
          PROVE  RegisteredIsFound' /\ ShownIsServed'
      BY <2>5 DEF PlayChannel, Queue, Goto, TypeOK, RegisteredIsFound, ShownIsServed
    <2>6. ASSUME NEW t \in Calls, PauseChannel(t)
          PROVE  RegisteredIsFound' /\ ShownIsServed'
      BY <2>6 DEF PauseChannel, Goto, TypeOK, RegisteredIsFound, ShownIsServed
    <2>7. ASSUME NEW t \in Calls, RewindChannel(t)
          PROVE  RegisteredIsFound' /\ ShownIsServed'
      BY <2>7 DEF RewindChannel, Queue, Goto, TypeOK, RegisteredIsFound, ShownIsServed, deck
    <2>8. ASSUME NEW t \in Calls, TakeTurn(t)
          PROVE  RegisteredIsFound' /\ ShownIsServed'
      <3>1. RegisteredIsFound'
        BY <2>8 DEF TakeTurn, Goto, TypeOK, RegisteredIsFound
      <3>2. ShownIsServed'
        BY <2>8, StillServed DEF TakeTurn, Goto, TypeOK, Holding, deck
      <3> QED
        BY <3>1, <3>2
    <2>9. ASSUME NEW t \in Calls, StopChannel(t)
          PROVE  RegisteredIsFound' /\ ShownIsServed'
      <3>1. RegisteredIsFound'
        BY <2>9 DEF StopChannel, TypeOK, RegisteredIsFound
      <3>2. ShownIsServed'
        BY <2>9, StillServed DEF StopChannel, TypeOK, Holding, deck
      <3> QED
        BY <3>1, <3>2
    <2>10. ASSUME NEW t \in Calls, Register(t)
           PROVE  RegisteredIsFound' /\ ShownIsServed'
      <3>1. \A s \in Calls \ {t} : pc'[s] \notin Holding
        BY <2>10 DEF Register, Goto, TypeOK, Holding
      <3>2. RegisteredIsFound'
        BY <2>10, <3>1 DEF Register, RegisteredIsFound, Holding
      <3>3. ShownIsServed'
        BY <2>10, StillServed DEF Register, Goto, TypeOK, Holding, deck
      <3> QED
        BY <3>2, <3>3
    <2>11. ASSUME NEW t \in Calls, Run(t)
           PROVE  RegisteredIsFound' /\ ShownIsServed'
      <3>1. RegisteredIsFound'
        BY <2>11 DEF Run, Goto, TypeOK, RegisteredIsFound
      <3>2. ShownIsServed'
        BY <2>11, StillServed DEF Run, Goto, TypeOK, Holding, deck
      <3> QED
        BY <3>1, <3>2
    <2>12. ASSUME NEW t \in Calls, Write(t)
           PROVE  RegisteredIsFound' /\ ShownIsServed'
      BY <2>12 DEF Write, RegisteredIsFound, ShownIsServed, deck
    <2>13. ASSUME NEW t \in Calls, FeederEnds(t)
           PROVE  RegisteredIsFound' /\ ShownIsServed'
      <3>1. RegisteredIsFound'
        BY <2>13 DEF FeederEnds, Writes, Goto, TypeOK, RegisteredIsFound
      <3>2. ShownIsServed'
        BY <2>13, StillServed DEF FeederEnds, Goto, TypeOK, Holding, deck
      <3> QED
        BY <3>1, <3>2
    <2>14. ASSUME NEW t \in Calls, Deregister(t)
           PROVE  RegisteredIsFound' /\ ShownIsServed'
      <3>1. \A s \in Calls \ {t} : pc'[s] \notin Holding
        BY <2>14 DEF Deregister, Goto, TypeOK, Holding
      <3>2. pc'[t] = "clear"
        BY <2>14 DEF Deregister, Goto, TypeOK
      <3>3. RegisteredIsFound'
        BY <3>1, <3>2 DEF RegisteredIsFound, Holding
      <3>4. ShownIsServed'
        BY <2>14, StillServed DEF Deregister, Goto, TypeOK, Holding, deck
      <3> QED
        BY <3>3, <3>4
    <2>15. ASSUME NEW t \in Calls, Clear(t)
           PROVE  RegisteredIsFound' /\ ShownIsServed'
      <3>1. RegisteredIsFound'
        BY <2>15 DEF Clear, Goto, TypeOK, RegisteredIsFound
      <3>2. ShownIsServed'
        BY <2>15 DEF Clear, ShownIsServed
      <3> QED
        BY <3>1, <3>2
    <2>16. CASE UNCHANGED vars
      BY <2>16 DEF vars, RegisteredIsFound, ShownIsServed
    <2> QED
      BY <2>1, <2>2, <2>3, <2>4, <2>5, <2>6, <2>7, <2>8, <2>9, <2>10, <2>11, <2>12, <2>13,
         <2>14, <2>15, <2>16 DEF Next, Proceed
  <1> QED
    BY <1>1, <1>2, TypeCorrect, PTL DEF Spec, Inv

\* However many plays, resumes and rewinds queue for a channel, one of them feeds it
\* at a time, and a pause finds the one that does.
THEOREM OneFeederFeeds == Spec => []OneDeckFeeder
  <1>1. Inv => OneDeckFeeder
    BY DEF Inv, TypeOK, RegisteredIsFound, OneDeckFeeder, Writes
  <1> QED
    BY <1>1, InvInductive, PTL

\* A deck on which nothing plays, waits or is paused is empty: no order of loads,
\* resets, pauses and ends of tracks leaves a file behind (ffmpeg.go:577-585).
THEOREM QuietDeckStaysEmpty == Spec => []QuietDeckIsEmpty
  <1>1. Inv => QuietDeckIsEmpty
    BY DEF Inv, ShownIsServed, QuietDeckIsEmpty, Holding
  <1> QED
    BY <1>1, InvInductive, PTL

-----------------------------------------------------------------------------
Waiters == {t \in Calls : pc[t] = "wait"} \X {0}
Holders == {t \in Calls : pc[t] \in Holding} \X {0}

\* A step that lets every goroutine stay on its side of the mutex is a stutter.
LEMMA SameSides ==
    ASSUME \A t \in Calls : pc'[t] = "wait" <=> pc[t] = "wait",
           \A t \in Calls : pc'[t] \in Holding <=> pc[t] \in Holding
    PROVE  UNCHANGED <<Waiters, Holders>>
  BY DEF Waiters, Holders

LEMMA QueueAsks ==
    ASSUME TypeOK, NEW t \in Calls, pc[t] = "idle", Goto(t, "wait")
    PROVE  Turns!Ask(t, 0)
  <1>1. pc'[t] = "wait" /\ \A s \in Calls \ {t} : pc'[s] = pc[s]
    BY DEF Goto, TypeOK
  <1>2. Waiters' = Waiters \union {<<t, 0>>}
    BY <1>1 DEF Waiters
  <1>3. Holders' = Holders
    BY <1>1 DEF Holders, Holding
  <1>4. <<t, 0>> \notin Waiters \union Holders
    BY DEF Waiters, Holders, Holding
  <1> QED
    BY <1>2, <1>3, <1>4 DEF Turns!Ask, Waiters, Holders

LEMMA TurnTakes ==
    ASSUME TypeOK, NEW t \in Calls, TakeTurn(t)
    PROVE  Turns!Take(t, 0)
  <1>1. /\ pc[t] = "wait" /\ pc'[t] = "stop"
        /\ \A s \in Calls \ {t} : pc'[s] = pc[s]
    BY DEF TakeTurn, Goto, TypeOK
  <1>2. \A s \in Calls : pc[s] \notin Holding
    BY DeckAssumption DEF TakeTurn, TypeOK
  <1>3. Waiters' = Waiters \ {<<t, 0>>}
    BY <1>1 DEF Waiters
  <1>4. Holders' = Holders \union {<<t, 0>>}
    BY <1>1 DEF Holders, Holding
  <1>5. <<t, 0>> \in Waiters /\ \A s \in Calls : <<s, 0>> \notin Holders
    BY <1>1, <1>2 DEF Waiters, Holders
  <1> QED
    BY <1>3, <1>4, <1>5 DEF Turns!Take, Waiters, Holders

LEMMA ClearGivesBack ==
    ASSUME TypeOK, NEW t \in Calls, Clear(t)
    PROVE  Turns!GiveBack(t, 0)
  <1>1. /\ pc[t] = "clear" /\ pc'[t] = "idle"
        /\ \A s \in Calls \ {t} : pc'[s] = pc[s]
    BY DEF Clear, Goto, TypeOK
  <1>2. Waiters' = Waiters
    BY <1>1 DEF Waiters
  <1>3. Holders' = Holders \ {<<t, 0>>}
    BY <1>1 DEF Holders, Holding
  <1>4. <<t, 0>> \in Holders
    BY <1>1 DEF Holders, Holding
  <1> QED
    BY <1>2, <1>3, <1>4 DEF Turns!GiveBack, Waiters, Holders

\* Theorem: the deck implements the safety part of ChannelTurns: what its mutex gives
\* to plays and rewinds (ffmpeg.go:550, 681) are turns, one at a time, each asked for
\* before it is taken and given back before the next.
THEOREM DeckTakesTurns == Spec => Turns!Spec
  <1>1. Init => Turns!Init
    BY DEF Init, Turns!Init, Holding
  <1>2. TypeOK /\ [Next]_vars => [Turns!Next]_<<Waiters, Holders>>
    <2> SUFFICES ASSUME TypeOK, [Next]_vars
                 PROVE  Turns!Next \/ UNCHANGED <<Waiters, Holders>>
      OBVIOUS
    <2>1. ASSUME NEW t \in Calls, PlayChannel(t) \/ RewindChannel(t)
          PROVE  Turns!Next
      <3>1. Turns!Ask(t, 0)
        BY <2>1, QueueAsks DEF PlayChannel, RewindChannel, Queue
      <3> QED
        BY <3>1 DEF Turns!Next
    <2>2. ASSUME NEW t \in Calls, TakeTurn(t)
          PROVE  Turns!Next
      BY <2>2, TurnTakes DEF Turns!Next
    <2>3. ASSUME NEW t \in Calls, Clear(t)
          PROVE  Turns!Next
      BY <2>3, ClearGivesBack DEF Turns!Next
    <2>4. ASSUME NEW t \in Calls, PauseChannel(t)
          PROVE  UNCHANGED <<Waiters, Holders>>
      BY <2>4, SameSides DEF PauseChannel, Goto, TypeOK, Holding
    <2>5. ASSUME NEW t \in Calls, StopChannel(t)
          PROVE  UNCHANGED <<Waiters, Holders>>
      BY <2>5, SameSides DEF StopChannel, TypeOK, Holding
    <2>6. ASSUME NEW t \in Calls,
                 Register(t) \/ Run(t) \/ FeederEnds(t) \/ Deregister(t)
          PROVE  UNCHANGED <<Waiters, Holders>>
      <3>1. /\ pc[t] \in Holding \ {"stop", "clear"}
            /\ \E s \in Holding : Goto(t, s)
        BY <2>6 DEF Register, Run, FeederEnds, Writes, Deregister, Holding
      <3> QED
        BY <3>1, SameSides DEF Goto, TypeOK, Holding
    <2>7. CASE pc' = pc
      BY <2>7, SameSides
    <2> QED
      BY <2>1, <2>2, <2>3, <2>4, <2>5, <2>6, <2>7
      DEF Next, Proceed, SetMixerMode, ResetManualState, Drain, SetMixerStandby, Write, vars
  <1> QED
    BY <1>1, <1>2, TypeCorrect, PTL DEF Spec, Turns!Spec, Waiters, Holders
=============================================================================
