------------------------- MODULE SmartInjectProofs -------------------------
(***************************************************************************)
(* Theorems about SmartInject, for any channels, announcements and number  *)
(* of requests.                                                            *)
(***************************************************************************)
EXTENDS SmartInject, TLAPS

\* The clamp of SetVolume and RestoreVolume (mixer.go:50-51, 81-82): a level from
\* 0 to the top, and the level itself if it lies there.
LEMMA ClampRange ==
    ASSUME NEW v \in Int, NEW top \in Nat
    PROVE  /\ Clamp(v, top) \in 0 .. top
           /\ v \in 0 .. top => Clamp(v, top) = v
  BY DEF Clamp

LEMMA FullIsALevel == Full \in Levels /\ MaxLevel \in Nat /\ Full \in Nat /\ Full <= MaxLevel
  BY SmartInjectAssumption DEF Levels

\* A SetVolume keeps the types of the faders, tokens and owners, whoever does it.
LEMMA SetVolumeType ==
    ASSUME TypeOK, NEW ch \in Channels, NEW v \in Int,
           NEW who \in Injects \union {Operator}, SetVolume(ch, v, who)
    PROVE  /\ clock' \in Nat /\ clock <= clock'
           /\ fader' \in [Channels -> [goal : Levels, token : 0 .. clock']]
           /\ owner' \in [Channels -> Injects \union {Operator, NoOne}]
  <1>1. CASE mixer = 0
    BY <1>1 DEF SetVolume, TypeOK
  <1>2. CASE mixer # 0
    <2>1. Clamp(v, MaxLevel) \in Levels
      BY ClampRange, FullIsALevel DEF Levels
    <2>2. clock' = clock + 1 /\ clock \in Nat
      BY <1>2 DEF SetVolume, TypeOK
    <2>3. fader \in [Channels -> [goal : Levels, token : 0 .. clock']]
      BY <2>2 DEF TypeOK
    <2>4. [goal |-> Clamp(v, MaxLevel), token |-> clock'] \in [goal : Levels, token : 0 .. clock']
      BY <2>1, <2>2
    <2>5. fader' \in [Channels -> [goal : Levels, token : 0 .. clock']]
      BY <1>2, <2>3, <2>4 DEF SetVolume
    <2>6. owner' \in [Channels -> Injects \union {Operator, NoOne}]
      BY <1>2 DEF SetVolume, TypeOK
    <2> QED
      BY <2>2, <2>5, <2>6
  <1> QED
    BY <1>1, <1>2

\* Tokens stay below the clock when the clock goes on.
LEMMA TokensBelow ==
    ASSUME TypeOK, clock' \in Nat, clock <= clock'
    PROVE  token \in [Injects -> [Channels -> 0 .. clock']]
  BY DEF TypeOK

\* Every variable keeps its type: the levels of the faders stay from 0 to 2.0, which
\* SetVolume clamps (mixer.go:50-51), and what is restored is 1.0 or more.
THEOREM TypeCorrect == Spec => []TypeOK
  <1>1. Init => TypeOK
    <2> SUFFICES ASSUME Init PROVE TypeOK
      OBVIOUS
    <2>1. fader \in [Channels -> [goal : Levels, token : 0 .. clock]]
      BY FullIsALevel DEF Init, NewFader
    <2>2. req \in [Injects -> Requests \union {NoRequest}]
      BY DEF Init
    <2>3. /\ stage \in [Injects -> [Channels -> {"none", "todo", "read", "sleep", "set", "back"}]]
          /\ \A j \in Injects, ch \in Channels : stage[j][ch] = "none"
      BY DEF Init
    <2>4. /\ origVol \in [Injects -> [Channels -> Full .. MaxLevel]]
          /\ token \in [Injects -> [Channels -> 0 .. clock]]
          /\ owner \in [Channels -> Injects \union {Operator, NoOne}]
      BY FullIsALevel DEF Init
    <2>5. \A j \in Injects : req[j] = NoRequest /\ pc[j] = "idle"
      BY DEF Init
    <2>6. pc \in [Injects -> {"idle", "silence", "duck", "restore", "done"}]
      BY DEF Init
    <2>7. mixer \in 0 .. ops + 1 /\ clock \in Nat /\ ops \in 0 .. MaxOps
      BY SmartInjectAssumption DEF Init
    <2>8. manual \in BOOLEAN /\ muting \subseteq Channels
      BY DEF Init
    <2> QED
      BY <2>1, <2>2, <2>3, <2>4, <2>5, <2>6, <2>7, <2>8 DEF TypeOK
  <1>2. TypeOK /\ [Next]_vars => TypeOK'
    <2> SUFFICES ASSUME TypeOK, [Next]_vars
                 PROVE  TypeOK'
      OBVIOUS
    <2>1. CASE NewMixer
      <3>1. NewFader \in [goal : Levels, token : 0 .. clock]
        BY FullIsALevel DEF NewFader, TypeOK
      <3>2. mixer' \in 0 .. ops' + 1 /\ ops' \in 0 .. MaxOps
        BY <2>1, SmartInjectAssumption DEF NewMixer, TypeOK
      <3> QED
        BY <2>1, <3>1, <3>2 DEF NewMixer, TypeOK, goroutines
    <2>2. ASSUME NEW ch \in Channels, NEW v \in Asked, MixerVolume(ch, v)
          PROVE  TypeOK'
      BY <2>2, SetVolumeType, TokensBelow, SmartInjectAssumption
      DEF MixerVolume, TypeOK, goroutines
    <2>3. ASSUME NEW isManual \in BOOLEAN, SetMixerMode(isManual)
          PROVE  TypeOK'
      BY <2>3, SmartInjectAssumption DEF SetMixerMode, TypeOK, goroutines
    <2>4. CASE SilenceNext
      <3>1. PICK ch \in muting : muting' = muting \ {ch} /\ SetVolume(ch, 0, Operator)
        BY <2>4 DEF SilenceNext
      <3>2. ch \in Channels
        BY DEF TypeOK
      <3> QED
        BY <2>4, <3>1, <3>2, SetVolumeType, TokensBelow DEF SilenceNext, TypeOK, goroutines
    <2>5. ASSUME NEW j \in Injects, NEW r \in Requests, Breaking(j, r)
          PROVE  TypeOK'
      BY <2>5, SmartInjectAssumption DEF Breaking, TypeOK, mode
    <2>6. ASSUME NEW j \in Injects, SilenceTarget(j)
          PROVE  TypeOK'
      <3>1. req[j] \in Requests /\ req[j].target \in Channels
        BY <2>6, SmartInjectAssumption DEF SilenceTarget, TypeOK
      <3> QED
        BY <2>6, <3>1, SetVolumeType, TokensBelow DEF SilenceTarget, TypeOK, mode
    <2>7. ASSUME NEW j \in Injects, NEW ch \in Channels, ReadVolume(j, ch)
          PROVE  TypeOK'
      <3>1. origVol'[j][ch] \in Full .. MaxLevel
        BY <2>7, FullIsALevel DEF ReadVolume, TypeOK, Levels
      <3>2. origVol' \in [Injects -> [Channels -> Full .. MaxLevel]]
        BY <2>7, <3>1 DEF ReadVolume, TypeOK
      <3> QED
        BY <2>7, <3>2 DEF ReadVolume, TypeOK, mode
    <2>8. ASSUME NEW j \in Injects, NEW ch \in Channels, Duck(j, ch)
          PROVE  TypeOK'
      <3>1. ch \in DOMAIN req[j].volumes /\ req[j] \in Requests
        BY <2>8, SmartInjectAssumption DEF Duck, TypeOK
      <3>2. Clamp(req[j].volumes[ch], Full) \in Int
        BY <3>1, SmartInjectAssumption, ClampRange
      <3>3. /\ clock' \in Nat /\ clock <= clock'
            /\ fader' \in [Channels -> [goal : Levels, token : 0 .. clock']]
            /\ owner' \in [Channels -> Injects \union {Operator, NoOne}]
        BY <2>8, <3>2, SetVolumeType DEF Duck
      <3>4. token' \in [Injects -> [Channels -> 0 .. clock']]
        BY <2>8, <3>3, TokensBelow DEF Duck
      <3> QED
        BY <2>8, <3>1, <3>3, <3>4 DEF Duck, TypeOK, mode
    <2>9. ASSUME NEW j \in Injects, Ducked(j)
          PROVE  TypeOK'
      BY <2>9 DEF Ducked, TypeOK, mode
    <2>10. ASSUME NEW j \in Injects, NEW ch \in Channels, Restore(j, ch)
           PROVE  TypeOK'
      <3> DEFINE vol == origVol[j][ch]
      <3>0. vol \in Full .. MaxLevel
        BY DEF TypeOK
      <3> HIDE DEF vol
      <3>1. Clamp(vol, MaxLevel) \in Levels
        BY <3>0, ClampRange, FullIsALevel DEF Levels
      <3>2. fader' \in [Channels -> [goal : Levels, token : 0 .. clock]]
        <4>1. fader[ch] \in [goal : Levels, token : 0 .. clock]
          BY DEF TypeOK
        <4>2. [fader[ch] EXCEPT !.goal = Clamp(vol, MaxLevel)] \in [goal : Levels, token : 0 .. clock]
          BY <3>1, <4>1
        <4>3. fader' = fader \/ fader' = [fader EXCEPT ![ch] = [@ EXCEPT !.goal = Clamp(vol, MaxLevel)]]
          BY <2>10 DEF Restore, vol
        <4> QED
          BY <4>2, <4>3 DEF TypeOK
      <3>3. owner' \in [Channels -> Injects \union {Operator, NoOne}]
        <4>1. owner' = owner \/ owner' = [owner EXCEPT ![ch] = NoOne]
          BY <2>10 DEF Restore, TypeOK
        <4> QED
          BY <4>1 DEF TypeOK
      <3> QED
        BY <2>10, <3>2, <3>3 DEF Restore, TypeOK, mode
    <2>11. CASE UNCHANGED vars
      BY <2>11 DEF vars, TypeOK
    <2> QED
      BY <2>1, <2>2, <2>3, <2>4, <2>5, <2>6, <2>7, <2>8, <2>9, <2>10, <2>11 DEF Next, Announce
  <1> QED
    BY <1>1, <1>2, PTL DEF Spec

\* SetVolume leaves a level in the hands of whoever did it.
LEMMA SetVolumeOwns ==
    ASSUME TypeOK, NEW ch \in Channels, NEW v \in Int,
           NEW who \in Injects \union {Operator}, SetVolume(ch, v, who)
    PROVE  \A c \in Channels :
              \/ fader'[c] = fader[c] /\ owner'[c] = owner[c]
              \/ c = ch /\ owner'[c] = who /\ fader'[c].token = clock' /\ clock' = clock + 1
  <1>1. CASE mixer = 0
    BY <1>1 DEF SetVolume
  <1>2. CASE mixer # 0
    BY <1>2 DEF SetVolume, TypeOK
  <1> QED
    BY <1>1, <1>2

\* FreeFadersAreUp and TokenIsOwners survive a SetVolume.
LEMMA SetVolumeKeepsUp ==
    ASSUME TypeOK, FreeFadersAreUp, NEW ch \in Channels, NEW v \in Int,
           NEW who \in Injects \union {Operator}, SetVolume(ch, v, who)
    PROVE  FreeFadersAreUp'
  <1>1. who # NoOne
    BY SmartInjectAssumption
  <1> QED
    BY <1>1, SetVolumeOwns DEF FreeFadersAreUp

\* The token of another SetVolume is the token of nobody else's.
LEMMA SetVolumeKeepsTokens ==
    ASSUME TypeOK, TokenIsOwners, NEW ch \in Channels, NEW v \in Int,
           NEW who \in Injects \union {Operator}, SetVolume(ch, v, who),
           \A j \in Injects, c \in Channels :
              \/ token'[j][c] = token[j][c]
              \/ j = who /\ c = ch /\ token'[j][c] = IF mixer = 0 THEN 0 ELSE clock'
    PROVE  TokenIsOwners'
  <1> SUFFICES ASSUME NEW c \in Channels, owner'[c] # NoOne
               PROVE  /\ fader'[c].token > 0
                      /\ \A j \in Injects : token'[j][c] = fader'[c].token => owner'[c] = j
    BY DEF TokenIsOwners
  <1>0. clock \in Nat /\ \A j \in Injects : token[j][c] \in 0 .. clock
    BY DEF TypeOK
  <1>1. CASE mixer = 0
    <2>1. fader' = fader /\ owner' = owner
      BY <1>1 DEF SetVolume
    <2>2. \A j \in Injects : token'[j][c] = token[j][c] \/ token'[j][c] = 0
      BY <1>1
    <2> QED
      BY <2>1, <2>2 DEF TokenIsOwners
  <1>2. CASE mixer # 0 /\ c = ch
    <2>1. owner'[c] = who /\ fader'[c].token = clock + 1 /\ clock' = clock + 1
      BY <1>2 DEF SetVolume, TypeOK
    <2> QED
      BY <1>0, <2>1
  <1>3. CASE mixer # 0 /\ c # ch
    <2>1. fader'[c] = fader[c] /\ owner'[c] = owner[c]
      BY <1>3 DEF SetVolume, TypeOK
    <2> QED
      BY <1>3, <2>1 DEF TokenIsOwners
  <1> QED
    BY <1>1, <1>2, <1>3

\* What Restore does: it gives its owner's level back, or nothing.
LEMMA RestoreGivesBack ==
    ASSUME TypeOK, TokenIsOwners, NEW j \in Injects, NEW ch \in Channels, Restore(j, ch)
    PROVE  /\ \A c \in Channels : fader'[c].token = fader[c].token
           /\ \A c \in Channels :
                 \/ fader'[c] = fader[c] /\ owner'[c] = owner[c]
                 \/ /\ c = ch /\ owner[c] \in {j, NoOne} /\ owner'[c] = NoOne
                    /\ fader'[c].goal >= Full
  <1> DEFINE vol == origVol[j][ch]
  <1>1. vol \in Full .. MaxLevel /\ fader \in [Channels -> [goal : Levels, token : 0 .. clock]]
    BY DEF TypeOK
  <1>2. owner \in [Channels -> Injects \union {Operator, NoOne}]
    BY DEF TypeOK
  <1>3. CASE fader' = fader /\ owner' = owner
    BY <1>3
  <1>4. CASE mixer # 0 /\ fader[ch].token = token[j][ch]
    <2>1. fader' = [fader EXCEPT ![ch] = [@ EXCEPT !.goal = Clamp(vol, MaxLevel)]]
      BY <1>4 DEF Restore
    <2>2. owner' = [owner EXCEPT ![ch] = IF @ = j THEN NoOne ELSE @]
      BY <1>4 DEF Restore
    <2> HIDE DEF vol
    <2>3. Clamp(vol, MaxLevel) = vol /\ vol >= Full
      BY <1>1, ClampRange, FullIsALevel
    <2>4. owner[ch] \in {j, NoOne}
      BY <1>4 DEF TokenIsOwners
    <2>5. fader'[ch].goal >= Full /\ fader'[ch].token = fader[ch].token
      BY <1>1, <2>1, <2>3
    <2>6. owner'[ch] = NoOne
      BY <1>2, <2>2, <2>4
    <2>7. \A c \in Channels : c # ch => fader'[c] = fader[c] /\ owner'[c] = owner[c]
      BY <1>1, <1>2, <2>1, <2>2
    <2> QED
      BY <2>4, <2>5, <2>6, <2>7
  <1> QED
    BY <1>3, <1>4 DEF Restore

\* The inductive invariant: Restore needs the tokens to tell the owner, or it would
\* take a fader from somebody else.
Inv == TypeOK /\ TokenIsOwners /\ FreeFadersAreUp

\* Init implies the invariant and every action of SmartInject preserves it.
LEMMA InvInductive == Spec => []Inv
  <1>1. Init => TokenIsOwners /\ FreeFadersAreUp
    BY FullIsALevel DEF Init, NewFader, TokenIsOwners, FreeFadersAreUp
  <1>2. TypeOK /\ TokenIsOwners /\ FreeFadersAreUp /\ [Next]_vars
            => TokenIsOwners' /\ FreeFadersAreUp'
    <2> SUFFICES ASSUME TypeOK, TokenIsOwners, FreeFadersAreUp, [Next]_vars
                 PROVE  TokenIsOwners' /\ FreeFadersAreUp'
      OBVIOUS
    <2>1. CASE NewMixer
      BY <2>1, FullIsALevel DEF NewMixer, NewFader, TokenIsOwners, FreeFadersAreUp
    <2>2. ASSUME NEW ch \in Channels, NEW v \in Asked, MixerVolume(ch, v)
          PROVE  TokenIsOwners' /\ FreeFadersAreUp'
      <3>1. SetVolume(ch, v, Operator) /\ token' = token /\ v \in Int
        BY <2>2, SmartInjectAssumption DEF MixerVolume, goroutines
      <3> QED
        BY <3>1, SetVolumeKeepsUp, SetVolumeKeepsTokens
    <2>3. ASSUME NEW isManual \in BOOLEAN, SetMixerMode(isManual)
          PROVE  TokenIsOwners' /\ FreeFadersAreUp'
      BY <2>3 DEF SetMixerMode, goroutines, TokenIsOwners, FreeFadersAreUp
    <2>4. CASE SilenceNext
      <3>1. PICK ch \in muting : SetVolume(ch, 0, Operator)
        BY <2>4 DEF SilenceNext
      <3>2. ch \in Channels /\ token' = token
        BY <2>4 DEF TypeOK, SilenceNext, goroutines
      <3> QED
        BY <3>1, <3>2, SetVolumeKeepsUp, SetVolumeKeepsTokens
    <2>5. ASSUME NEW j \in Injects, NEW r \in Requests, Breaking(j, r)
          PROVE  TokenIsOwners' /\ FreeFadersAreUp'
      BY <2>5 DEF Breaking, TokenIsOwners, FreeFadersAreUp
    <2>6. ASSUME NEW j \in Injects, SilenceTarget(j)
          PROVE  TokenIsOwners' /\ FreeFadersAreUp'
      <3>1. SetVolume(req[j].target, 0, j) /\ token' = token
        BY <2>6 DEF SilenceTarget
      <3>2. req[j].target \in Channels
        BY <2>6, SmartInjectAssumption DEF SilenceTarget, TypeOK
      <3> QED
        BY <3>1, <3>2, SetVolumeKeepsUp, SetVolumeKeepsTokens
    <2>7. ASSUME NEW j \in Injects, NEW ch \in Channels, ReadVolume(j, ch)
          PROVE  TokenIsOwners' /\ FreeFadersAreUp'
      BY <2>7 DEF ReadVolume, TokenIsOwners, FreeFadersAreUp
    <2>8. ASSUME NEW j \in Injects, NEW ch \in Channels, Duck(j, ch)
          PROVE  TokenIsOwners' /\ FreeFadersAreUp'
      <3>1. ch \in DOMAIN req[j].volumes /\ req[j] \in Requests
        BY <2>8, SmartInjectAssumption DEF Duck, TypeOK
      <3>2. Clamp(req[j].volumes[ch], Full) \in Int
        <4>1. req[j].volumes[ch] \in Int
          BY <3>1, SmartInjectAssumption
        <4> QED
          BY <4>1, FullIsALevel, ClampRange
      <3>3. \A i \in Injects, c \in Channels :
               \/ token'[i][c] = token[i][c]
               \/ i = j /\ c = ch /\ token'[i][c] = IF mixer = 0 THEN 0 ELSE clock'
        BY <2>8 DEF Duck, TypeOK
      <3>4. SetVolume(ch, Clamp(req[j].volumes[ch], Full), j)
        BY <2>8 DEF Duck
      <3> QED
        BY <3>2, <3>3, <3>4, SetVolumeKeepsUp, SetVolumeKeepsTokens
    <2>9. ASSUME NEW j \in Injects, Ducked(j)
          PROVE  TokenIsOwners' /\ FreeFadersAreUp'
      BY <2>9 DEF Ducked, TokenIsOwners, FreeFadersAreUp
    <2>10. ASSUME NEW j \in Injects, NEW ch \in Channels, Restore(j, ch)
           PROVE  TokenIsOwners' /\ FreeFadersAreUp'
      <3>1. token' = token
        BY <2>10 DEF Restore
      <3> QED
        BY <2>10, <3>1, RestoreGivesBack DEF TokenIsOwners, FreeFadersAreUp
    <2>11. CASE UNCHANGED vars
      BY <2>11 DEF vars, TokenIsOwners, FreeFadersAreUp
    <2> QED
      BY <2>1, <2>2, <2>3, <2>4, <2>5, <2>6, <2>7, <2>8, <2>9, <2>10, <2>11 DEF Next, Announce
  <1> QED
    BY <1>1, <1>2, TypeCorrect, PTL DEF Spec, Inv

\* However many announcements read each other's ducked levels, a fader that nobody
\* holds is at 1.0 or above: what the goroutine of handleBreaking restores is never
\* another's ducked level (handler.go:888-900, API.md:488).
THEOREM FreeFadersStayUp == Spec => []FreeFadersAreUp
  BY InvInductive, PTL DEF Inv

\* A level set after the announcement's own survives the announcement's end, for
\* any number of announcements and operators (mixer.go:72-97).
THEOREM TakenOverIsKept == Spec => TakenOverStays
  <1> DEFINE A == \A j \in Injects, ch \in Channels :
            stage[j][ch] = "set" /\ stage'[j][ch] = "back" /\ owner[ch] \notin {j, NoOne}
                => fader'[ch] = fader[ch]
  <1>1. Inv /\ [Next]_vars => A
    <2> SUFFICES ASSUME Inv, [Next]_vars, NEW j \in Injects, NEW ch \in Channels,
                        stage[j][ch] = "set", stage'[j][ch] = "back",
                        owner[ch] \notin {j, NoOne}
                 PROVE  fader'[ch] = fader[ch]
      OBVIOUS
    <2>1. TypeOK /\ TokenIsOwners
      BY DEF Inv
    <2>2. stage' # stage
      OBVIOUS
    <2>3. CASE \E i \in Injects, c \in Channels : Restore(i, c)
      <3>1. PICK i \in Injects, c \in Channels : Restore(i, c)
        BY <2>3
      <3>2. i = j /\ c = ch
        BY <2>1, <3>1 DEF Restore, TypeOK
      <3> QED
        BY <2>1, <3>1, <3>2, RestoreGivesBack
    <2>4. ASSUME NEW i \in Injects, NEW r \in Requests, Breaking(i, r)
          PROVE  FALSE
      BY <2>1, <2>4 DEF Breaking, TypeOK
    <2>5. ASSUME NEW i \in Injects, NEW c \in Channels, ReadVolume(i, c) \/ Duck(i, c)
          PROVE  FALSE
      <3>1. PICK to \in {"read", "sleep", "set"} : stage' = [stage EXCEPT ![i][c] = to]
        BY <2>5 DEF ReadVolume, Duck
      <3> QED
        BY <2>1, <3>1 DEF TypeOK
    <2>6. ~(NewMixer \/ SilenceNext \/ UNCHANGED vars)
      BY <2>2 DEF NewMixer, SilenceNext, vars, goroutines
    <2>7. ~\E c \in Channels, v \in Asked : MixerVolume(c, v)
      BY <2>2 DEF MixerVolume, goroutines
    <2>8. ~\E isManual \in BOOLEAN : SetMixerMode(isManual)
      BY <2>2 DEF SetMixerMode, goroutines
    <2>9. ~\E i \in Injects : SilenceTarget(i) \/ Ducked(i)
      BY <2>2 DEF SilenceTarget, Ducked
    <2> QED
      BY <2>3, <2>4, <2>5, <2>6, <2>7, <2>8, <2>9 DEF Next, Announce
  <1>2. Inv /\ [Next]_vars => [A]_vars
    BY <1>1
  <1> QED
    BY <1>2, InvInductive, PTL DEF Spec, TakenOverStays

(***************************************************************************)
(* Refinement of Faders.                                                   *)
(***************************************************************************)

\* Before its ducks, a goroutine has set no channel of the map.
StartsClean ==
    \A j \in Injects, ch \in Channels :
        pc[j] \in {"idle", "silence"} => stage[j][ch] \in {"none", "todo"}

RestoresDue == \A j \in Injects : pc[j] = "restore" => req[j].file /\ req[j].long

NoMixerYet ==
    mixer = 0 => /\ \A ch \in Channels : fader[ch] = NewFader /\ owner[ch] = NoOne
                 /\ \A j \in Injects, ch \in Channels : origVol[j][ch] = Full

HoldersKeepToken ==
    \A j \in Injects, ch \in Channels :
        stage[j][ch] = "set" /\ owner[ch] = j => token[j][ch] = fader[ch].token

\* A duck that met no mixer has token 0, which is that of a new mixer's faders.
BlindDucks ==
    \A j \in Injects, ch \in Channels :
        stage[j][ch] = "set" /\ token[j][ch] = 0 => origVol[j][ch] = Full

\* Whoever would restore a free fader restores the level it has.
FreeKeepLevel ==
    \A j \in Injects, ch \in Channels :
        stage[j][ch] = "set" /\ owner[ch] = NoOne /\ token[j][ch] = fader[ch].token
            => fader[ch].goal = origVol[j][ch]

\* What tells each announcement whether a fader is still its own.
TokenInv == NoMixerYet /\ HoldersKeepToken /\ BlindDucks /\ FreeKeepLevel

\* A SetVolume makes its caller's token, and nobody else's, the one of the fader; a
\* duck notes it.
LEMMA SetVolumeNotes ==
    ASSUME TypeOK, TokenInv, NEW ch \in Channels, NEW v \in Int,
           NEW who \in Injects \union {Operator}, SetVolume(ch, v, who),
           mixer' = mixer, origVol' = origVol,
           \A j \in Injects, c \in Channels :
              \/ /\ token'[j][c] = token[j][c] /\ stage'[j][c] = stage[j][c]
                 /\ ~(j = who /\ c = ch /\ stage[j][c] = "set")
              \/ /\ j = who /\ c = ch /\ stage'[j][c] = "set"
                 /\ token'[j][c] = IF mixer = 0 THEN 0 ELSE clock'
    PROVE  TokenInv'
  <1>0. who # NoOne /\ NoOne \notin Injects
    BY SmartInjectAssumption
  <1>1. CASE mixer = 0
    <2>1. fader' = fader /\ owner' = owner
      BY <1>1 DEF SetVolume
    <2>2. \A c \in Channels : fader[c] = NewFader /\ owner[c] = NoOne
      BY <1>1 DEF TokenInv, NoMixerYet
    <2>3. \A j \in Injects, c \in Channels : origVol[j][c] = Full
      BY <1>1 DEF TokenInv, NoMixerYet
    <2>4. NoMixerYet'
      BY <2>1, <2>2, <2>3 DEF NoMixerYet
    <2>5. HoldersKeepToken'
      BY <1>0, <2>1, <2>2 DEF HoldersKeepToken
    <2>6. BlindDucks' /\ FreeKeepLevel'
      BY <2>1, <2>2, <2>3 DEF BlindDucks, FreeKeepLevel, NewFader
    <2> QED
      BY <2>4, <2>5, <2>6 DEF TokenInv
  <1>2. CASE mixer # 0
    <2>1. clock' = clock + 1 /\ clock \in Nat
      BY <1>2 DEF SetVolume, TypeOK
    <2>2. owner'[ch] = who /\ fader'[ch].token = clock'
      BY <1>2 DEF SetVolume, TypeOK
    <2>3. \A c \in Channels : c # ch => fader'[c] = fader[c] /\ owner'[c] = owner[c]
      BY <1>2 DEF SetVolume, TypeOK
    <2>4. NoMixerYet'
      BY <1>2 DEF NoMixerYet
    <2>5. HoldersKeepToken'
      BY <1>2, <2>2, <2>3 DEF HoldersKeepToken, TokenInv
    <2>6. BlindDucks'
      BY <1>2, <2>1 DEF BlindDucks, TokenInv
    <2>7. FreeKeepLevel'
      BY <1>0, <2>2, <2>3 DEF FreeKeepLevel, TokenInv
    <2> QED
      BY <2>4, <2>5, <2>6, <2>7 DEF TokenInv
  <1> QED
    BY <1>1, <1>2

\* A restore gives back a fader that is its announcement's own, or changes none
\* (mixer.go:77: RestoreVolume returns false if the token is another's).
LEMMA RestoreIsReturn ==
    ASSUME TypeOK, TokenIsOwners, TokenInv, NEW j \in Injects, NEW ch \in Channels,
           Restore(j, ch)
    PROVE  \/ /\ owner[ch] = j /\ owner' = [owner EXCEPT ![ch] = NoOne]
              /\ \E v \in Full .. MaxLevel :
                    fader' = [fader EXCEPT ![ch] = [@ EXCEPT !.goal = v]]
           \/ owner[ch] # j /\ owner' = owner /\ fader' = fader
  <1> DEFINE vol == origVol[j][ch]
  <1>1. /\ stage[j][ch] = "set" /\ vol \in Full .. MaxLevel
        /\ owner \in [Channels -> Injects \union {Operator, NoOne}]
        /\ fader \in [Channels -> [goal : Levels, token : 0 .. clock]]
    BY DEF Restore, TypeOK
  <1>2. NoOne # j
    BY SmartInjectAssumption
  <1>3. Clamp(vol, MaxLevel) = vol
    <2> HIDE DEF vol
    <2> QED
      BY <1>1, ClampRange, FullIsALevel
  <1>4. CASE owner[ch] = j
    <2>1. mixer # 0 /\ fader[ch].token = token[j][ch]
      BY <1>1, <1>2, <1>4 DEF TokenInv, NoMixerYet, HoldersKeepToken
    <2>2. /\ fader' = [fader EXCEPT ![ch] = [@ EXCEPT !.goal = vol]]
          /\ owner' = [owner EXCEPT ![ch] = NoOne]
      BY <1>3, <1>4, <2>1 DEF Restore
    <2> QED
      BY <1>1, <1>4, <2>2
  <1>5. CASE owner[ch] # j /\ mixer # 0 /\ fader[ch].token = token[j][ch]
    <2>1. owner[ch] = NoOne
      BY <1>5 DEF TokenIsOwners
    <2>2. fader[ch].goal = vol
      BY <1>1, <1>5, <2>1 DEF TokenInv, FreeKeepLevel
    <2>3. /\ fader' = [fader EXCEPT ![ch] = [@ EXCEPT !.goal = vol]]
          /\ owner' = [owner EXCEPT ![ch] = NoOne]
      BY <1>3, <1>5, <2>1, <2>2 DEF Restore
    <2>4. [fader[ch] EXCEPT !.goal = vol] = fader[ch]
      <3> HIDE DEF vol
      <3> QED
        BY <1>1, <2>2
    <2> QED
      BY <1>1, <1>5, <2>1, <2>3, <2>4
  <1>6. CASE owner[ch] # j /\ ~(mixer # 0 /\ fader[ch].token = token[j][ch])
    BY <1>6 DEF Restore
  <1> QED
    BY <1>4, <1>5, <1>6

\* Steps that set no fader and duck no channel.
LEMMA TokenInvKept ==
    ASSUME TokenInv, UNCHANGED <<mixer, fader, owner, token>>,
           \A j \in Injects, ch \in Channels :
              /\ stage'[j][ch] = "set" => /\ stage[j][ch] = "set"
                                          /\ origVol'[j][ch] = origVol[j][ch]
              /\ mixer = 0 => origVol'[j][ch] = Full
    PROVE  TokenInv'
  <1>1. NoMixerYet'
    BY DEF TokenInv, NoMixerYet
  <1>2. HoldersKeepToken'
    BY DEF TokenInv, HoldersKeepToken
  <1>3. BlindDucks'
    BY DEF TokenInv, BlindDucks
  <1>4. FreeKeepLevel'
    BY DEF TokenInv, FreeKeepLevel
  <1> QED
    BY <1>1, <1>2, <1>3, <1>4 DEF TokenInv

\* The inductive invariant of the refinement, beside Inv.
ShareInv == StartsClean /\ RestoresDue /\ TokenInv

LEMMA ShareInvStep ==
    ASSUME Inv, ShareInv, [Next]_vars
    PROVE  ShareInv'
  <1>1. TypeOK /\ TokenIsOwners /\ StartsClean /\ RestoresDue /\ TokenInv
    BY DEF Inv, ShareInv
  <1>2. mixer = 0 => \A j \in Injects, ch \in Channels : origVol[j][ch] = Full
    BY <1>1 DEF TokenInv, NoMixerYet
  <1>3. CASE NewMixer
    <2>1. /\ mixer' # 0 /\ UNCHANGED goroutines
          /\ \A ch \in Channels : fader'[ch] = NewFader /\ owner'[ch] = NoOne
      BY <1>1, <1>3, SmartInjectAssumption DEF NewMixer, TypeOK
    <2>2. NoMixerYet'
      BY <2>1 DEF NoMixerYet
    <2>3. HoldersKeepToken'
      BY <2>1, SmartInjectAssumption DEF HoldersKeepToken
    <2>4. BlindDucks' /\ FreeKeepLevel'
      BY <1>1, <2>1 DEF TokenInv, BlindDucks, FreeKeepLevel, NewFader, goroutines
    <2> QED
      BY <1>1, <2>1, <2>2, <2>3, <2>4
      DEF ShareInv, TokenInv, StartsClean, RestoresDue, goroutines
  <1>4. ASSUME NEW ch \in Channels, NEW v \in Int, SetVolume(ch, v, Operator),
               UNCHANGED <<mixer, goroutines>>
        PROVE  ShareInv'
    <2>1. TokenInv'
      BY <1>1, <1>4, SetVolumeNotes, SmartInjectAssumption DEF goroutines
    <2> QED
      BY <1>1, <1>4, <2>1 DEF ShareInv, StartsClean, RestoresDue, goroutines
  <1>5. ASSUME NEW ch \in Channels, NEW v \in Asked, MixerVolume(ch, v)
        PROVE  ShareInv'
    BY <1>4, <1>5, SmartInjectAssumption DEF MixerVolume
  <1>6. CASE SilenceNext
    BY <1>1, <1>4, <1>6 DEF SilenceNext, TypeOK
  <1>7. ASSUME NEW isManual \in BOOLEAN, SetMixerMode(isManual)
        PROVE  ShareInv'
    <2>1. UNCHANGED <<mixer, fader, owner, goroutines>>
      BY <1>7 DEF SetMixerMode
    <2>2. TokenInv'
      BY <1>1, <1>2, <2>1, TokenInvKept DEF goroutines
    <2> QED
      BY <1>1, <2>1, <2>2 DEF ShareInv, StartsClean, RestoresDue, goroutines
  <1>8. ASSUME NEW j \in Injects, NEW r \in Requests, Breaking(j, r)
        PROVE  ShareInv'
    <2>1. /\ UNCHANGED <<mixer, fader, owner, token, origVol>>
          /\ \A i \in Injects, ch \in Channels :
                \/ i # j /\ stage'[i][ch] = stage[i][ch]
                \/ i = j /\ stage'[i][ch] \in {"none", "todo"}
      BY <1>1, <1>8 DEF Breaking, TypeOK
    <2>2. TokenInv'
      BY <1>1, <1>2, <2>1, TokenInvKept
    <2>3. StartsClean'
      BY <1>1, <1>8, <2>1 DEF StartsClean, Breaking, TypeOK
    <2>4. RestoresDue'
      BY <1>1, <1>8 DEF RestoresDue, Breaking, TypeOK
    <2> QED
      BY <2>2, <2>3, <2>4 DEF ShareInv
  <1>9. ASSUME NEW j \in Injects, SilenceTarget(j)
        PROVE  ShareInv'
    <2>1. /\ SetVolume(req[j].target, 0, j) /\ req[j].target \in Channels
          /\ UNCHANGED <<mixer, req, stage, origVol, token>>
      BY <1>1, <1>9, SmartInjectAssumption DEF SilenceTarget, TypeOK
    <2>2. \A ch \in Channels : stage[j][ch] # "set"
      BY <1>1, <1>9 DEF SilenceTarget, StartsClean
    <2>3. TokenInv'
      BY <1>1, <2>1, <2>2, SetVolumeNotes
    <2>4. StartsClean' /\ RestoresDue'
      BY <1>1, <1>9 DEF SilenceTarget, StartsClean, RestoresDue, TypeOK
    <2> QED
      BY <2>3, <2>4 DEF ShareInv
  <1>10. ASSUME NEW j \in Injects, NEW ch \in Channels, ReadVolume(j, ch)
         PROVE  ShareInv'
    <2>1. /\ UNCHANGED <<mixer, fader, owner, token, req, pc>>
          /\ pc[j] = "duck" /\ mixer = 0 => origVol'[j][ch] = Full
          /\ \A i \in Injects, c \in Channels :
                \/ stage'[i][c] = stage[i][c] /\ origVol'[i][c] = origVol[i][c]
                \/ i = j /\ c = ch /\ stage'[i][c] \in {"sleep", "read"}
      BY <1>1, <1>10 DEF ReadVolume, TypeOK
    <2>2. pc[j] = "duck"
      BY <1>10 DEF ReadVolume
    <2>3. TokenInv'
      BY <1>1, <1>2, <2>1, <2>2, TokenInvKept
    <2>4. StartsClean' /\ RestoresDue'
      BY <1>1, <2>1, <2>2 DEF StartsClean, RestoresDue
    <2> QED
      BY <2>3, <2>4 DEF ShareInv
  <1>11. ASSUME NEW j \in Injects, NEW ch \in Channels, Duck(j, ch)
         PROVE  ShareInv'
    <2>1. Clamp(req[j].volumes[ch], Full) \in Int
      <3>1. ch \in DOMAIN req[j].volumes /\ req[j] \in Requests
        BY <1>1, <1>11, SmartInjectAssumption DEF Duck, TypeOK
      <3>2. req[j].volumes[ch] \in Int
        BY <3>1, SmartInjectAssumption
      <3> QED
        BY <3>2, FullIsALevel, ClampRange
    <2>2. /\ SetVolume(ch, Clamp(req[j].volumes[ch], Full), j)
          /\ UNCHANGED <<mixer, req, pc, origVol>>
          /\ stage[j][ch] \in {"read", "sleep"}
      BY <1>11 DEF Duck
    <2>3. \A i \in Injects, c \in Channels :
             \/ /\ i # j \/ c # ch
                /\ token'[i][c] = token[i][c] /\ stage'[i][c] = stage[i][c]
             \/ /\ i = j /\ c = ch /\ stage'[i][c] = "set"
                /\ token'[i][c] = IF mixer = 0 THEN 0 ELSE clock'
      BY <1>1, <1>11 DEF Duck, TypeOK
    <2>4. TokenInv'
      BY <1>1, <2>1, <2>2, <2>3, SetVolumeNotes
    <2>5. StartsClean' /\ RestoresDue'
      BY <1>1, <2>2, <2>3 DEF StartsClean, RestoresDue
    <2> QED
      BY <2>4, <2>5 DEF ShareInv
  <1>12. ASSUME NEW j \in Injects, Ducked(j)
         PROVE  ShareInv'
    <2>1. UNCHANGED <<mixer, fader, owner, stage, origVol, token, req>>
      BY <1>12 DEF Ducked
    <2>2. TokenInv'
      BY <1>1, <1>2, <2>1, TokenInvKept
    <2>3. StartsClean' /\ RestoresDue'
      BY <1>1, <1>12 DEF Ducked, StartsClean, RestoresDue, TypeOK
    <2> QED
      BY <2>2, <2>3 DEF ShareInv
  <1>13. ASSUME NEW j \in Injects, NEW ch \in Channels, Restore(j, ch)
         PROVE  ShareInv'
    <2>1. /\ UNCHANGED <<mixer, req, pc, origVol, token>> /\ pc[j] = "restore"
          /\ \A i \in Injects, c \in Channels :
                \/ (i # j \/ c # ch) /\ stage'[i][c] = stage[i][c]
                \/ i = j /\ c = ch /\ stage'[i][c] = "back"
      BY <1>1, <1>13 DEF Restore, TypeOK
    <2>2. CASE owner' = owner /\ fader' = fader
      BY <1>1, <1>2, <2>1, <2>2, TokenInvKept DEF ShareInv, StartsClean, RestoresDue
    <2>3. CASE /\ owner[ch] = j /\ owner' = [owner EXCEPT ![ch] = NoOne]
               /\ \E v \in Full .. MaxLevel :
                     fader' = [fader EXCEPT ![ch] = [@ EXCEPT !.goal = v]]
      <3>1. /\ \A c \in Channels : c # ch => fader'[c] = fader[c] /\ owner'[c] = owner[c]
            /\ fader'[ch].token = fader[ch].token /\ owner'[ch] = NoOne
        BY <1>1, <2>3 DEF TypeOK
      <3>2. NoOne # j /\ NoOne \notin Injects
        BY SmartInjectAssumption
      <3>3. mixer # 0 /\ mixer' # 0
        BY <1>1, <2>1, <2>3, <3>2 DEF TokenInv, NoMixerYet
      <3>4. HoldersKeepToken'
        BY <1>1, <2>1, <3>1, <3>2 DEF TokenInv, HoldersKeepToken
      <3>5. BlindDucks'
        BY <1>1, <2>1 DEF TokenInv, BlindDucks
      <3>6. \A i \in Injects : token[i][ch] = fader[ch].token => i = j
        BY <1>1, <2>3, <3>2 DEF TokenIsOwners
      <3>7. FreeKeepLevel'
        BY <1>1, <2>1, <3>1, <3>6 DEF TokenInv, FreeKeepLevel
      <3>8. StartsClean' /\ RestoresDue'
        BY <1>1, <2>1 DEF StartsClean, RestoresDue
      <3> QED
        BY <3>3, <3>4, <3>5, <3>7, <3>8 DEF ShareInv, TokenInv, NoMixerYet
    <2> QED
      BY <1>1, <1>13, <2>2, <2>3, RestoreIsReturn
  <1>14. CASE UNCHANGED vars
    <2>1. TokenInv'
      BY <1>1, <1>2, <1>14, TokenInvKept DEF vars, goroutines
    <2> QED
      BY <1>1, <1>14, <2>1 DEF vars, ShareInv, StartsClean, RestoresDue
  <1> QED
    BY <1>3, <1>5, <1>6, <1>7, <1>8, <1>9, <1>10, <1>11, <1>12, <1>13, <1>14 DEF Next, Announce

LEMMA SharesInvariantly == Spec => [](Inv /\ ShareInv)
  <1>1. Init => ShareInv
    BY DEF Init, ShareInv, StartsClean, RestoresDue, TokenInv, NoMixerYet,
           HoldersKeepToken, BlindDucks, FreeKeepLevel
  <1> QED
    BY <1>1, ShareInvStep, InvInductive, PTL DEF Spec

\* A SetVolume takes the fader for its caller, or does nothing without a mixer;
\* whether he owes it back is up to him.
LEMMA SetVolumeTakes ==
    ASSUME TypeOK, NEW ch \in Channels, NEW v \in Int,
           NEW who \in Injects \union {Operator}, SetVolume(ch, v, who), mixer' = mixer,
           Due' \in {Due, Due \union {<<who, ch>>}}
    PROVE  \/ Holding!Take(who, ch)
           \/ Holding!TakeNothing(who, ch)
           \/ UNCHANGED <<mixer # 0, Goals, owner, Due>>
  <1>1. CASE mixer = 0
    <2>1. fader' = fader /\ owner' = owner
      BY <1>1 DEF SetVolume
    <2>2. Goals' = Goals /\ (mixer # 0)' = (mixer # 0)
      BY <2>1 DEF Goals
    <2> QED
      BY <1>1, <2>1, <2>2 DEF Holding!TakeNothing
  <1>2. CASE mixer # 0
    <2> DEFINE w == Clamp(v, MaxLevel)
    <2>1. w \in Levels
      BY ClampRange, FullIsALevel DEF Levels
    <2>2. /\ fader' = [fader EXCEPT ![ch] = [goal |-> w, token |-> clock']]
          /\ owner' = [owner EXCEPT ![ch] = who]
      BY <1>2 DEF SetVolume
    <2> HIDE DEF w
    <2>3. Goals' = [Goals EXCEPT ![ch] = w]
      BY <2>2 DEF Goals, TypeOK
    <2>4. (mixer # 0)' = (mixer # 0)
      OBVIOUS
    <2> QED
      BY <1>2, <2>1, <2>2, <2>3, <2>4 DEF Holding!Take, Levels
  <1> QED
    BY <1>1, <1>2

\* Theorem: announcements, operators, changes of mode and new mixers use the faders as
\* Faders says (mixer.go:45-97, handler.go:870-930).  In particular the end of an
\* announcement changes a fader if and only if the announcement still holds it.
THEOREM FadersAreShared == Spec => SharesFaders
  <1>1. Init => Holding!Init
    <2> SUFFICES ASSUME Init PROVE Holding!Init
      OBVIOUS
    <2>1. Goals = [ch \in Channels |-> Full]
      BY DEF Init, Goals, NewFader
    <2>2. Due = {}
      BY DEF Init, Due
    <2>3. (mixer # 0) = FALSE
      BY DEF Init
    <2> QED
      BY <2>1, <2>2, <2>3 DEF Init, Holding!Init
  <1>2. Inv /\ ShareInv /\ [Next]_vars => [Holding!Next]_(Holding!vars)
    <2> SUFFICES ASSUME Inv, ShareInv, [Next]_vars
                 PROVE  Holding!Next \/ UNCHANGED Holding!vars
      OBVIOUS
    <2> USE DEF Holding!vars
    <2>1. TypeOK /\ TokenIsOwners /\ StartsClean /\ RestoresDue /\ TokenInv
      BY DEF Inv, ShareInv
    <2>2. CASE NewMixer
      <3>1. mixer' # 0 /\ Goals' = [ch \in Channels |-> Full]
        BY <2>1, <2>2, SmartInjectAssumption DEF NewMixer, TypeOK, Goals, NewFader
      <3>2. Due' = Due
        BY <2>2 DEF NewMixer, Due, goroutines
      <3>3. (mixer # 0)' = TRUE
        BY <3>1
      <3>4. Holding!NewMixer
        BY <2>2, <3>1, <3>2, <3>3 DEF NewMixer, Holding!NewMixer
      <3> QED
        BY <3>4 DEF Holding!Next
    <2>3. ASSUME NEW ch \in Channels, NEW v \in Int, NEW who \in Injects \union {Operator},
                 SetVolume(ch, v, who), mixer' = mixer,
                 Due' \in {Due, Due \union {<<who, ch>>}}
          PROVE  Holding!Next \/ UNCHANGED Holding!vars
      BY <2>1, <2>3, SetVolumeTakes DEF Holding!Next
    <2>4. ASSUME UNCHANGED <<mixer, fader, owner>>, Due' = Due
          PROVE  UNCHANGED Holding!vars
      <3>1. Goals' = Goals /\ (mixer # 0)' = (mixer # 0)
        BY <2>4 DEF Goals
      <3> QED
        BY <2>4, <3>1
    <2>5. ASSUME NEW ch \in Channels, NEW v \in Asked, MixerVolume(ch, v)
          PROVE  Holding!Next \/ UNCHANGED Holding!vars
      <3>1. Due' = Due /\ v \in Int /\ mixer' = mixer /\ SetVolume(ch, v, Operator)
        BY <2>5, SmartInjectAssumption DEF MixerVolume, Due, goroutines
      <3> QED
        BY <2>3, <3>1
    <2>6. CASE SilenceNext
      <3>1. PICK ch \in Channels : SetVolume(ch, 0, Operator)
        BY <2>1, <2>6 DEF SilenceNext, TypeOK
      <3>2. Due' = Due /\ mixer' = mixer
        BY <2>6 DEF SilenceNext, Due, goroutines
      <3> QED
        BY <2>3, <3>1, <3>2
    <2>7. ASSUME NEW isManual \in BOOLEAN, SetMixerMode(isManual)
          PROVE  UNCHANGED Holding!vars
      BY <2>4, <2>7 DEF SetMixerMode, Due, goroutines
    <2>8. ASSUME NEW j \in Injects, NEW r \in Requests, Breaking(j, r)
          PROVE  UNCHANGED Holding!vars
      <3>1. \A i \in Injects, ch \in Channels :
               \/ i # j /\ stage'[i][ch] = stage[i][ch] /\ req'[i] = req[i]
               \/ stage[i][ch] # "set" /\ stage'[i][ch] # "set"
        BY <2>1, <2>8 DEF Breaking, StartsClean, TypeOK
      <3>2. Due' = Due
        BY <3>1 DEF Due
      <3> QED
        BY <2>4, <2>8, <3>2 DEF Breaking
    <2>9. ASSUME NEW j \in Injects, SilenceTarget(j)
          PROVE  Holding!Next \/ UNCHANGED Holding!vars
      <3>1. /\ SetVolume(req[j].target, 0, j) /\ req[j].target \in Channels
            /\ mixer' = mixer /\ Due' = Due
        BY <2>1, <2>9, SmartInjectAssumption DEF SilenceTarget, TypeOK, Due
      <3> QED
        BY <2>3, <3>1
    <2>10. ASSUME NEW j \in Injects, NEW ch \in Channels, ReadVolume(j, ch)
           PROVE  UNCHANGED Holding!vars
      <3>1. \A i \in Injects, c \in Channels :
               \/ stage'[i][c] = stage[i][c]
               \/ stage[i][c] # "set" /\ stage'[i][c] # "set"
        BY <2>1, <2>10 DEF ReadVolume, TypeOK
      <3>2. Due' = Due
        BY <2>10, <3>1 DEF Due, ReadVolume
      <3> QED
        BY <2>4, <2>10, <3>2 DEF ReadVolume
    <2>11. ASSUME NEW j \in Injects, NEW ch \in Channels, Duck(j, ch)
           PROVE  Holding!Next \/ UNCHANGED Holding!vars
      <3>1. Clamp(req[j].volumes[ch], Full) \in Int
        <4>1. ch \in DOMAIN req[j].volumes /\ req[j] \in Requests
          BY <2>1, <2>11, SmartInjectAssumption DEF Duck, TypeOK
        <4>2. req[j].volumes[ch] \in Int
          BY <4>1, SmartInjectAssumption
        <4> QED
          BY <4>2, FullIsALevel, ClampRange
      <3>2. /\ SetVolume(ch, Clamp(req[j].volumes[ch], Full), j)
            /\ UNCHANGED <<mixer, req>>
        BY <2>11 DEF Duck
      <3>3. \A i \in Injects, c \in Channels :
               \/ <<i, c>> # <<j, ch>> /\ stage'[i][c] = stage[i][c]
               \/ <<i, c>> = <<j, ch>> /\ stage[i][c] # "set" /\ stage'[i][c] = "set"
        BY <2>1, <2>11 DEF Duck, TypeOK
      <3>4. Due' \in {Due, Due \union {<<j, ch>>}}
        <4>1. CASE req[j].file /\ req[j].long
          BY <3>2, <3>3, <4>1 DEF Due
        <4>2. CASE ~(req[j].file /\ req[j].long)
          BY <3>2, <3>3, <4>2 DEF Due
        <4> QED
          BY <4>1, <4>2
      <3> QED
        BY <2>3, <3>1, <3>2, <3>4
    <2>12. ASSUME NEW j \in Injects, Ducked(j)
           PROVE  UNCHANGED Holding!vars
      BY <2>4, <2>12 DEF Ducked, Due
    <2>13. ASSUME NEW j \in Injects, NEW ch \in Channels, Restore(j, ch)
           PROVE  Holding!Next
      <3>1. \A i \in Injects, c \in Channels :
               \/ <<i, c>> # <<j, ch>> /\ stage'[i][c] = stage[i][c]
               \/ <<i, c>> = <<j, ch>> /\ stage'[i][c] = "back"
        BY <2>1, <2>13 DEF Restore, TypeOK
      <3>2. req' = req /\ stage[j][ch] = "set" /\ req[j].file /\ req[j].long
        BY <2>1, <2>13 DEF Restore, RestoresDue
      <3>3. <<j, ch>> \in Due /\ Due' = Due \ {<<j, ch>>}
        BY <3>1, <3>2 DEF Due
      <3>4. (mixer # 0)' = (mixer # 0)
        BY <2>13 DEF Restore
      <3>5. CASE /\ owner[ch] = j /\ owner' = [owner EXCEPT ![ch] = NoOne]
                 /\ \E v \in Full .. MaxLevel :
                       fader' = [fader EXCEPT ![ch] = [@ EXCEPT !.goal = v]]
        <4>1. PICK v \in Full .. MaxLevel :
                 fader' = [fader EXCEPT ![ch] = [@ EXCEPT !.goal = v]]
          BY <3>5
        <4>2. Goals' = [Goals EXCEPT ![ch] = v]
          <5>1. fader \in [Channels -> [goal : Levels, token : 0 .. clock]]
            BY <2>1 DEF TypeOK
          <5>2. \A c \in Channels : fader'[c].goal = IF c = ch THEN v ELSE fader[c].goal
            BY <4>1, <5>1
          <5> QED
            BY <5>2 DEF Goals
        <4>3. Holding!GiveBack(j, ch)
          BY <3>3, <3>4, <3>5, <4>2 DEF Holding!GiveBack
        <4> QED
          BY <4>3 DEF Holding!Next
      <3>6. CASE owner[ch] # j /\ owner' = owner /\ fader' = fader
        <4>1. Goals' = Goals
          BY <3>6 DEF Goals
        <4>2. Holding!GiveBackNothing(j, ch)
          BY <3>3, <3>4, <3>6, <4>1 DEF Holding!GiveBackNothing
        <4> QED
          BY <4>2 DEF Holding!Next
      <3> QED
        BY <2>1, <2>13, <3>5, <3>6, RestoreIsReturn
    <2>14. CASE UNCHANGED vars
      BY <2>4, <2>14 DEF vars, goroutines, Due
    <2> QED
      BY <2>2, <2>5, <2>6, <2>7, <2>8, <2>9, <2>10, <2>11, <2>12, <2>13, <2>14
      DEF Next, Announce
  <1> QED
    BY <1>1, <1>2, SharesInvariantly, PTL DEF Spec, SharesFaders, Holding!Spec
=============================================================================
