---------------------------- MODULE SmartInject ----------------------------
(***************************************************************************)
(* The faders of the mixer (encoder/mixer.go) and their users: the         *)
(* goroutine of handleBreaking (api/handler.go), which ducks channels for  *)
(* an announcement and restores them after it, the operator who sets a     *)
(* fader, and the change of mode in station/manager.go.                    *)
(*                                                                         *)
(* Every SetVolume leaves a new token on its channel, the time of day,     *)
(* here a counter; RestoreVolume acts only on a channel that still has the *)
(* token of the goroutine's own SetVolume.  Announcements overlap freely:  *)
(* the check of handleBreaking that the channel is not busy is skipped by  *)
(* `force`, and left out.                                                  *)
(*                                                                         *)
(* A volume is a level: Full stands for 1.0, MaxLevel for 2.0.  A fader is *)
(* the level it goes to, targetVol, and its token; how currentVol follows, *)
(* at once or fading, mute, labels and audio data are left out.            *)
(***************************************************************************)
EXTENDS Integers

CONSTANTS Channels,   \* the mixer's channels that are used
          Full,       \* the level of 1.0
          MaxLevel,   \* the level of 2.0
          Injects,    \* requests to /breaking
          Requests,   \* what they ask for
          Asked,      \* levels /mixer/volume is asked for
          Operator,   \* who sets a fader by /mixer/volume or a change of mode
          NoOne,      \* who set a new or a restored fader
          NoRequest,  \* the request of a goroutine that has none yet
          MaxOps      \* bound: requests to /mixer/volume and /mixer/mode, and
                      \* restarts of the engine

\* A request has a file or not, which is longer than a second or not, a target
\* channel, and the map of channels to their levels during the announcement.
ASSUME SmartInjectAssumption ==
    /\ Channels \subseteq 0 .. 7
    /\ Full \in Nat \ {0} /\ MaxLevel = 2 * Full
    /\ Asked \subseteq Int
    /\ \A r \in Requests :
          /\ r.file \in BOOLEAN /\ r.long \in BOOLEAN /\ r.target \in Channels
          /\ DOMAIN r.volumes \subseteq Channels
          /\ \A ch \in DOMAIN r.volumes : r.volumes[ch] \in Int
    /\ NoRequest \notin Requests
    /\ Operator \notin Injects /\ NoOne \notin Injects /\ Operator # NoOne
    /\ MaxOps \in Nat

VARIABLES
    mixer,   \* how many mixers there have been: ae.Mixer is the last, nil for 0
    fader,   \* per channel, targetVol and restoreToken
    clock,   \* time.Now().UnixNano()
    manual,  \* Station.Mode is "manual"
    muting,  \* the channels that SetMixerMode("manual") has still to silence
    req,     \* the request of each goroutine of handleBreaking
    pc,      \* its control state
    stage,   \* what it did to each channel of the request
    origVol, \* channelData: the volume it read ...
    token,   \* ... and the token of its SetVolume
    ops,     \* what MaxOps counts
    owner    \* who set the fader last

goroutines == <<req, pc, stage, origVol, token>>
mode       == <<manual, muting, ops>>
vars       == <<mixer, fader, clock, manual, muting, req, pc, stage, origVol, token, ops, owner>>

\* Mutant: only negative levels are clamped.
ClampBelow(v, top) == IF v < 0 THEN 0 ELSE v

Clamp(v, top) == IF v < 0 THEN 0 ELSE IF v > top THEN top ELSE v

NewFader == [goal |-> Full, token |-> 0]

Init ==
    /\ mixer = 0
    /\ fader = [ch \in Channels |-> NewFader]
    /\ clock = 0
    /\ manual = FALSE /\ muting = {}
    /\ req = [j \in Injects |-> NoRequest]
    /\ pc = [j \in Injects |-> "idle"]
    /\ stage = [j \in Injects |-> [ch \in Channels |-> "none"]]
    /\ origVol = [j \in Injects |-> [ch \in Channels |-> Full]]
    /\ token = [j \in Injects |-> [ch \in Channels |-> 0]]
    /\ ops = 0
    /\ owner = [ch \in Channels |-> NoOne]

(***************************************************************************)
(* The mixer.                                                              *)
(***************************************************************************)

\* startFFmpeg makes a new mixer, whose faders know nothing of the old ones.
NewMixer ==
    /\ mixer = 0 \/ ops < MaxOps
    /\ ops' = IF mixer = 0 THEN ops ELSE ops + 1
    /\ mixer' = mixer + 1
    /\ fader' = [ch \in Channels |-> NewFader]
    /\ owner' = [ch \in Channels |-> NoOne]
    /\ UNCHANGED <<clock, manual, muting, goroutines>>

\* SetMixerVolume: without a mixer an error, which every caller but
\* /mixer/volume ignores.
SetVolume(ch, v, who) ==
    IF mixer = 0 THEN UNCHANGED <<fader, clock, owner>>
    ELSE /\ clock' = clock + 1
         /\ fader' = [fader EXCEPT ![ch] = [goal |-> Clamp(v, MaxLevel), token |-> clock']]
         /\ owner' = [owner EXCEPT ![ch] = who]

(***************************************************************************)
(* The operator.                                                           *)
(***************************************************************************)

MixerVolume(ch, v) ==
    /\ ops < MaxOps /\ mixer # 0
    /\ ops' = ops + 1
    /\ SetVolume(ch, v, Operator)
    /\ UNCHANGED <<mixer, manual, muting, goroutines>>

\* SetMixerMode: the mode changes at once, then manual mode silences the
\* channels one by one.  Auto mode leaves them as they are.  Two changes of mode
\* that overlap are left out.
SetMixerMode(isManual) ==
    /\ ops < MaxOps /\ muting = {}
    /\ ops' = ops + 1
    /\ manual' = isManual
    /\ muting' = IF isManual /\ mixer # 0 THEN Channels ELSE {}
    /\ UNCHANGED <<mixer, fader, clock, goroutines, owner>>

SilenceNext ==
    /\ \E ch \in muting :
          /\ \A c \in muting : ch <= c
          /\ muting' = muting \ {ch}
          /\ SetVolume(ch, 0, Operator)
    /\ UNCHANGED <<mixer, manual, ops, goroutines>>

(***************************************************************************)
(* handleBreaking.                                                         *)
(***************************************************************************)

\* The handler ignores the request in manual mode and starts the goroutine.
Breaking(j, r) ==
    /\ pc[j] = "idle" /\ ~manual
    /\ req' = [req EXCEPT ![j] = r]
    /\ pc' = [pc EXCEPT ![j] = IF r.file THEN "silence" ELSE "duck"]
    /\ stage' = [stage EXCEPT ![j] = [ch \in Channels |->
                    IF ch \in DOMAIN r.volumes THEN "todo" ELSE "none"]]
    /\ UNCHANGED <<mixer, fader, clock, mode, origVol, token, owner>>

\* The target channel is silenced before the file is played on it.
SilenceTarget(j) ==
    /\ pc[j] = "silence"
    /\ pc' = [pc EXCEPT ![j] = "duck"]
    /\ SetVolume(req[j].target, 0, j)
    /\ UNCHANGED <<mixer, mode, req, stage, origVol, token>>

\* Mutant: a ducked channel's level is taken for its own.
ReadVolumeAsIs(j, ch) ==
    /\ pc[j] = "duck" /\ stage[j][ch] = "todo"
    /\ \A c \in Channels : stage[j][c] # "read"
    /\ origVol' = [origVol EXCEPT ![j][ch] = IF mixer = 0 THEN Full ELSE fader[ch].goal]
    /\ stage' = [stage EXCEPT ![j][ch] = IF req[j].file /\ ch # req[j].target THEN "sleep"
                                         ELSE "read"]
    /\ UNCHANGED <<mixer, fader, clock, mode, req, pc, token, owner>>

\* The next channel of the map, in any order: its level is read, a low one taken
\* for ducked.  With a file, a goroutine of its own ducks each other channel in a
\* second.
ReadVolume(j, ch) ==
    /\ pc[j] = "duck" /\ stage[j][ch] = "todo"
    /\ \A c \in Channels : stage[j][c] # "read"
    /\ origVol' = [origVol EXCEPT ![j][ch] = IF mixer = 0 \/ fader[ch].goal < Full THEN Full
                                              ELSE fader[ch].goal]
    /\ stage' = [stage EXCEPT ![j][ch] = IF req[j].file /\ ch # req[j].target THEN "sleep"
                                         ELSE "read"]
    /\ UNCHANGED <<mixer, fader, clock, mode, req, pc, token, owner>>

\* Mutant: the token of the SetVolume is not kept.
DuckNoToken(j, ch) ==
    /\ stage[j][ch] \in {"read", "sleep"}
    /\ SetVolume(ch, Clamp(req[j].volumes[ch], Full), j)
    /\ stage' = [stage EXCEPT ![j][ch] = "set"]
    /\ UNCHANGED <<mixer, mode, req, pc, origVol, token>>

\* The channel goes to its level of the request.
Duck(j, ch) ==
    /\ stage[j][ch] \in {"read", "sleep"}
    /\ SetVolume(ch, Clamp(req[j].volumes[ch], Full), j)
    /\ token' = [token EXCEPT ![j][ch] = IF mixer = 0 THEN 0 ELSE clock']
    /\ stage' = [stage EXCEPT ![j][ch] = "set"]
    /\ UNCHANGED <<mixer, mode, req, pc, origVol>>

\* wg.Wait is over.  Only a file of more than a second is waited for.
Ducked(j) ==
    /\ pc[j] = "duck" /\ \A ch \in Channels : stage[j][ch] \in {"none", "set"}
    /\ pc' = [pc EXCEPT ![j] = IF req[j].file /\ req[j].long THEN "restore" ELSE "done"]
    /\ UNCHANGED <<mixer, fader, clock, mode, req, stage, origVol, token, owner>>

\* Mutant: the token is not compared.
RestoreAnyway(j, ch) ==
    /\ pc[j] = "restore" /\ stage[j][ch] = "set"
    /\ stage' = [stage EXCEPT ![j][ch] = "back"]
    /\ IF mixer # 0
       THEN /\ fader' = [fader EXCEPT ![ch].goal = Clamp(origVol[j][ch], MaxLevel)]
            /\ owner' = [owner EXCEPT ![ch] = IF @ = j THEN NoOne ELSE @]
       ELSE UNCHANGED <<fader, owner>>
    /\ UNCHANGED <<mixer, clock, mode, req, pc, origVol, token>>

\* The file is over: the channel goes back if its token is still the one.
Restore(j, ch) ==
    /\ pc[j] = "restore" /\ stage[j][ch] = "set"
    /\ stage' = [stage EXCEPT ![j][ch] = "back"]
    /\ IF mixer # 0 /\ fader[ch].token = token[j][ch]
       THEN /\ fader' = [fader EXCEPT ![ch].goal = Clamp(origVol[j][ch], MaxLevel)]
            /\ owner' = [owner EXCEPT ![ch] = IF @ = j THEN NoOne ELSE @]
       ELSE UNCHANGED <<fader, owner>>
    /\ UNCHANGED <<mixer, clock, mode, req, pc, origVol, token>>

Announce(j) ==
    \/ SilenceTarget(j) \/ Ducked(j)
    \/ \E ch \in Channels : ReadVolume(j, ch) \/ Duck(j, ch) \/ Restore(j, ch)

Next ==
    \/ NewMixer
    \/ \E ch \in Channels, v \in Asked : MixerVolume(ch, v)
    \/ \E isManual \in BOOLEAN : SetMixerMode(isManual)
    \/ SilenceNext
    \/ \E j \in Injects : Announce(j) \/ \E r \in Requests : Breaking(j, r)

\* A goroutine that runs goes on: sleeps end, and no lock is held for long.
Fairness == \A j \in Injects : WF_vars(Announce(j))

Spec == Init /\ [][Next]_vars

FairSpec == Spec /\ Fairness

(***************************************************************************)
(* Properties                                                              *)
(***************************************************************************)

Levels == 0 .. MaxLevel

\* Every variable has its type, and levels are clamped.
TypeOK ==
    /\ mixer \in 0 .. ops + 1 /\ clock \in Nat
    /\ fader \in [Channels -> [goal : Levels, token : 0 .. clock]]
    /\ manual \in BOOLEAN /\ muting \subseteq Channels
    /\ req \in [Injects -> Requests \union {NoRequest}]
    /\ \A j \in Injects : req[j] = NoRequest <=> pc[j] = "idle"
    /\ pc \in [Injects -> {"idle", "silence", "duck", "restore", "done"}]
    /\ stage \in [Injects -> [Channels -> {"none", "todo", "read", "sleep", "set", "back"}]]
    /\ \A j \in Injects, ch \in Channels :
          stage[j][ch] # "none" => req[j] # NoRequest /\ ch \in DOMAIN req[j].volumes
    /\ origVol \in [Injects -> [Channels -> Full .. MaxLevel]]
    /\ token \in [Injects -> [Channels -> 0 .. clock]]
    /\ ops \in 0 .. MaxOps
    /\ owner \in [Channels -> Injects \union {Operator, NoOne}]

\* API.md:488, "To prevent sequential overlaps from breaking fader restoration":
\* a fader that nobody holds, be it new or restored, is not ducked, however many
\* announcements read each other's ducked levels.
FreeFadersAreUp ==
    \A ch \in Channels : owner[ch] = NoOne => fader[ch].goal >= Full

\* What TakenOverStays rests on: a fader that somebody holds has the token of its
\* holder's SetVolume, and a goroutine that kept the same token is the holder.
TokenIsOwners ==
    \A ch \in Channels : owner[ch] # NoOne =>
        /\ fader[ch].token > 0
        /\ \A j \in Injects : token[j][ch] = fader[ch].token => owner[ch] = j

\* API.md:488, "*only* if no subsequent breaking request has taken over": what
\* another request or the operator set after the announcement's own SetVolume
\* survives the announcement's end.
TakenOverStays ==
    [][ \A j \in Injects, ch \in Channels :
            stage[j][ch] = "set" /\ stage'[j][ch] = "back" /\ owner[ch] \notin {j, NoOne}
                => fader'[ch] = fader[ch] ]_vars

(***************************************************************************)
(* Refinement of Faders.                                                   *)
(***************************************************************************)

Goals == [ch \in Channels |-> fader[ch].goal]

\* The channels that an announcement has ducked and will restore: only those of a
\* file of more than a second.
Due == {d \in Injects \X Channels :
            stage[d[1]][d[2]] = "set" /\ req[d[1]].file /\ req[d[1]].long}

Holding == INSTANCE Faders WITH
    Users  <- Injects \union {Operator},
    up     <- mixer # 0,
    level  <- Goals,
    holder <- owner,
    due    <- Due

\* API.md:488: announcements, the operator, changes of mode and restarts of the engine
\* use the faders as Faders says: the end of an announcement gives back what it still
\* holds and touches nothing else, be it taken over or of another mixer.
SharesFaders == Holding!Spec

\* An announcement of more than a second gives back each fader of its map, unless
\* somebody else takes it over first, and in the end it owes none of them.
DucksEnd ==
    \A j \in Injects, ch \in Channels :
        LET asked == ch \in DOMAIN req[j].volumes /\ req[j].file /\ req[j].long
        IN  (owner[ch] = j /\ asked) \/ <<j, ch>> \in Due
                ~> owner[ch] # j /\ <<j, ch>> \notin Due
=============================================================================
