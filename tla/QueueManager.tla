---------------------------- MODULE QueueManager ----------------------------
(***************************************************************************)
(* The two queues of a station, station/queue.go, with their callers in    *)
(* station/manager.go and station/lifecycle.go, and the file .queue.json   *)
(* that survives a crash of the program.                                   *)
(*                                                                         *)
(* The insert queue has priority over the playlist queue; the playlist     *)
(* queue is refilled from the original pool when Loop is set; PlayedSet    *)
(* implements Unique.  API requests (Handlers) change the queues while the *)
(* runner pops tracks.  An operation and the Save after it are two         *)
(* critical sections of qm.mu, and Save rewrites the file in place, so a   *)
(* crash finds it truncated if it comes in between.                        *)
(*                                                                         *)
(* PlayedSet holds a file's path and its basename.  Both enter and leave   *)
(* together, so a path in the set implies its basename is: the model keeps *)
(* the basenames, which is what every membership test comes down to.       *)
(***************************************************************************)
EXTENDS Integers, Sequences, FiniteSets, SequencesExt

CONSTANTS Files,         \* paths of audio files
          Names,         \* their basenames
          Base,          \* filepath.Base
          MissingFiles,  \* files deleted after they were queued
          Silent,        \* silent_5s.mp3, not a file of the queues
          NoFile,        \* ""
          Handlers,      \* concurrent API requests
          Batches,       \* the `files` of the inject requests
          Configs,       \* [loop, random, unique] settings of the station
          PlaylistDirs,  \* what the station.cfg playlist directory may hold
          MaxOps,        \* bound: queue requests served
          MaxCrashes     \* bound: crashes of the program

ASSUME QueueAssumption ==
    /\ Base \in [Files -> Names]
    /\ MissingFiles \subseteq Files
    /\ Silent \notin Files /\ NoFile \notin Files /\ Silent # NoFile
    /\ Batches \subseteq Seq(Files)
    /\ PlaylistDirs \subseteq Seq(Files)
    /\ Configs \subseteq [loop : BOOLEAN, random : BOOLEAN, unique : BOOLEAN]
    /\ NoFile \notin Handlers
    /\ MaxOps \in Nat /\ MaxCrashes \in Nat

VARIABLES
    insert,      \* Station.InsertQueue
    playlist,    \* Station.PlaylistQueue
    original,    \* Station.OriginalQueue
    played,      \* Station.PlayedSet, basenames
    cfg,         \* the three settings of Station.Config
    current,     \* Station.CurrentFile
    rpc,         \* control state of the runner
    next,        \* the track the runner popped and has not started
    lock,        \* the request inside Save's critical section of qm.mu
    pc,          \* control state of each request
    arg,         \* RestartCurrent's currentFile
    snapshot,    \* the data Save marshalled
    disk,        \* .queue.json
    up,          \* the program runs
    playlistDir, \* the files of the configured playlist directory
    ops, crashes,\* what the bounds count
    heard,       \* basenames the playlist gave, under Random and Unique, in this pass
    promise      \* what the last playlist request promised of the next pop

queues == <<insert, playlist, original, played>>
saving == <<lock, snapshot, disk>>
world  == <<up, playlistDir, crashes>>
runner == <<current, rpc, next>>
vars   == <<insert, playlist, original, played, cfg, current, rpc, next, lock, pc, arg,
            snapshot, disk, up, playlistDir, ops, crashes, heard, promise>>

Saved     == [playlist : Seq(Files), original : Seq(Files), played : SUBSET Names]
Nothing   == [playlist |-> <<>>, original |-> <<>>, played |-> {}]
NoDisk    == [state |-> "none", data |-> Nothing]  \* the file does not exist
TornDisk  == [state |-> "torn", data |-> Nothing]  \* not yet wholly written
OnDisk(s) == [state |-> "saved", data |-> s]

(***************************************************************************)
(* Picking the next file.                                                  *)
(***************************************************************************)

\* The elements of s at the indices D, in their order.
Keep(s, D) ==
    LET K[n \in 0 .. Len(s)] == IF n = 0 THEN <<>>
                                ELSE IF n \in D THEN Append(K[n-1], s[n]) ELSE K[n-1]
    IN  K[Len(s)]

Picked(f, isInsert, ins, pl, pd) ==
    [file |-> f, isInsert |-> isInsert, insert |-> ins, playlist |-> pl, played |-> pd]

\* The pop without Unique: the head, or any element with Random.
PickAny(pl, pd, random) ==
    IF pl = <<>> THEN { Picked(NoFile, FALSE, <<>>, pl, pd) }
    ELSE { Picked(pl[i], FALSE, <<>>, RemoveAt(pl, i), pd \union {Base[pl[i]]}) :
              i \in IF random THEN DOMAIN pl ELSE {1} }

\* Mutant: popPlaylist's skip of a played file does not look at PlayedSet.
PickFreshUnchecked(pl, pd) == PickAny(pl, pd, TRUE)

\* Mutant: the played entries are skipped and PlayedSet is never emptied.
PickFreshNoReset(pl, pd) ==
    LET fresh == { i \in DOMAIN pl : Base[pl[i]] \notin pd }
        stale == DOMAIN pl \ fresh
    IN  IF fresh = {}
        THEN { Picked(NoFile, FALSE, <<>>, <<>>, pd) }
        ELSE { Picked(pl[i], FALSE, <<>>, Keep(pl, DOMAIN pl \ (D \union {i})),
                      pd \union {Base[pl[i]]}) :
                  i \in fresh, D \in SUBSET stale }

\* The pop with Unique and Random, recursion of popPlaylist included: already
\* played entries that the dice hit are dropped, until an entry not played yet
\* comes up or the queue is empty.  Only the latter empties PlayedSet.
PickFresh(pl, pd) ==
    LET fresh == { i \in DOMAIN pl : Base[pl[i]] \notin pd }
        stale == DOMAIN pl \ fresh
    IN  IF fresh = {}
        THEN { Picked(NoFile, FALSE, <<>>, <<>>, IF pl = <<>> THEN pd ELSE {}) }
        ELSE { Picked(pl[i], FALSE, <<>>, Keep(pl, DOMAIN pl \ (D \union {i})),
                      pd \union {Base[pl[i]]}) :
                  i \in fresh, D \in SUBSET stale }

\* Mutant: the refill gives the whole pool but its last file.
NextFileShortLoop(ins, pl, orig, pd, c) ==
    IF ins # <<>>
    THEN { Picked(Head(ins), TRUE, Tail(ins), pl, pd) }
    ELSE LET loops == pl = <<>> /\ c.loop /\ orig # <<>>
             pl0   == IF loops THEN IF Len(orig) > 1 THEN Front(orig) ELSE orig ELSE pl
             pd0   == IF loops THEN {} ELSE pd
         IN  IF c.unique /\ c.random THEN PickFresh(pl0, pd0)
             ELSE PickAny(pl0, pd0, c.random)

\* Mutant: the refill happens without looking at Config.Loop.
NextFileAlwaysLoop(ins, pl, orig, pd, c) ==
    IF ins # <<>>
    THEN { Picked(Head(ins), TRUE, Tail(ins), pl, pd) }
    ELSE LET loops == pl = <<>> /\ orig # <<>>
             pl0   == IF loops THEN orig ELSE pl
             pd0   == IF loops THEN {} ELSE pd
         IN  IF c.unique /\ c.random THEN PickFresh(pl0, pd0)
             ELSE PickAny(pl0, pd0, c.random)

\* Everything NextFile can return, with the queues it leaves.
NextFile(ins, pl, orig, pd, c) ==
    IF ins # <<>>
    THEN { Picked(Head(ins), TRUE, Tail(ins), pl, pd) }
    ELSE LET loops == pl = <<>> /\ c.loop /\ orig # <<>>
             pl0   == IF loops THEN orig ELSE pl
             pd0   == IF loops THEN {} ELSE pd
         IN  IF c.unique /\ c.random THEN PickFresh(pl0, pd0)
             ELSE PickAny(pl0, pd0, c.random)

\* What NextFile stands for: popPlaylist as the code has it, under Random.  A played
\* file is dropped and the function calls itself; when that emptied the queue,
\* PlayedSet is emptied too, and the call finds nothing.
PopPlaylist(queue, pd) ==
    LET Pop[pl \in Seq(Files)] ==
            IF pl = <<>> THEN { Picked(NoFile, FALSE, <<>>, <<>>, pd) }
            ELSE UNION { LET rest == RemoveAt(pl, i)
                         IN  IF ~(cfg.unique /\ Base[pl[i]] \in pd)
                             THEN { Picked(pl[i], FALSE, <<>>, rest, pd \union {Base[pl[i]]}) }
                             ELSE IF rest = <<>> THEN { Picked(NoFile, FALSE, <<>>, <<>>, {}) }
                             ELSE Pop[rest] :
                         i \in DOMAIN pl }
    IN  Pop[queue]

\* The playlist half of NextFile: its own first try, then popPlaylist.
NextFromPlaylist(pl, pd) ==
    IF pl = <<>> THEN { Picked(NoFile, FALSE, <<>>, pl, pd) }
    ELSE UNION { LET rest == RemoveAt(pl, i)
                 IN  IF cfg.unique /\ cfg.random /\ Base[pl[i]] \in pd
                     THEN PopPlaylist(rest, IF rest = <<>> THEN {} ELSE pd)
                     ELSE { Picked(pl[i], FALSE, <<>>, rest, pd \union {Base[pl[i]]}) } :
                 i \in IF cfg.random THEN DOMAIN pl ELSE {1} }

\* RemoveFromQueue's search: the first entry with the basename of f.
FirstNamed(q, f) ==
    LET hits == { i \in DOMAIN q : Base[q[i]] = Base[f] }
    IN  IF hits = {} THEN 0 ELSE CHOOSE i \in hits : \A j \in hits : i <= j

Init ==
    /\ insert = <<>> /\ playlist = <<>> /\ original = <<>> /\ played = {}
    /\ cfg \in Configs
    /\ current = Silent /\ rpc = "boot" /\ next = NoFile
    /\ lock = NoFile
    /\ pc = [h \in Handlers |-> "idle"]
    /\ arg = [h \in Handlers |-> NoFile]
    /\ snapshot = NoDisk
    /\ disk = NoDisk
    /\ up = FALSE
    /\ playlistDir \in PlaylistDirs
    /\ ops = 0 /\ crashes = 0
    /\ heard = <<>> /\ promise = NoFile

(***************************************************************************)
(* The runner: runLoop, popTrack and selfHeal of lifecycle.go.             *)
(***************************************************************************)

\* The bootstrap, the encoding of silence, succeeds ...
Boot ==
    /\ up /\ rpc = "boot"
    /\ rpc' = "pop"
    /\ UNCHANGED <<queues, cfg, current, next, saving, pc, arg, world, ops, heard,
                   promise>>

\* ... or fails: selfHeal empties the queues under Station.mu, without qm.mu and
\* without Save, and the runner starts over.
SelfHeal ==
    /\ up /\ rpc = "boot" /\ \A h \in Handlers : pc[h] # "refilling"
    /\ insert' = <<>> /\ playlist' = <<>>
    /\ promise' = NoFile
    /\ UNCHANGED <<original, played, cfg, runner, saving, pc, arg, world, ops, heard>>

\* What the loop plays after a pop of f.  Without a track it plays silence, once:
\* then it sleeps and pops again, as popTrack does after a file that is gone.
ToPlay(f) ==
    CASE f \in MissingFiles -> NoFile
      [] f = NoFile -> IF current = Silent THEN NoFile ELSE Silent
      [] OTHER -> f

\* One call of NextFile.  popTrack calls again when the file does not exist; with
\* nothing to play the runner starts silence, unless that is what plays.
PopTrack ==
    /\ up /\ rpc = "pop" /\ lock = NoFile
    /\ \E r \in NextFile(insert, playlist, original, played, cfg) :
          /\ insert' = r.insert
          /\ playlist' = r.playlist
          /\ played' = r.played
          /\ next' = ToPlay(r.file)
          /\ heard' = IF r.isInsert THEN heard
                      ELSE IF r.file = NoFile THEN <<>>
                      ELSE (IF playlist = <<>> THEN <<>> ELSE heard)
                           \o (IF cfg.random /\ cfg.unique THEN <<Base[r.file]>> ELSE <<>>)
          /\ promise' = IF r.isInsert THEN promise ELSE NoFile
    /\ rpc' = IF next' = NoFile THEN "pop" ELSE "popped"
    /\ UNCHANGED <<original, cfg, current, saving, pc, arg, world, ops>>

\* After ffprobe gave its duration the track starts, under Station.mu.
StartTrack ==
    /\ up /\ rpc = "popped"
    /\ current' = next /\ next' = NoFile
    /\ rpc' = "pop"
    /\ UNCHANGED <<queues, cfg, saving, pc, arg, world, ops, heard, promise>>

(***************************************************************************)
(* Requests: the first critical section of each operation.                 *)
(***************************************************************************)

\* A request takes qm.mu for its operation, and goes on to Save or, when
\* nothing is left to do, to `then`.
Serve(h, then) ==
    /\ up /\ pc[h] = "idle" /\ lock = NoFile /\ ops < MaxOps
    /\ ops' = ops + 1
    /\ pc' = [pc EXCEPT ![h] = then]
    /\ UNCHANGED <<cfg, runner, saving, arg, world>>

PushInsert(h, files) ==
    /\ Serve(h, "save")
    /\ insert' = insert \o files
    /\ UNCHANGED <<playlist, original, played, heard, promise>>

\* Mutant: no Save after the append.
PushPlaylistNoSave(h, files) ==
    /\ Serve(h, "idle")
    /\ playlist' = playlist \o files
    /\ original' = original \o files
    /\ promise' = IF promise = Silent THEN NoFile ELSE promise
    /\ UNCHANGED <<insert, played, heard>>

PushPlaylist(h, files) ==
    /\ Serve(h, "save")
    /\ playlist' = playlist \o files
    /\ original' = original \o files
    /\ promise' = IF promise = Silent THEN NoFile ELSE promise
    /\ UNCHANGED <<insert, played, heard>>

Replaced(files) ==
    /\ playlist' = files /\ original' = files /\ played' = {}
    /\ heard' = <<>> /\ promise' = NoFile

ReplacePlaylist(h, files) ==
    /\ Serve(h, "save")
    /\ Replaced(files)
    /\ UNCHANGED insert

\* SetMixerMode("manual") clears "all"; the original pool and PlayedSet stay.
ClearQueue(h, type) ==
    /\ Serve(h, "save")
    /\ insert' = IF type \in {"insert", "all"} THEN <<>> ELSE insert
    /\ playlist' = IF type \in {"playlist", "all"} THEN <<>> ELSE playlist
    /\ promise' = IF type = "insert" THEN promise ELSE Silent
    /\ UNCHANGED <<original, played, heard>>

\* The first entry with that basename goes; without one there is no Save.
RemoveFromQueue(h, type, f) ==
    LET i == FirstNamed(IF type = "insert" THEN insert ELSE playlist, f)
    IN  /\ Serve(h, IF i = 0 THEN "idle" ELSE "save")
        /\ insert' = IF type = "insert" /\ i # 0 THEN RemoveAt(insert, i) ELSE insert
        /\ playlist' = IF type = "playlist" /\ i # 0 THEN RemoveAt(playlist, i) ELSE playlist
        /\ promise' = IF type = "playlist" /\ i # 0 /\ promise # Silent THEN NoFile ELSE promise
        /\ UNCHANGED <<original, played, heard>>

\* RestartCurrent reads CurrentFile under Station.mu; it refuses silence.
RestartCurrent(h) ==
    /\ up /\ pc[h] = "idle" /\ ops < MaxOps
    /\ current # Silent
    /\ ops' = ops + 1
    /\ pc' = [pc EXCEPT ![h] = "front"]
    /\ arg' = [arg EXCEPT ![h] = current]
    /\ UNCHANGED <<queues, cfg, runner, saving, world, heard, promise>>

\* Mutant: the file is queued behind the others.
PushPlaylistFrontAtEnd(h) ==
    /\ up /\ pc[h] = "front" /\ lock = NoFile
    /\ playlist' = Append(playlist, arg[h])
    /\ pc' = [pc EXCEPT ![h] = "save"]
    /\ arg' = [arg EXCEPT ![h] = NoFile]
    /\ promise' = arg[h]
    /\ UNCHANGED <<insert, original, played, cfg, runner, saving, world, ops, heard>>

\* ... and PushPlaylistFront puts what it read back in front.
PushPlaylistFront(h) ==
    /\ up /\ pc[h] = "front" /\ lock = NoFile
    /\ playlist' = <<arg[h]>> \o playlist
    /\ pc' = [pc EXCEPT ![h] = "save"]
    /\ arg' = [arg EXCEPT ![h] = NoFile]
    /\ promise' = arg[h]
    /\ UNCHANGED <<insert, original, played, cfg, runner, saving, world, ops, heard>>

SetConfig(h, c) ==
    /\ up /\ pc[h] = "idle" /\ ops < MaxOps
    /\ ops' = ops + 1
    /\ cfg' = c
    /\ UNCHANGED <<queues, runner, saving, pc, arg, world, heard, promise>>

(***************************************************************************)
(* Save and Load.                                                          *)
(***************************************************************************)

Memory == [playlist |-> playlist, original |-> original, played |-> played]

\* Save takes qm.mu, marshals the queues, and os.WriteFile truncates the file.
SaveBegin(h) ==
    /\ up /\ pc[h] = "save" /\ lock = NoFile
    /\ lock' = h
    /\ snapshot' = OnDisk(Memory)
    /\ disk' = TornDisk
    /\ pc' = [pc EXCEPT ![h] = "writing"]
    /\ UNCHANGED <<queues, cfg, runner, arg, world, ops, heard, promise>>

\* Mutant: Save returns without the deferred Unlock.
SaveEndNoUnlock(h) ==
    /\ up /\ pc[h] = "writing"
    /\ disk' = snapshot
    /\ snapshot' = NoDisk
    /\ pc' = [pc EXCEPT ![h] = "idle"]
    /\ UNCHANGED <<queues, cfg, runner, arg, lock, world, ops, heard, promise>>

\* The data is written; Save returns and releases qm.mu.
SaveEnd(h) ==
    /\ up /\ pc[h] = "writing"
    /\ disk' = snapshot
    /\ snapshot' = NoDisk
    /\ lock' = NoFile
    /\ pc' = [pc EXCEPT ![h] = "idle"]
    /\ UNCHANGED <<queues, cfg, runner, arg, world, ops, heard, promise>>

\* Mutant: Load restores the queue and leaves the pool as it is.
LoadQueueOnly(d) ==
    IF d.state # "saved" THEN UNCHANGED <<playlist, original, played>>
    ELSE /\ playlist' = d.data.playlist
         /\ played' = d.data.played
         /\ UNCHANGED original

\* A missing file is no error and a torn one is an error; both change nothing.
Load(d) ==
    IF d.state # "saved" THEN UNCHANGED <<playlist, original, played>>
    ELSE /\ playlist' = d.data.playlist
         /\ original' = d.data.original
         /\ played' = d.data.played

\* SetMixerMode("auto"): Load under qm.mu, in manual mode or not ...
AutoLoad(h) ==
    /\ Serve(h, "refill")
    /\ Load(disk)
    /\ heard' = <<>> /\ promise' = NoFile
    /\ UNCHANGED insert

\* ... then, under Station.mu alone, the refill of an empty queue: the test and
\* the assignment are not atomic with what holds qm.mu.
AutoRefillTest(h) ==
    /\ up /\ pc[h] = "refill"
    /\ pc' = [pc EXCEPT ![h] = IF playlist = <<>> /\ original # <<>> THEN "refilling" ELSE "idle"]
    /\ UNCHANGED <<queues, cfg, runner, saving, arg, world, ops, heard, promise>>

AutoRefill(h) ==
    /\ up /\ pc[h] = "refilling"
    /\ playlist' = original
    /\ promise' = NoFile /\ heard' = <<>>
    /\ pc' = [pc EXCEPT ![h] = "idle"]
    /\ UNCHANGED <<insert, original, played, cfg, runner, saving, arg, world, ops>>

(***************************************************************************)
(* Crash and restart of the program.                                       *)
(***************************************************************************)

\* Memory is lost, .queue.json stays as it is.
Crash ==
    /\ up /\ crashes < MaxCrashes
    /\ crashes' = crashes + 1
    /\ up' = FALSE
    /\ insert' = <<>> /\ playlist' = <<>> /\ original' = <<>> /\ played' = {}
    /\ current' = Silent /\ rpc' = "boot" /\ next' = NoFile
    /\ lock' = NoFile /\ snapshot' = NoDisk
    /\ pc' = [h \in Handlers |-> "idle"]
    /\ arg' = [h \in Handlers |-> NoFile]
    /\ heard' = <<>> /\ promise' = NoFile
    /\ UNCHANGED <<cfg, disk, playlistDir, ops>>

\* InitStation loads the file; the runner and the API start after it.
Restart ==
    /\ ~up /\ playlistDir = <<>>
    /\ up' = TRUE
    /\ Load(disk)
    /\ UNCHANGED <<insert, cfg, runner, saving, pc, arg, playlistDir, ops, crashes,
                   heard, promise>>

\* createStationWithDir then replaces the playlist by the configured directory's
\* files and saves, before anything else runs.
RestartInject ==
    /\ ~up /\ playlistDir # <<>>
    /\ up' = TRUE
    /\ Replaced(playlistDir)
    /\ disk' = OnDisk([playlist |-> playlistDir, original |-> playlistDir, played |-> {}])
    /\ UNCHANGED <<insert, cfg, runner, lock, snapshot, pc, arg, playlistDir, ops,
                   crashes>>

\* handleInject refuses an empty list; a replacement is for the playlist only.
HandleInject(h) ==
    \E files \in Batches \ {<<>>} :
        PushInsert(h, files) \/ PushPlaylist(h, files) \/ ReplacePlaylist(h, files)

HandleQueueClear(h) == \E type \in {"insert", "playlist", "all"} : ClearQueue(h, type)

HandleQueueRemove(h) ==
    \E type \in {"insert", "playlist"}, f \in Files : RemoveFromQueue(h, type, f)

HandleStationConfig(h) == \E c \in Configs : SetConfig(h, c)

Request(h) ==
    \/ HandleInject(h) \/ HandleQueueClear(h) \/ HandleQueueRemove(h)
    \/ HandleStationConfig(h) \/ RestartCurrent(h) \/ AutoLoad(h)

Continue(h) ==
    \/ PushPlaylistFront(h) \/ SaveBegin(h) \/ SaveEnd(h)
    \/ AutoRefillTest(h) \/ AutoRefill(h)

Next ==
    \/ Boot \/ SelfHeal \/ PopTrack \/ StartTrack
    \/ \E h \in Handlers : Request(h) \/ Continue(h)
    \/ Crash \/ Restart \/ RestartInject

\* The runner keeps popping (each track ends), a request that began goes on, the
\* program is started again.
Fairness ==
    /\ WF_vars(Boot) /\ SF_vars(PopTrack) /\ WF_vars(StartTrack)
    /\ \A h \in Handlers : WF_vars(Continue(h))
    /\ WF_vars(Restart) /\ WF_vars(RestartInject)

Spec == Init /\ [][Next]_vars

FairSpec == Spec /\ Fairness

(***************************************************************************)
(* Properties                                                              *)
(***************************************************************************)

\* Every variable has its type, and qm.mu is held exactly while a Save writes.
TypeOK ==
    /\ insert \in Seq(Files) /\ playlist \in Seq(Files) /\ original \in Seq(Files)
    /\ played \subseteq Names
    /\ cfg \in Configs
    /\ current \in Files \union {Silent}
    /\ next \in Files \union {Silent, NoFile}
    /\ rpc \in {"boot", "pop", "popped"} /\ (rpc = "popped" <=> next # NoFile)
    /\ pc \in [Handlers -> {"idle", "front", "save", "writing", "refill", "refilling"}]
    /\ arg \in [Handlers -> Files \union {NoFile}]
    /\ lock \in Handlers \union {NoFile}
    /\ \A h \in Handlers : pc[h] = "writing" <=> lock = h
    /\ {disk, snapshot} \subseteq [state : {"none", "torn", "saved"}, data : Saved]
    /\ up \in BOOLEAN
    /\ heard \in Seq(Names)
    /\ promise \in Files \union {NoFile, Silent}

\* When no request has a Save before it or under way, .queue.json has the pool
\* that is in memory: a crash at that moment loses no injected file.  Two
\* requests may save in either order, each saves what it finds.
PoolIsOnDisk ==
    up /\ (\A h \in Handlers : pc[h] \notin {"save", "writing"})
        => \/ disk = NoDisk /\ original = <<>>
           \/ disk = TornDisk
           \/ disk.data.original = original

\* API.md:54, unique: "Do not play the same file twice (in random mode)", within
\* one pass over the playlist, which a reload from disk ends.
NoRepeatInPass ==
    \A i, j \in DOMAIN heard : heard[i] = heard[j] => i = j

\* NextFile's set of results is what the recursion of the code can return: a
\* random number of played files is dropped before a fresh one, PlayedSet is
\* emptied only when the whole queue was dropped.
NextFileIsRecursion ==
    insert = <<>> =>
        NextFile(insert, playlist, original, played, cfg) =
            IF playlist = <<>> /\ cfg.loop /\ original # <<>>
            THEN NextFromPlaylist(original, {})
            ELSE NextFromPlaylist(playlist, played)

\* manager.go:456: "since it's at the front, it will replay".  Without Random (with
\* it, any file of the queue may come), the playlist gives the restarted file next,
\* whatever was injected meanwhile.
RestartReplaysInOrder ==
    [][ PopTrack /\ insert = <<>> /\ promise \in Files \ MissingFiles /\ ~cfg.random
           => next' = promise ]_vars

\* Once the playlist was cleared, and until a request adds files or reloads it,
\* it gives nothing, if Loop is off.
ClearedStaysSilent ==
    [][ PopTrack /\ insert = <<>> /\ promise = Silent /\ ~cfg.loop
           => next' \in {Silent, NoFile} ]_vars

\* README.md:64, "intelligent playback loop": a looping playlist in order comes
\* round to each of its files again and again; no insert, repeat or skipped file
\* starves one.
EveryTrackReturns ==
    \A f \in Files \ MissingFiles :
        <>[](cfg.loop /\ ~cfg.random /\ f \in ToSet(original)) => []<>(current = f)
=============================================================================
