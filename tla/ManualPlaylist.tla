--------------------------- MODULE ManualPlaylist ---------------------------
(***************************************************************************)
(* manageManualPlaylist of encoder/ffmpeg.go: the HLS playlist of one AAC  *)
(* variant.                                                                *)
(*                                                                         *)
(* ffmpeg writes raw_seg_0.ts, raw_seg_1.ts, ...; the goroutine moves each *)
(* finished one to the slot seg_(index mod Slots).ts and lists the slots   *)
(* in index.m3u8.  Every start of the engine starts such a goroutine and   *)
(* an ffmpeg that counts from 0 again; the slots stay.  A goroutine ends   *)
(* when it finds the engine stopped, so one that looks only after the next *)
(* start goes on next to its successor.                                    *)
(*                                                                         *)
(* A segment is its number, counted from 1 over all starts: the order of   *)
(* the modification times.  Durations and the text of the list are left    *)
(* out; index.m3u8 is what its last os.WriteFile wrote.                    *)
(***************************************************************************)
EXTENDS Integers, Sequences, FiniteSets, FiniteSetsExt

CONSTANTS Slots,      \* segment files of the variant (10 in the code)
          MinSegs,    \* segments below which no list is written (3)
          MaxStarts,  \* bound: starts of the engine
          MaxBacklog, \* bound: finished raw files that wait to be moved
          MaxIndex    \* bound: index of ffmpeg's last raw file

ASSUME PlaylistAssumption ==
    /\ Slots \in Nat \ {0} /\ MinSegs \in 1 .. Slots
    /\ MaxBacklog \in 1 .. Slots
    /\ MaxStarts \in Nat \ {0} /\ MaxIndex \in Nat

VARIABLES
    started,   \* ae.started
    gen,       \* starts of the engine so far
    base,      \* the number of the last segment before this start
    pos,       \* index of the raw file ffmpeg writes (-1: none yet)
    settled,   \* the file ffmpeg closed last is older than 500 ms
    raw,       \* the raw files on disk: index -> segment, 0 for none
    slot,      \* the slot files on disk: slot -> segment, 0 for none
    manager,   \* control state of each start's goroutine
    top,       \* its maxRawIdx
    known,     \* the keys of its durations
    playlist   \* index.m3u8, and `base` at the time it was written

ffmpeg == <<started, gen, base, pos, settled>>
disk   == <<raw, slot>>
vars   == <<started, gen, base, pos, settled, raw, slot, manager, top, known, playlist>>

Managers  == 1 .. MaxStarts
Indices   == 0 .. MaxIndex
SlotIds   == 0 .. Slots - 1
NoList    == [seq |-> 0, segs |-> <<>>, base |-> 0]
NoRaw     == [i \in Indices |-> 0]
Present(f) == {i \in DOMAIN f : f[i] # 0}

Init ==
    /\ started = FALSE /\ gen = 0
    /\ base = 0 /\ pos = -1 /\ settled = TRUE
    /\ raw = NoRaw
    /\ slot = [i \in SlotIds |-> 0]
    /\ manager = [m \in Managers |-> "none"]
    /\ top = [m \in Managers |-> -1]
    /\ known = [m \in Managers |-> {}]
    /\ playlist = NoList

(***************************************************************************)
(* ffmpeg and the engine.                                                  *)
(***************************************************************************)

StartEngine ==
    /\ ~started /\ gen < MaxStarts
    /\ started' = TRUE
    /\ gen' = gen + 1
    /\ manager' = [manager EXCEPT ![gen+1] = "clean"]
    /\ base' = base + pos + 1 /\ pos' = -1
    /\ settled' = TRUE
    /\ UNCHANGED <<disk, top, known, playlist>>

\* A reset, or the exit of ffmpeg noticed by its monitor.  The raw files stay.
StopEngine ==
    /\ started /\ gen < MaxStarts
    /\ started' = FALSE
    /\ UNCHANGED <<gen, base, pos, settled, disk, manager, top, known, playlist>>

\* ffmpeg closes its raw file and opens the next.  A segment takes longer than
\* 500 ms, and a goroutine's first steps are done before the first one ends.
NextSegment ==
    /\ started /\ settled /\ pos < MaxIndex
    /\ Cardinality(Present(raw)) <= MaxBacklog
    /\ pos >= 0 => \A m \in Managers : manager[m] # "clean"
    /\ pos' = pos + 1
    /\ raw' = [raw EXCEPT ![pos+1] = base + pos + 2]
    /\ settled' = (pos = -1)
    /\ UNCHANGED <<started, gen, base, slot, manager, top, known, playlist>>

\* 500 ms pass.
Settle ==
    /\ ~settled
    /\ settled' = TRUE
    /\ UNCHANGED <<started, gen, base, pos, disk, manager, top, known, playlist>>

(***************************************************************************)
(* The goroutine.                                                          *)
(***************************************************************************)

\* Remove the raw files of the previous ffmpeg (or the first one of the new
\* ffmpeg with them), and look up the slots there are.
Clean(m) ==
    /\ manager[m] = "clean"
    /\ raw' = NoRaw
    /\ known' = [known EXCEPT ![m] = Present(slot)]
    /\ manager' = [manager EXCEPT ![m] = "loop"]
    /\ UNCHANGED <<ffmpeg, slot, top, playlist>>

Exit(m) ==
    /\ manager[m] = "loop" /\ ~started
    /\ manager' = [manager EXCEPT ![m] = "done"]
    /\ UNCHANGED <<ffmpeg, disk, top, known, playlist>>

\* Mutant: the slot is the index itself, not the index mod Slots.
MovedNoWrap(P) ==
    {[i \in SlotIds \union P |-> IF i \in P THEN raw[i] ELSE slot[i]]}

\* The files of P are moved to their slots, in an order that is not that of
\* their indices (Glob sorts by name): those of `last` are the last of each slot.
Moved(P) ==
    {[i \in SlotIds |-> LET mine == {p \in last : p % Slots = i}
                        IN  IF mine = {} THEN slot[i] ELSE raw[CHOOSE p \in mine : TRUE]]
     : last \in {L \in SUBSET P : \A p \in P :
                     Cardinality({q \in L : q % Slots = p % Slots}) = 1}}

\* Mutant: the newest raw file is moved as well, though ffmpeg still writes it.
PromoteUnfinished(m) ==
    /\ manager[m] = "loop" /\ started
    /\ top' = [top EXCEPT ![m] = Max(Present(raw) \union {-1})]
    /\ \E P \in {Present(raw)} :
          /\ slot' \in Moved(P)
          /\ raw' = [i \in Indices |-> IF i \in P THEN 0 ELSE raw[i]]
    /\ manager' = [manager EXCEPT ![m] = "scan"]
    /\ UNCHANGED <<ffmpeg, known, playlist>>

\* One turn of the loop: find the newest raw file and move the older ones that
\* were not modified within 500 ms.  (The one ffmpeg writes now is among them if
\* a raw file of its predecessor has a higher index; it is young or not.)
Promote(m) ==
    /\ manager[m] = "loop" /\ started
    /\ top' = [top EXCEPT ![m] = Max(Present(raw) \union {-1})]
    /\ \E young \in SUBSET {pos} :
          LET P == {i \in Present(raw) : i < top'[m]}
                      \ (young \union IF settled THEN {} ELSE {pos - 1})
          IN  /\ slot' \in Moved(P)
              /\ raw' = [i \in Indices |-> IF i \in P THEN 0 ELSE raw[i]]
    /\ manager' = [manager EXCEPT ![m] = "scan"]
    /\ UNCHANGED <<ffmpeg, known, playlist>>

Newest == CHOOSE i \in SlotIds : \A j \in SlotIds : slot[j] <= slot[i]

\* Mutant: the first index is taken one slot too early.
ListOfShifted(n, maxRawIdx) ==
    [seq  |-> Max({0, maxRawIdx - n + 1}),
     segs |-> [i \in 1 .. n |-> slot[(Newest - n + i - 1 + Slots) % Slots]],
     base |-> base]

\* Mutant: the sequence number is one too low.
ListOfLowNumber(n, maxRawIdx) ==
    [seq  |-> Max({0, maxRawIdx - n}),
     segs |-> [i \in 1 .. n |-> slot[(Newest - n + i + Slots) % Slots]],
     base |-> base]

\* The list of the n slots up to the newest.
ListOf(n, maxRawIdx) ==
    [seq  |-> Max({0, maxRawIdx - n + 1}),
     segs |-> [i \in 1 .. n |-> slot[(Newest - n + i + Slots) % Slots]],
     base |-> base]

\* Mutant: with too few segments the goroutine returns instead of going on.
PublishOrReturn(m) ==
    /\ manager[m] = "scan"
    /\ known' = [known EXCEPT ![m] = @ \union Present(slot)]
    /\ LET n == Cardinality(known'[m])
       IN  /\ playlist' = IF Present(slot) = {} \/ n < MinSegs THEN playlist
                          ELSE ListOf(n, top[m])
           /\ manager' = [manager EXCEPT ![m] = IF n < MinSegs THEN "done" ELSE "loop"]
    /\ UNCHANGED <<ffmpeg, disk, top>>

\* The rest of the turn: look at the slots and write the list.
Publish(m) ==
    /\ manager[m] = "scan"
    /\ known' = [known EXCEPT ![m] = @ \union Present(slot)]
    /\ LET n == Cardinality(known'[m])
       IN  playlist' = IF Present(slot) = {} \/ n < MinSegs THEN playlist
                       ELSE ListOf(n, top[m])
    /\ manager' = [manager EXCEPT ![m] = "loop"]
    /\ UNCHANGED <<ffmpeg, disk, top>>

Next ==
    \/ StartEngine \/ StopEngine \/ NextSegment \/ Settle
    \/ \E m \in Managers : Clean(m) \/ Exit(m) \/ Promote(m) \/ Publish(m)

Fairness ==
    /\ WF_vars(Settle)
    /\ \A m \in Managers : WF_vars(Clean(m) \/ Exit(m) \/ Promote(m) \/ Publish(m))

Spec == Init /\ [][Next]_vars

FairSpec == Spec /\ Fairness

(***************************************************************************)
(* Properties                                                              *)
(***************************************************************************)

\* Every variable has its type; the list is never longer than the slots.
TypeOK ==
    /\ started \in BOOLEAN /\ settled \in BOOLEAN
    /\ gen \in 0 .. MaxStarts /\ base \in Nat /\ pos \in -1 .. MaxIndex
    /\ raw \in [Indices -> Nat]
    /\ slot \in [SlotIds -> Nat]
    /\ manager \in [Managers -> {"none", "clean", "loop", "scan", "done"}]
    /\ top \in [Managers -> -1 .. MaxIndex]
    /\ known \in [Managers -> SUBSET SlotIds]
    /\ playlist.seq \in Nat /\ playlist.base \in Nat
    /\ playlist.segs \in Seq(Nat) /\ Len(playlist.segs) <= Slots

Consecutive(s) == \A i \in 1 .. Len(s) - 1 : s[i+1] = s[i] + 1

\* The list names consecutive segments, oldest first, each of which is on disk:
\* always before the first restart, and after a restart as soon as every slot
\* was written anew, whether one goroutine or two maintain it.
ListIsWindow ==
    playlist.base = 0 \/ (Len(playlist.segs) = Slots /\ \A i \in 1 .. Slots :
                                                           playlist.segs[i] > playlist.base)
        => /\ Consecutive(playlist.segs)
           /\ \A i \in 1 .. Len(playlist.segs) : playlist.segs[i] # 0

\* No segment is listed while ffmpeg still writes it, in the first generation.
NoUnfinishedSegment ==
    \A i \in 1 .. Len(playlist.segs) :
        playlist.base = 0 /\ base = 0 => playlist.segs[i] <= pos

\* ffmpeg.go:808, "rises by exactly 1 per segment": the sequence number and the first
\* segment of a list are computed from different files, the newest raw one and the
\* newest slot.  With one goroutine the number runs one ahead of the segment's
\* index, or two while the segment before the newest is too young to be moved; it is
\* never further off, whether the slots are full or still filling.
SequenceNearSegments ==
    gen = 1 /\ playlist.segs # <<>>
        => playlist.seq - (playlist.segs[1] - 1) \in {1, 2}

\* A finished segment is listed in the end, or newer ones instead of it, unless
\* the engine stops first.  (The first raw file does not count towards the
\* MinSegs of a list: the goroutine may have removed it.)
SegmentsArePublished ==
    \A i \in Indices :
        /\ gen = 1 /\ started /\ manager[1] = "loop"
        /\ raw[i] # 0 /\ i < pos /\ i >= MinSegs
        ~> ~started \/ (playlist.segs # <<>> /\ playlist.segs[Len(playlist.segs)] >= i + 1)
=============================================================================
