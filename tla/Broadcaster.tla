---------------------------- MODULE Broadcaster ----------------------------
(***************************************************************************)
(* The MP3 fan-out of encoder/broadcast.go and its one kind of user, the   *)
(* HTTP handler handleStream of api/handler.go.                            *)
(*                                                                         *)
(* BroadcastFrom goroutines (Feeders; two of them overlap after an encoder *)
(* reset) read chunks from the MP3 encoder's pipe and Write them.  Write   *)
(* keeps the last `capacity` chunks as history and offers the chunk to the *)
(* bounded Go channel of every listener, dropping it for a full one.       *)
(* AddListener pre-loads a new channel with the history.                   *)
(*                                                                         *)
(* A chunk is its position in broadcast order.  Every method of the        *)
(* Broadcaster is one critical section of b.mu, hence one action.          *)
(***************************************************************************)
EXTENDS Integers, Sequences, FiniteSets

CONSTANTS Clients,         \* HTTP requests for /stream/{id}.mp3
          Feeders,         \* BroadcastFrom goroutines
          ChanCap,         \* buffer of a listener's Go channel (100 in the code)
          InitCapacity,    \* history capacity of a new Broadcaster (128)
          Capacities,      \* values /mixer/buffer may set
          MaxChunks        \* bound: no Read starts after this many broadcasts

\* handleMixerBuffer refuses chunks <= 0; the two literals are positive.
ASSUME BroadcasterAssumption ==
    /\ ChanCap \in Nat \ {0}
    /\ InitCapacity \in Nat \ {0}
    /\ Capacities \subseteq Nat \ {0}
    /\ MaxChunks \in Nat

VARIABLES
    history,     \* b.history
    capacity,    \* b.capacity
    listeners,   \* b.listeners: the clients whose channel is a key of the map
    chan,        \* the content of each client's channel
    closed,      \* the clients whose channel was closed
    feeder,      \* control state of each BroadcastFrom goroutine
    client,      \* control state of each handleStream call
    hungUp,      \* the clients whose request context is done
    nChunks,     \* how many chunks were broadcast so far
    last,        \* the chunk each client took most recently (0: none yet)
    joined       \* what the stream looked like when the client was added

bcast == <<history, capacity, listeners, chan, closed>>
ghost == <<nChunks, last, joined>>
vars  == <<history, capacity, listeners, chan, closed, feeder, client, hungUp,
           nChunks, last, joined>>

FeederStates == {"reading", "have", "haveLast", "done"}
ClientStates == {"idle", "selecting", "writing", "closing", "gone"}

LastN(s, k) == IF Len(s) > k THEN SubSeq(s, Len(s) - k + 1, Len(s)) ELSE s

FirstN(s, k) == IF Len(s) > k THEN SubSeq(s, 1, k) ELSE s

Init ==
    /\ history = <<>>
    /\ capacity = InitCapacity
    /\ listeners = {}
    /\ chan = [c \in Clients |-> <<>>]
    /\ closed = {}
    /\ feeder = [f \in Feeders |-> "reading"]
    /\ client = [c \in Clients |-> "idle"]
    /\ hungUp = {}
    /\ nChunks = 0
    /\ last = [c \in Clients |-> 0]
    /\ joined = [c \in Clients |-> [at |-> 0, kept |-> 0]]

(***************************************************************************)
(* The encoder side: BroadcastFrom and Write.                              *)
(***************************************************************************)

\* r.Read returned data; eof: the same call also returned an error.
Read(f) ==
    /\ feeder[f] = "reading"
    /\ nChunks < MaxChunks
    /\ \E eof \in BOOLEAN :
          feeder' = [feeder EXCEPT ![f] = IF eof THEN "haveLast" ELSE "have"]
    /\ UNCHANGED <<bcast, client, hungUp, ghost>>

\* r.Read returned an error and no data: the encoder process is gone.
ReadError(f) ==
    /\ feeder[f] = "reading"
    /\ feeder' = [feeder EXCEPT ![f] = "done"]
    /\ UNCHANGED <<bcast, client, hungUp, ghost>>

\* What a non-blocking send of the chunk does to every channel.
Offer(chunk) ==
    [c \in Clients |-> IF c \in listeners /\ Len(chan[c]) < ChanCap
                       THEN Append(chan[c], chunk)
                       ELSE chan[c]]

\* Mutant: the blocking send `ch <- data` in place of the select.
WriteBlocking(f) ==
    /\ feeder[f] \in {"have", "haveLast"}
    /\ \A c \in listeners : Len(chan[c]) < ChanCap
    /\ nChunks' = nChunks + 1
    /\ history' = LastN(Append(history, nChunks + 1), capacity)
    /\ chan' = Offer(nChunks + 1)
    /\ feeder' = [feeder EXCEPT ![f] = IF @ = "have" THEN "reading" ELSE "done"]
    /\ UNCHANGED <<capacity, listeners, closed, client, hungUp, last, joined>>

Write(f) ==
    /\ feeder[f] \in {"have", "haveLast"}
    /\ nChunks' = nChunks + 1
    /\ history' = LastN(Append(history, nChunks + 1), capacity)
    /\ chan' = Offer(nChunks + 1)
    /\ feeder' = [feeder EXCEPT ![f] = IF @ = "have" THEN "reading" ELSE "done"]
    /\ UNCHANGED <<capacity, listeners, closed, client, hungUp, last, joined>>

(***************************************************************************)
(* /mixer/buffer                                                           *)
(***************************************************************************)

\* Mutant: the new capacity is stored and the history left as it is.
SetCapacityNoTrim(k) ==
    /\ capacity' = k
    /\ UNCHANGED <<history, listeners, chan, closed, feeder, client, hungUp, ghost>>

SetCapacity(k) ==
    /\ capacity' = k
    /\ history' = LastN(history, k)
    /\ UNCHANGED <<listeners, chan, closed, feeder, client, hungUp, ghost>>

(***************************************************************************)
(* The listener side: handleStream.                                        *)
(***************************************************************************)

\* Mutant: the channel is registered before, and pre-loaded after, a chunk
\* that Write slips in: the new listener has that chunk twice.
AddListenerTwice(c) ==
    /\ client[c] = "idle"
    /\ client' = [client EXCEPT ![c] = "selecting"]
    /\ listeners' = listeners \union {c}
    /\ chan' = [chan EXCEPT ![c] = FirstN(LastN(history, 1) \o history, ChanCap)]
    /\ joined' = [joined EXCEPT ![c] = [at |-> nChunks, kept |-> Len(history)]]
    /\ UNCHANGED <<history, capacity, closed, feeder, hungUp, nChunks, last>>

\* Mutant: the pre-load stops one chunk short of the history.
AddListenerShort(c) ==
    /\ client[c] = "idle"
    /\ client' = [client EXCEPT ![c] = "selecting"]
    /\ listeners' = listeners \union {c}
    /\ chan' = [chan EXCEPT ![c] = FirstN(history, ChanCap - 1)]
    /\ joined' = [joined EXCEPT ![c] = [at |-> nChunks, kept |-> Len(history)]]
    /\ UNCHANGED <<history, capacity, closed, feeder, hungUp, nChunks, last>>

\* The loop offers the history oldest first, so a channel that is too small
\* for it ends up with the oldest ChanCap chunks.
AddListener(c) ==
    /\ client[c] = "idle"
    /\ client' = [client EXCEPT ![c] = "selecting"]
    /\ listeners' = listeners \union {c}
    /\ chan' = [chan EXCEPT ![c] = FirstN(history, ChanCap)]
    /\ joined' = [joined EXCEPT ![c] = [at |-> nChunks, kept |-> Len(history)]]
    /\ UNCHANGED <<history, capacity, closed, feeder, hungUp, nChunks, last>>

\* case data := <-ch
Receive(c) ==
    /\ client[c] = "selecting"
    /\ chan[c] # <<>>
    /\ client' = [client EXCEPT ![c] = "writing"]
    /\ last' = [last EXCEPT ![c] = Head(chan[c])]
    /\ chan' = [chan EXCEPT ![c] = Tail(chan[c])]
    /\ UNCHANGED <<history, capacity, listeners, closed, feeder, hungUp, nChunks, joined>>

\* w.Write and Flush returned; a stalled client may keep them waiting forever.
WriteResponse(c) ==
    /\ client[c] = "writing"
    /\ client' = [client EXCEPT ![c] = "selecting"]
    /\ UNCHANGED <<bcast, feeder, hungUp, ghost>>

\* w.Write failed.
WriteFails(c) ==
    /\ client[c] = "writing"
    /\ c \in hungUp
    /\ client' = [client EXCEPT ![c] = "closing"]
    /\ UNCHANGED <<bcast, feeder, hungUp, ghost>>

\* Mutant: the handler returns without its deferred RemoveListener.
ContextDoneNoDefer(c) ==
    /\ client[c] = "selecting"
    /\ c \in hungUp
    /\ client' = [client EXCEPT ![c] = "gone"]
    /\ UNCHANGED <<bcast, feeder, hungUp, ghost>>

\* case <-ctx.Done(): return
ContextDone(c) ==
    /\ client[c] = "selecting"
    /\ c \in hungUp
    /\ client' = [client EXCEPT ![c] = "closing"]
    /\ UNCHANGED <<bcast, feeder, hungUp, ghost>>

\* Mutant: the channel is closed and its entry stays in b.listeners.
RemoveListenerKeepEntry(c) ==
    /\ client[c] = "closing"
    /\ client' = [client EXCEPT ![c] = "gone"]
    /\ closed' = closed \union {c}
    /\ UNCHANGED <<history, capacity, listeners, chan, feeder, hungUp, ghost>>

\* The deferred call: the entry goes and the channel is closed under one lock.
RemoveListener(c) ==
    /\ client[c] = "closing"
    /\ client' = [client EXCEPT ![c] = "gone"]
    /\ listeners' = listeners \ {c}
    /\ closed' = closed \union {c}
    /\ UNCHANGED <<history, capacity, chan, feeder, hungUp, ghost>>

\* The listener's connection breaks (net/http cancels the request context).
HangUp(c) ==
    /\ client[c] \in {"selecting", "writing"}
    /\ hungUp' = hungUp \union {c}
    /\ UNCHANGED <<bcast, feeder, client, ghost>>

Next ==
    \/ \E f \in Feeders : Read(f) \/ ReadError(f) \/ Write(f)
    \/ \E k \in Capacities : SetCapacity(k)
    \/ \E c \in Clients :
          \/ AddListener(c) \/ Receive(c) \/ WriteResponse(c) \/ WriteFails(c)
          \/ ContextDone(c) \/ RemoveListener(c) \/ HangUp(c)

(***************************************************************************)
(* Goroutines that can run do run.  Go's select picks among the ready      *)
(* cases at random, so a done context is chosen in the end (SF) however    *)
(* much data there is.  Nothing obliges a client to read its response, so  *)
(* WriteResponse is not fair.                                              *)
(***************************************************************************)
Fairness ==
    /\ \A f \in Feeders : WF_vars(Write(f))
    /\ \A c \in Clients : /\ WF_vars(WriteFails(c))
                          /\ SF_vars(ContextDone(c))
                          /\ WF_vars(RemoveListener(c))

Spec == Init /\ [][Next]_vars

FairSpec == Spec /\ Fairness

(***************************************************************************)
(* Properties                                                              *)
(***************************************************************************)

\* Every variable has its type, and the two buffers respect their bounds: the
\* history holds at most `capacity` chunks and a channel at most ChanCap.
TypeOK ==
    /\ history \in Seq(Nat)
    /\ capacity \in Nat \ {0}
    /\ Len(history) <= capacity
    /\ listeners \subseteq Clients
    /\ closed \subseteq Clients
    /\ hungUp \subseteq Clients
    /\ chan \in [Clients -> Seq(Nat)]
    /\ \A c \in Clients : Len(chan[c]) <= ChanCap
    /\ feeder \in [Feeders -> FeederStates]
    /\ client \in [Clients -> ClientStates]
    /\ nChunks \in Nat
    /\ last \in [Clients -> Nat]
    /\ joined \in [Clients -> [at : Nat, kept : Nat]]

\* The history is the newest chunks, without a hole, whatever sequence of
\* resizes and writes led here: what a new listener is pre-loaded with runs up
\* to the chunk the encoder broadcast last.
HistoryIsNewest ==
    \A i \in 1 .. Len(history) : history[i] = nChunks - Len(history) + i

\* What a client still has to take: the chunk it took last, then its channel.
Ahead(c) == (IF last[c] = 0 THEN <<>> ELSE <<last[c]>>) \o chan[c]

\* A channel holds chunks in broadcast order, none twice, all newer than the one
\* its client took last: the hand-over from history to live data in AddListener
\* neither repeats nor reorders.
ChannelsInOrder ==
    \A c \in Clients :
        /\ \A i \in 1 .. Len(chan[c]) : /\ last[c] < chan[c][i]
                                        /\ chan[c][i] <= nChunks
        /\ \A i, j \in 1 .. Len(chan[c]) : i < j => chan[c][i] < chan[c][j]

\* A client is never served a chunk again, or one older than it already had.
ServedInOrder ==
    [][\A c \in Clients : last'[c] # last[c] => last[c] < last'[c]]_vars

\* c gets every chunk from the oldest one it was given up to the chunk that was
\* newest when it joined: no gap between the pre-load and the live stream.
Gapless(c) ==
    LET s == Ahead(c)
    IN  /\ joined[c].kept > 0 => s # <<>>
        /\ \A i \in 1 .. Len(s) :
              s[i] < joined[c].at => i < Len(s) /\ s[i+1] = s[i] + 1

\* A client whose pre-load fits into its channel sees no gap at the join.  A longer
\* history, as the default 128 to a channel's 100, is pre-loaded from its oldest
\* chunk, and what does not fit is missing between it and the live stream.
GaplessJoinIfFits ==
    \A c \in listeners : joined[c].kept <= ChanCap => Gapless(c)

\* Write never sends on a closed channel, which would panic in the encoder's
\* goroutine: the registered channels are open, and exactly those of the
\* handleStream calls that have not returned.
RegisteredAreOpen ==
    /\ listeners \intersect closed = {}
    /\ listeners = {c \in Clients : client[c] \in {"selecting", "writing", "closing"}}

\* "Listener too slow, skip this chunk for them": a chunk that was read is
\* broadcast in the end though every client may stall forever.
EncoderNeverStalls ==
    \A f \in Feeders : feeder[f] \in {"have", "haveLast"}
                          ~> feeder[f] \in {"reading", "done"}

\* A listener that hung up is removed in the end, even while data keeps coming.
HungUpAreRemoved ==
    \A c \in Clients : c \in hungUp ~> c \notin listeners
=============================================================================
