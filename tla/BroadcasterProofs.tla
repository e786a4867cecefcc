------------------------- MODULE BroadcasterProofs -------------------------
(***************************************************************************)
(* What holds of the MP3 fan-out for every number of clients and feeders,  *)
(* every channel size and every history capacity.                          *)
(***************************************************************************)
EXTENDS Broadcaster, TLAPS

(***************************************************************************)
(* The two slicing operators.                                              *)
(***************************************************************************)

\* Trimming keeps the k newest elements, in their order (broadcast.go:74-76).
LEMMA LastNFacts ==
    ASSUME NEW s \in Seq(Nat), NEW k \in Nat
    PROVE  /\ LastN(s, k) \in Seq(Nat)
           /\ Len(LastN(s, k)) = IF Len(s) > k THEN k ELSE Len(s)
           /\ \A i \in 1 .. Len(LastN(s, k)) :
                 LastN(s, k)[i] = s[Len(s) - Len(LastN(s, k)) + i]
  <1>1. CASE Len(s) > k
    BY <1>1 DEF LastN
  <1>2. CASE ~(Len(s) > k)
    BY <1>2 DEF LastN
  <1> QED BY <1>1, <1>2

\* The pre-load keeps the k oldest elements, in their order (broadcast.go:44-49).
LEMMA FirstNFacts ==
    ASSUME NEW s \in Seq(Nat), NEW k \in Nat
    PROVE  /\ FirstN(s, k) \in Seq(Nat)
           /\ Len(FirstN(s, k)) = IF Len(s) > k THEN k ELSE Len(s)
           /\ \A i \in 1 .. Len(FirstN(s, k)) : FirstN(s, k)[i] = s[i]
  <1>1. CASE Len(s) > k
    BY <1>1 DEF FirstN
  <1>2. CASE ~(Len(s) > k)
    BY <1>2 DEF FirstN
  <1> QED BY <1>1, <1>2

(***************************************************************************)
(* Types and bounds.                                                       *)
(***************************************************************************)

\* A pre-load fits into the channel it is put in.
LEMMA PreloadFits ==
    ASSUME NEW h \in Seq(Nat), NEW k \in Nat
    PROVE  FirstN(h, k) \in Seq(Nat) /\ Len(FirstN(h, k)) <= k
  BY FirstNFacts

\* A trimmed history fits into the capacity it was trimmed to.
LEMMA TrimFits ==
    ASSUME NEW h \in Seq(Nat), NEW k \in Nat
    PROVE  LastN(h, k) \in Seq(Nat) /\ Len(LastN(h, k)) <= k
  BY LastNFacts

\* The buffers of the fan-out never outgrow their bounds, however resizes,
\* writes, joins and departures interleave.
THEOREM TypeCorrect == Spec => []TypeOK
  <1> USE BroadcasterAssumption
  <1>1. Init => TypeOK
    BY DEF Init, TypeOK, FeederStates, ClientStates
  <1>2. TypeOK /\ [Next]_vars => TypeOK'
    <2> SUFFICES ASSUME TypeOK, [Next]_vars PROVE TypeOK'
      OBVIOUS
    <2> USE DEF TypeOK, FeederStates, ClientStates
    <2>1. ASSUME NEW f \in Feeders, Read(f) PROVE TypeOK'
      BY <2>1 DEF Read, bcast, ghost
    <2>2. ASSUME NEW f \in Feeders, ReadError(f) PROVE TypeOK'
      BY <2>2 DEF ReadError, bcast, ghost
    <2>3. ASSUME NEW f \in Feeders, Write(f) PROVE TypeOK'
      <3>1. history' \in Seq(Nat) /\ Len(history') <= capacity'
        <4> DEFINE h == Append(history, nChunks + 1)
        <4>1. h \in Seq(Nat)
          OBVIOUS
        <4>2. history' = LastN(h, capacity) /\ capacity' = capacity
          BY <2>3 DEF Write
        <4> HIDE DEF h
        <4>3. capacity \in Nat
          OBVIOUS
        <4> QED BY ONLY <4>1, <4>2, <4>3, TrimFits
      <3>2. chan' \in [Clients -> Seq(Nat)] /\ \A c \in Clients : Len(chan'[c]) <= ChanCap
        BY <2>3 DEF Write, Offer
      <3> QED BY <2>3, <3>1, <3>2 DEF Write
    <2>4. ASSUME NEW k \in Capacities, SetCapacity(k) PROVE TypeOK'
      <3>1. history' \in Seq(Nat) /\ Len(history') <= capacity'
        <4>1. k \in Nat /\ history \in Seq(Nat)
          OBVIOUS
        <4>2. history' = LastN(history, k) /\ capacity' = k
          BY <2>4 DEF SetCapacity
        <4> QED BY ONLY <4>1, <4>2, TrimFits
      <3> QED BY <2>4, <3>1 DEF SetCapacity, ghost
    <2>5. ASSUME NEW c \in Clients, AddListener(c) PROVE TypeOK'
      <3>1. FirstN(history, ChanCap) \in Seq(Nat) /\ Len(FirstN(history, ChanCap)) <= ChanCap
        <4>1. ChanCap \in Nat /\ history \in Seq(Nat)
          OBVIOUS
        <4> QED BY ONLY <4>1, PreloadFits
      <3>2. chan' \in [Clients -> Seq(Nat)] /\ \A d \in Clients : Len(chan'[d]) <= ChanCap
        BY <2>5, <3>1 DEF AddListener
      <3> QED BY <2>5, <3>2 DEF AddListener
    <2>6. ASSUME NEW c \in Clients, Receive(c) PROVE TypeOK'
      <3>1. Head(chan[c]) \in Nat /\ Tail(chan[c]) \in Seq(Nat)
            /\ Len(Tail(chan[c])) <= ChanCap
        BY <2>6 DEF Receive
      <3>2. chan' \in [Clients -> Seq(Nat)] /\ \A d \in Clients : Len(chan'[d]) <= ChanCap
        BY <2>6, <3>1 DEF Receive
      <3> QED BY <2>6, <3>1, <3>2 DEF Receive
    <2>7. ASSUME NEW c \in Clients,
                 WriteResponse(c) \/ WriteFails(c) \/ ContextDone(c) PROVE TypeOK'
      BY <2>7 DEF WriteResponse, WriteFails, ContextDone, bcast, ghost
    <2>8. ASSUME NEW c \in Clients, RemoveListener(c) \/ HangUp(c) PROVE TypeOK'
      BY <2>8 DEF RemoveListener, HangUp, bcast, ghost
    <2>9. CASE UNCHANGED vars
      BY <2>9 DEF vars
    <2> QED BY <2>1, <2>2, <2>3, <2>4, <2>5, <2>6, <2>7, <2>8, <2>9 DEF Next
  <1> QED BY <1>1, <1>2, PTL DEF Spec

(***************************************************************************)
(* Order.  ChannelsInOrder is not inductive: AddListener copies the        *)
(* history into a channel, so the history must be known to be ordered and  *)
(* newer than anything the client was served (nothing, as it is idle).     *)
(***************************************************************************)
IdleServedNothing == \A c \in Clients : client[c] = "idle" => last[c] = 0

ServedWasBroadcast == \A c \in Clients : last[c] <= nChunks

OrderInv ==
    /\ TypeOK
    /\ Len(history) <= nChunks
    /\ HistoryIsNewest
    /\ IdleServedNothing
    /\ ServedWasBroadcast
    /\ ChannelsInOrder

LEMMA OrderInit == Init => OrderInv
  BY BroadcasterAssumption
     DEF Init, OrderInv, TypeOK, HistoryIsNewest, IdleServedNothing,
         ServedWasBroadcast, ChannelsInOrder, FeederStates, ClientStates

\* Trimming a history of the newest chunks leaves the newest chunks.
LEMMA TrimKeepsNewest ==
    ASSUME NEW h \in Seq(Nat), NEW k \in Nat, NEW n \in Nat, Len(h) <= n,
           \A i \in 1 .. Len(h) : h[i] = n - Len(h) + i
    PROVE  /\ Len(LastN(h, k)) <= n
           /\ \A i \in 1 .. Len(LastN(h, k)) :
                 LastN(h, k)[i] = n - Len(LastN(h, k)) + i
  BY LastNFacts

\* Appending the next chunk to such a history gives such a history.
LEMMA AppendNewest ==
    ASSUME NEW h \in Seq(Nat), NEW n \in Nat, Len(h) <= n,
           \A i \in 1 .. Len(h) : h[i] = n - Len(h) + i
    PROVE  /\ Append(h, n + 1) \in Seq(Nat)
           /\ Len(Append(h, n + 1)) <= n + 1
           /\ \A i \in 1 .. Len(Append(h, n + 1)) :
                 Append(h, n + 1)[i] = n + 1 - Len(Append(h, n + 1)) + i
  OBVIOUS

\* So does appending it to an ordered channel.
LEMMA AppendInOrder ==
    ASSUME NEW q \in Seq(Nat), NEW n \in Nat, NEW l \in Nat, l <= n,
           \A i \in 1 .. Len(q) : l < q[i] /\ q[i] <= n,
           \A i, j \in 1 .. Len(q) : i < j => q[i] < q[j]
    PROVE  LET r == Append(q, n + 1)
           IN  /\ \A i \in 1 .. Len(r) : l < r[i] /\ r[i] <= n + 1
               /\ \A i, j \in 1 .. Len(r) : i < j => r[i] < r[j]
  OBVIOUS

\* A broadcast appends a newer chunk to the history and to some channels.
LEMMA OrderWrite ==
    ASSUME OrderInv, TypeOK', NEW f \in Feeders, Write(f)
    PROVE  OrderInv'
  <1>1. Len(history') <= nChunks' /\ HistoryIsNewest'
    <2> DEFINE n == nChunks + 1
               h == Append(history, n)
    <2>1. /\ h \in Seq(Nat) /\ n \in Nat /\ capacity \in Nat
          /\ Len(h) <= n
          /\ \A i \in 1 .. Len(h) : h[i] = n - Len(h) + i
      BY AppendNewest DEF OrderInv, TypeOK, HistoryIsNewest
    <2>2. history' = LastN(h, capacity) /\ nChunks' = n
      BY DEF Write
    <2> HIDE DEF h, n
    <2>3. /\ Len(LastN(h, capacity)) <= n
          /\ \A i \in 1 .. Len(LastN(h, capacity)) :
                LastN(h, capacity)[i] = n - Len(LastN(h, capacity)) + i
      BY <2>1, TrimKeepsNewest
    <2> QED BY <2>2, <2>3 DEF HistoryIsNewest
  <1>2. nChunks \in Nat /\ last \in [Clients -> Nat] /\ chan \in [Clients -> Seq(Nat)]
    BY DEF OrderInv, TypeOK
  <1>3. IdleServedNothing' /\ ServedWasBroadcast'
    BY <1>2 DEF Write, OrderInv, IdleServedNothing, ServedWasBroadcast
  <1>4. ChannelsInOrder'
    <2> SUFFICES ASSUME NEW c \in Clients
                 PROVE  /\ \A i \in 1 .. Len(chan'[c]) : /\ last[c] < chan'[c][i]
                                                         /\ chan'[c][i] <= nChunks + 1
                        /\ \A i, j \in 1 .. Len(chan'[c]) :
                              i < j => chan'[c][i] < chan'[c][j]
      BY DEF Write, ChannelsInOrder
    <2>1. /\ \A i \in 1 .. Len(chan[c]) : last[c] < chan[c][i] /\ chan[c][i] <= nChunks
          /\ \A i, j \in 1 .. Len(chan[c]) : i < j => chan[c][i] < chan[c][j]
          /\ last[c] \in Nat /\ last[c] <= nChunks /\ chan[c] \in Seq(Nat)
      BY <1>2 DEF OrderInv, ChannelsInOrder, ServedWasBroadcast
    <2>2. CASE chan'[c] = chan[c]
      BY <2>1, <2>2, <1>2
    <2>3. CASE chan'[c] = Append(chan[c], nChunks + 1)
      BY <2>1, <2>3, <1>2, AppendInOrder
    <2> QED BY <2>2, <2>3 DEF Write, Offer
  <1> QED BY <1>1, <1>3, <1>4 DEF OrderInv

\* Joining copies chunks 1 .. nChunks, in order, to a client served nothing.
LEMMA OrderAddListener ==
    ASSUME OrderInv, TypeOK', NEW c \in Clients, AddListener(c)
    PROVE  OrderInv'
  <1>1. /\ nChunks \in Nat /\ history \in Seq(Nat) /\ Len(history) <= nChunks
        /\ ChanCap \in Nat /\ last[c] = 0 /\ chan \in [Clients -> Seq(Nat)]
    BY BroadcasterAssumption DEF OrderInv, TypeOK, AddListener, IdleServedNothing
  <1>2. /\ chan'[c] = FirstN(history, ChanCap)
        /\ \A d \in Clients : d # c => chan'[d] = chan[d]
        /\ UNCHANGED <<history, nChunks, last>>
    BY <1>1 DEF AddListener
  <1>3. \A i \in 1 .. Len(history) : history[i] = nChunks - Len(history) + i
    BY DEF OrderInv, HistoryIsNewest
  <1> DEFINE q == FirstN(history, ChanCap)
  <1>4. Len(q) \in Nat /\ Len(q) <= Len(history) /\ \A i \in 1 .. Len(q) : q[i] = history[i]
    BY <1>1, FirstNFacts
  <1> HIDE DEF q
  <1>5. /\ \A i \in 1 .. Len(q) : 0 < q[i] /\ q[i] <= nChunks
        /\ \A i, j \in 1 .. Len(q) : i < j => q[i] < q[j]
    <2>1. \A i \in 1 .. Len(q) : q[i] = nChunks - Len(history) + i
      BY <1>1, <1>3, <1>4
    <2>2. nChunks \in Nat /\ Len(history) \in Nat /\ Len(history) <= nChunks
      BY <1>1
    <2> QED BY <2>1, <2>2, <1>4
  <1>6. ChannelsInOrder'
    <2> SUFFICES ASSUME NEW d \in Clients
                 PROVE  /\ \A i \in 1 .. Len(chan'[d]) : /\ last[d] < chan'[d][i]
                                                         /\ chan'[d][i] <= nChunks
                        /\ \A i, j \in 1 .. Len(chan'[d]) :
                              i < j => chan'[d][i] < chan'[d][j]
      BY <1>2 DEF ChannelsInOrder
    <2>1. CASE d = c
      BY <2>1, <1>1, <1>2, <1>5 DEF q
    <2>2. CASE d # c
      BY <2>2, <1>2 DEF OrderInv, ChannelsInOrder
    <2> QED BY <2>1, <2>2
  <1>7. IdleServedNothing' /\ ServedWasBroadcast'
    BY DEF AddListener, OrderInv, TypeOK, IdleServedNothing, ServedWasBroadcast
  <1>8. Len(history') <= nChunks' /\ HistoryIsNewest'
    BY <1>2 DEF OrderInv, HistoryIsNewest
  <1> QED BY <1>6, <1>7, <1>8 DEF OrderInv

\* Taking the head of an ordered channel leaves only newer chunks in it.
LEMMA OrderReceive ==
    ASSUME OrderInv, TypeOK', NEW c \in Clients, Receive(c)
    PROVE  OrderInv' /\ last[c] < last'[c]
  <1>1. /\ nChunks \in Nat /\ chan \in [Clients -> Seq(Nat)] /\ last \in [Clients -> Nat]
        /\ chan[c] # <<>> /\ client[c] = "selecting"
        /\ client \in [Clients -> ClientStates]
    BY DEF OrderInv, TypeOK, Receive
  <1>2. /\ chan'[c] = Tail(chan[c]) /\ last'[c] = Head(chan[c])
        /\ \A d \in Clients : d # c => chan'[d] = chan[d] /\ last'[d] = last[d]
        /\ UNCHANGED <<history, nChunks>>
    BY <1>1 DEF Receive
  <1>3. \A d \in Clients :
           /\ \A i \in 1 .. Len(chan[d]) : last[d] < chan[d][i] /\ chan[d][i] <= nChunks
           /\ \A i, j \in 1 .. Len(chan[d]) : i < j => chan[d][i] < chan[d][j]
    BY DEF OrderInv, ChannelsInOrder
  <1>4. /\ last[c] < Head(chan[c]) /\ Head(chan[c]) <= nChunks
        /\ \A i \in 1 .. Len(Tail(chan[c])) : /\ Head(chan[c]) < Tail(chan[c])[i]
                                              /\ Tail(chan[c])[i] <= nChunks
        /\ \A i, j \in 1 .. Len(Tail(chan[c])) :
              i < j => Tail(chan[c])[i] < Tail(chan[c])[j]
    BY <1>1, <1>3
  <1>5. ChannelsInOrder'
    <2> SUFFICES ASSUME NEW d \in Clients
                 PROVE  /\ \A i \in 1 .. Len(chan'[d]) : /\ last'[d] < chan'[d][i]
                                                         /\ chan'[d][i] <= nChunks
                        /\ \A i, j \in 1 .. Len(chan'[d]) :
                              i < j => chan'[d][i] < chan'[d][j]
      BY <1>2 DEF ChannelsInOrder
    <2>1. CASE d = c
      BY <2>1, <1>2, <1>4
    <2>2. CASE d # c
      BY <2>2, <1>2, <1>3
    <2> QED BY <2>1, <2>2
  <1>6. IdleServedNothing'
    BY <1>1, <1>2 DEF Receive, OrderInv, IdleServedNothing
  <1>7. ServedWasBroadcast'
    BY <1>2, <1>4 DEF OrderInv, ServedWasBroadcast
  <1>8. Len(history') <= nChunks' /\ HistoryIsNewest'
    BY <1>2 DEF OrderInv, HistoryIsNewest
  <1> QED BY <1>2, <1>4, <1>5, <1>6, <1>7, <1>8 DEF OrderInv

\* Every other step leaves the chunks where they are, or trims the history.
LEMMA OrderOther ==
    ASSUME OrderInv, TypeOK',
           \/ \E f \in Feeders : Read(f) \/ ReadError(f)
           \/ \E k \in Capacities : SetCapacity(k)
           \/ \E c \in Clients : \/ WriteResponse(c) \/ WriteFails(c) \/ ContextDone(c)
                                 \/ RemoveListener(c) \/ HangUp(c)
           \/ UNCHANGED vars
    PROVE  OrderInv' /\ last' = last
  <1>1. UNCHANGED <<chan, nChunks, last>>
    BY DEF Read, ReadError, SetCapacity, WriteResponse, WriteFails, ContextDone,
           RemoveListener, HangUp, bcast, ghost, vars
  <1>2. ChannelsInOrder' /\ ServedWasBroadcast'
    BY <1>1 DEF OrderInv, ChannelsInOrder, ServedWasBroadcast
  <1>3. \A c \in Clients : client'[c] = "idle" => client[c] = "idle"
    BY DEF Read, ReadError, SetCapacity, WriteResponse, WriteFails, ContextDone,
           RemoveListener, HangUp, bcast, ghost, vars, OrderInv, TypeOK, ClientStates
  <1>4. IdleServedNothing'
    BY <1>1, <1>3 DEF OrderInv, IdleServedNothing
  <1>5. Len(history') <= nChunks' /\ HistoryIsNewest'
    <2>1. CASE history' = history
      BY <2>1, <1>1 DEF OrderInv, HistoryIsNewest
    <2>2. ASSUME NEW k \in Capacities, SetCapacity(k)
          PROVE  Len(history') <= nChunks' /\ HistoryIsNewest'
      <3>1. history' = LastN(history, k) /\ nChunks' = nChunks
        BY <2>2 DEF SetCapacity, ghost
      <3>2. k \in Nat /\ nChunks \in Nat /\ history \in Seq(Nat) /\ Len(history) <= nChunks
            /\ \A i \in 1 .. Len(history) : history[i] = nChunks - Len(history) + i
        BY BroadcasterAssumption DEF OrderInv, TypeOK, HistoryIsNewest
      <3> QED BY <3>1, <3>2, TrimKeepsNewest DEF HistoryIsNewest
    <2> QED BY <2>1, <2>2
            DEF Read, ReadError, WriteResponse, WriteFails, ContextDone,
                RemoveListener, HangUp, bcast, vars
  <1> QED BY <1>1, <1>2, <1>4, <1>5 DEF OrderInv

LEMMA OrderNext ==
    ASSUME OrderInv, TypeOK', [Next]_vars
    PROVE  OrderInv' /\ \A c \in Clients : last'[c] # last[c] => last[c] < last'[c]
  <1>1. ASSUME NEW f \in Feeders, Write(f) PROVE OrderInv' /\ last' = last
    BY <1>1, OrderWrite DEF Write
  <1>2. ASSUME NEW c \in Clients, AddListener(c) PROVE OrderInv' /\ last' = last
    BY <1>2, OrderAddListener DEF AddListener
  <1>3. ASSUME NEW c \in Clients, Receive(c)
        PROVE  OrderInv' /\ \A d \in Clients : last'[d] # last[d] => last[d] < last'[d]
    <2>1. OrderInv' /\ last[c] < last'[c]
      BY <1>3, OrderReceive
    <2>2. \A d \in Clients : d # c => last'[d] = last[d]
      BY <1>3 DEF Receive, OrderInv, TypeOK
    <2> QED BY <2>1, <2>2
  <1>4. ASSUME \/ \E f \in Feeders : Read(f) \/ ReadError(f)
               \/ \E k \in Capacities : SetCapacity(k)
               \/ \E c \in Clients : \/ WriteResponse(c) \/ WriteFails(c) \/ ContextDone(c)
                                     \/ RemoveListener(c) \/ HangUp(c)
               \/ UNCHANGED vars
        PROVE  OrderInv' /\ last' = last
    BY <1>4, OrderOther
  <1> QED BY <1>1, <1>2, <1>3, <1>4 DEF Next

LEMMA OrderInvariant == Spec => []OrderInv
  <1>1. TypeOK' /\ OrderInv /\ [Next]_vars => OrderInv'
    BY OrderNext
  <1> QED BY <1>1, OrderInit, TypeCorrect, PTL DEF Spec

\* Whatever joins, leaves, overflows and resizes happen, every channel holds
\* chunks in broadcast order, newer than what its client already had
\* (AddListener and Write, broadcast.go:38-53 and 64-86).
THEOREM ChannelsStayInOrder == Spec => []ChannelsInOrder
  BY OrderInvariant, PTL DEF OrderInv

\* The history is always the newest chunks without a hole (broadcast.go:26-33
\* and 72-76), so a pre-load runs up to the live edge.
THEOREM HistoryStaysNewest == Spec => []HistoryIsNewest
  BY OrderInvariant, PTL DEF OrderInv

\* No client is served a chunk twice or out of order.
THEOREM NeverServedTwice == Spec => ServedInOrder
  <1>1. OrderInv /\ TypeOK' /\ [Next]_vars
           => [\A c \in Clients : last'[c] # last[c] => last[c] < last'[c]]_vars
    BY OrderNext
  <1> QED BY <1>1, OrderInvariant, TypeCorrect, PTL DEF Spec, ServedInOrder

(***************************************************************************)
(* Closing.  A channel is closed exactly when its handler has returned.    *)
(***************************************************************************)
ClosedAreGone == closed = {c \in Clients : client[c] = "gone"}

\* Write never sends on a closed channel and no channel is closed twice: both
\* would panic (RemoveListener, broadcast.go:56-61, and the select of Write).
THEOREM NoSendOnClosed == Spec => []RegisteredAreOpen
  <1> DEFINE RegInv == RegisteredAreOpen /\ ClosedAreGone
  <1>1. Init => RegInv
    BY DEF Init, RegisteredAreOpen, ClosedAreGone
  <1>2. TypeOK /\ RegInv /\ [Next]_vars => RegInv'
    <2> SUFFICES ASSUME TypeOK, RegInv, [Next]_vars PROVE RegInv'
      OBVIOUS
    <2>0. client \in [Clients -> ClientStates]
      BY DEF TypeOK
    <2> USE <2>0 DEF RegisteredAreOpen, ClosedAreGone, ClientStates
    <2>1. ASSUME NEW f \in Feeders, Read(f) \/ ReadError(f) \/ Write(f) PROVE RegInv'
      BY <2>1 DEF Read, ReadError, Write, bcast
    <2>2. ASSUME NEW k \in Capacities, SetCapacity(k) PROVE RegInv'
      BY <2>2 DEF SetCapacity
    <2>3. ASSUME NEW c \in Clients, AddListener(c) PROVE RegInv'
      BY <2>3 DEF AddListener
    <2>4. ASSUME NEW c \in Clients,
                 Receive(c) \/ WriteResponse(c) \/ WriteFails(c) \/ ContextDone(c) \/ HangUp(c)
          PROVE  RegInv'
      BY <2>4 DEF Receive, WriteResponse, WriteFails, ContextDone, HangUp, bcast
    <2>5. ASSUME NEW c \in Clients, RemoveListener(c) PROVE RegInv'
      BY <2>5 DEF RemoveListener
    <2>6. CASE UNCHANGED vars
      BY <2>6 DEF vars
    <2> QED BY <2>1, <2>2, <2>3, <2>4, <2>5, <2>6 DEF Next
  <1>3. RegInv => RegisteredAreOpen
    OBVIOUS
  <1> QED BY <1>1, <1>2, <1>3, TypeCorrect, PTL DEF Spec

(***************************************************************************)
(* Gaps.  A chunk that is dropped is newer than the join, as the pre-load  *)
(* that fits has all that is older.                                        *)
(***************************************************************************)
JoinedBefore == \A c \in Clients : joined[c].at <= nChunks

\* s has no gap before the chunk m.
NoGapBefore(s, m) ==
    \A i \in 1 .. Len(s) : s[i] < m => i < Len(s) /\ s[i+1] = s[i] + 1

\* A run of chunks up to m has no gap before it.
LEMMA RunHasNoGap ==
    ASSUME NEW s \in Seq(Nat), NEW m \in Nat, \A i \in 1 .. Len(s) : s[i] = m - Len(s) + i
    PROVE  NoGapBefore(s, m)
  <1> SUFFICES ASSUME NEW i \in 1 .. Len(s), s[i] < m
               PROVE  i < Len(s) /\ s[i+1] = s[i] + 1
    BY DEF NoGapBefore
  <1>1. s[i] = m - Len(s) + i /\ Len(s) \in Nat
    OBVIOUS
  <1>2. i < Len(s)
    BY <1>1
  <1>3. i + 1 \in 1 .. Len(s)
    BY <1>2
  <1>4. s[i+1] = m - Len(s) + (i + 1)
    BY <1>3
  <1> QED
    BY <1>1, <1>2, <1>4

\* A newer chunk at its end makes none, nor does the loss of its head.
LEMMA NoGapAppend ==
    ASSUME NEW s \in Seq(Nat), NEW m \in Nat, NEW x \in Nat, m <= x, NoGapBefore(s, m)
    PROVE  NoGapBefore(Append(s, x), m)
  <1> DEFINE t == Append(s, x)
  <1>1. Len(t) = Len(s) + 1 /\ t[Len(s) + 1] = x /\ \A i \in 1 .. Len(s) : t[i] = s[i]
    OBVIOUS
  <1> HIDE DEF t
  <1> SUFFICES ASSUME NEW i \in 1 .. Len(t), t[i] < m
               PROVE  i < Len(t) /\ t[i+1] = t[i] + 1
    BY DEF NoGapBefore, t
  <1>2. i \in 1 .. Len(s)
    BY <1>1
  <1>3. i < Len(s) /\ s[i+1] = s[i] + 1
    BY <1>1, <1>2 DEF NoGapBefore
  <1>4. i + 1 \in 1 .. Len(s)
    BY <1>2, <1>3
  <1> QED
    BY <1>1, <1>2, <1>3, <1>4

LEMMA NoGapTail ==
    ASSUME NEW s \in Seq(Nat), NEW m \in Nat, s # <<>>, NoGapBefore(s, m)
    PROVE  NoGapBefore(Tail(s), m)
  <1> DEFINE t == Tail(s)
  <1>1. Len(s) = Len(t) + 1 /\ Len(t) \in Nat /\ \A i \in 1 .. Len(t) : t[i] = s[i+1]
    OBVIOUS
  <1> HIDE DEF t
  <1> SUFFICES ASSUME NEW i \in 1 .. Len(t), t[i] < m
               PROVE  i < Len(t) /\ t[i+1] = t[i] + 1
    BY DEF NoGapBefore, t
  <1>2. i + 1 \in 1 .. Len(s)
    BY <1>1
  <1>3. i + 1 < Len(s) /\ s[(i+1)+1] = s[i+1] + 1
    BY <1>1, <1>2 DEF NoGapBefore
  <1>4. i + 1 \in 1 .. Len(t)
    BY <1>1, <1>3
  <1> QED
    BY <1>1, <1>3, <1>4

LEMMA AheadType ==
    ASSUME TypeOK, NEW c \in Clients
    PROVE  Ahead(c) \in Seq(Nat)
  <1>1. chan[c] \in Seq(Nat) /\ last[c] \in Nat
    BY DEF TypeOK
  <1> QED
    BY <1>1 DEF Ahead

LEMMA GaplessIsNoGap ==
    ASSUME NEW c \in Clients
    PROVE  Gapless(c) <=> (joined[c].kept > 0 => Ahead(c) # <<>>) /\ NoGapBefore(Ahead(c), joined[c].at)
  BY DEF Gapless, NoGapBefore

LEMMA GapWrite ==
    ASSUME OrderInv, JoinedBefore, GaplessJoinIfFits, NEW f \in Feeders, Write(f)
    PROVE  JoinedBefore' /\ GaplessJoinIfFits'
  <1>1. /\ nChunks \in Nat /\ nChunks' = nChunks + 1 /\ listeners' = listeners
        /\ joined' = joined /\ last' = last /\ joined \in [Clients -> [at : Nat, kept : Nat]]
        /\ chan \in [Clients -> Seq(Nat)] /\ last \in [Clients -> Nat] /\ listeners \subseteq Clients
    BY DEF Write, OrderInv, TypeOK
  <1>2. JoinedBefore'
    BY <1>1 DEF JoinedBefore
  <1>3. ASSUME NEW c \in listeners, joined[c].kept <= ChanCap
        PROVE  Gapless(c)'
    <2>1. c \in Clients /\ Gapless(c) /\ Ahead(c) \in Seq(Nat)
      BY <1>1, <1>3, AheadType DEF GaplessJoinIfFits, OrderInv
    <2>2. chan'[c] = chan[c] \/ chan'[c] = Append(chan[c], nChunks + 1)
      BY <1>1 DEF Write, Offer
    <2>3. Ahead(c)' = Ahead(c) \/ Ahead(c)' = Append(Ahead(c), nChunks + 1)
      <3>1. CASE chan'[c] = chan[c]
        BY <1>1, <3>1 DEF Ahead
      <3>2. CASE chan'[c] = Append(chan[c], nChunks + 1)
        <4> DEFINE p == IF last[c] = 0 THEN <<>> ELSE <<last[c]>>
        <4>1. p \in Seq(Nat) /\ chan[c] \in Seq(Nat) /\ nChunks + 1 \in Nat
          BY <1>1, <2>1
        <4>2. Ahead(c) = p \o chan[c] /\ Ahead(c)' = p \o Append(chan[c], nChunks + 1)
          BY <1>1, <3>2 DEF Ahead
        <4> HIDE DEF p
        <4>3. p \o Append(chan[c], nChunks + 1) = Append(p \o chan[c], nChunks + 1)
          BY <4>1
        <4> QED
          BY <4>2, <4>3
      <3> QED
        BY <2>2, <3>1, <3>2
    <2>4. joined[c].at \in Nat /\ joined[c].at <= nChunks + 1
      BY <1>1, <2>1 DEF JoinedBefore
    <2>5. NoGapBefore(Ahead(c)', joined[c].at)
      <3>1. NoGapBefore(Ahead(c), joined[c].at) /\ nChunks + 1 \in Nat
        BY <1>1, <2>1, GaplessIsNoGap
      <3>2. NoGapBefore(Append(Ahead(c), nChunks + 1), joined[c].at)
        BY <2>1, <2>4, <3>1, NoGapAppend
      <3> QED
        BY <2>3, <3>1, <3>2
    <2>6. joined[c].kept > 0 => Ahead(c)' # <<>>
      <3>1. \A q \in Seq(Nat), x \in Nat : Append(q, x) # <<>>
        OBVIOUS
      <3> QED
        BY <1>1, <2>1, <2>3, <3>1, GaplessIsNoGap, nChunks + 1 \in Nat
    <2> QED
      BY <1>1, <2>5, <2>6 DEF Gapless, NoGapBefore
  <1> QED
    BY <1>1, <1>2, <1>3 DEF GaplessJoinIfFits

LEMMA GapAdd ==
    ASSUME OrderInv, JoinedBefore, GaplessJoinIfFits, NEW c \in Clients, AddListener(c)
    PROVE  JoinedBefore' /\ GaplessJoinIfFits'
  <1>1. /\ nChunks \in Nat /\ nChunks' = nChunks /\ listeners' = listeners \union {c}
        /\ last' = last /\ joined \in [Clients -> [at : Nat, kept : Nat]]
        /\ chan \in [Clients -> Seq(Nat)] /\ listeners \subseteq Clients
        /\ history \in Seq(Nat) /\ ChanCap \in Nat /\ last[c] = 0
    BY BroadcasterAssumption DEF AddListener, OrderInv, TypeOK, IdleServedNothing
  <1>2. /\ joined'[c].at = nChunks /\ joined'[c].kept = Len(history)
        /\ chan'[c] = FirstN(history, ChanCap)
        /\ \A d \in Clients \ {c} : joined'[d] = joined[d] /\ chan'[d] = chan[d]
    <2>1. /\ chan' = [chan EXCEPT ![c] = FirstN(history, ChanCap)]
          /\ joined' = [joined EXCEPT ![c] = [at |-> nChunks, kept |-> Len(history)]]
      BY DEF AddListener
    <2>2. DOMAIN chan = Clients /\ DOMAIN joined = Clients
      BY <1>1
    <2>3. joined'[c] = [at |-> nChunks, kept |-> Len(history)]
      BY <2>1, <2>2
    <2>4. chan'[c] = FirstN(history, ChanCap)
      BY <2>1, <2>2
    <2>5. \A d \in Clients \ {c} : joined'[d] = joined[d]
      BY <2>1, <2>2
    <2>6. \A d \in Clients \ {c} : chan'[d] = chan[d]
      BY <2>1, <2>2
    <2> QED
      BY <2>3, <2>4, <2>5, <2>6
  <1>3. JoinedBefore'
    <2> SUFFICES ASSUME NEW d \in Clients
                 PROVE  joined'[d].at <= nChunks
      BY <1>1 DEF JoinedBefore
    <2>1. d # c => joined'[d] = joined[d] /\ joined[d].at <= nChunks
      BY <1>2 DEF JoinedBefore
    <2>2. nChunks <= nChunks
      BY <1>1
    <2> QED
      BY <1>2, <2>1, <2>2
  <1>4. ASSUME joined'[c].kept <= ChanCap
        PROVE  Gapless(c)'
    <2>1. chan'[c] = history
      BY <1>1, <1>2, <1>4 DEF FirstN
    <2>2. Ahead(c)' = history
      <3>1. Ahead(c)' = <<>> \o chan'[c]
        BY <1>1 DEF Ahead
      <3>2. <<>> \o history = history
        BY <1>1
      <3> QED
        BY <2>1, <3>1, <3>2
    <2>3. NoGapBefore(history, nChunks)
      BY <1>1, RunHasNoGap DEF OrderInv, HistoryIsNewest
    <2>4. Len(history) > 0 => history # <<>>
      BY <1>1
    <2> QED
      BY <1>2, <2>2, <2>3, <2>4 DEF Gapless, NoGapBefore
  <1>5. ASSUME NEW d \in listeners \ {c}, joined'[d].kept <= ChanCap
        PROVE  Gapless(d)'
    <2>1. Gapless(d) /\ joined'[d] = joined[d] /\ chan'[d] = chan[d]
      BY <1>1, <1>2, <1>5 DEF GaplessJoinIfFits
    <2> QED
      BY <1>1, <2>1 DEF Gapless, Ahead
  <1> QED
    BY <1>1, <1>3, <1>4, <1>5 DEF GaplessJoinIfFits

LEMMA GapReceive ==
    ASSUME OrderInv, JoinedBefore, GaplessJoinIfFits, NEW c \in Clients, Receive(c)
    PROVE  JoinedBefore' /\ GaplessJoinIfFits'
  <1>1. /\ UNCHANGED <<nChunks, joined, listeners>> /\ joined \in [Clients -> [at : Nat, kept : Nat]]
        /\ chan \in [Clients -> Seq(Nat)] /\ last \in [Clients -> Nat] /\ listeners \subseteq Clients
        /\ chan[c] # <<>>
    BY DEF Receive, OrderInv, TypeOK
  <1>2. /\ chan'[c] = Tail(chan[c]) /\ last'[c] = Head(chan[c])
        /\ \A d \in Clients : d # c => chan'[d] = chan[d] /\ last'[d] = last[d]
    BY <1>1 DEF Receive
  <1>3. JoinedBefore'
    BY <1>1 DEF JoinedBefore
  <1>4. ASSUME NEW d \in listeners, joined[d].kept <= ChanCap, d # c
        PROVE  Gapless(d)'
    <2>1. Gapless(d) /\ chan'[d] = chan[d] /\ last'[d] = last[d]
      BY <1>1, <1>2, <1>4 DEF GaplessJoinIfFits
    <2> QED
      BY <1>1, <2>1 DEF Gapless, Ahead
  <1>5. ASSUME c \in listeners, joined[c].kept <= ChanCap
        PROVE  Gapless(c)'
    <2>1. /\ Gapless(c) /\ Ahead(c) \in Seq(Nat) /\ chan[c] \in Seq(Nat) /\ last[c] \in Nat
          /\ joined[c].at \in Nat
      BY <1>1, <1>5, AheadType DEF GaplessJoinIfFits, OrderInv
    <2>2. last'[c] # 0
      <3>1. last[c] < chan[c][1]
        BY <1>1, <2>1 DEF OrderInv, ChannelsInOrder
      <3> QED
        BY <1>1, <1>2, <2>1, <3>1
    <2>3. Ahead(c)' = chan[c]
      <3>1. Ahead(c)' = <<Head(chan[c])>> \o Tail(chan[c])
        BY <1>2, <2>2 DEF Ahead
      <3>2. \A q \in Seq(Nat) : q # <<>> => <<Head(q)>> \o Tail(q) = q
        OBVIOUS
      <3> QED
        BY <1>1, <2>1, <3>1, <3>2
    <2>4. Ahead(c) = chan[c] \/ (Ahead(c) # <<>> /\ Tail(Ahead(c)) = chan[c])
      <3>1. \A q \in Seq(Nat), x \in Nat : /\ <<x>> \o q # <<>> /\ Tail(<<x>> \o q) = q
                                           /\ <<>> \o q = q
        OBVIOUS
      <3> QED
        BY <2>1, <3>1 DEF Ahead
    <2>5. NoGapBefore(chan[c], joined[c].at)
      BY <1>5, <2>1, <2>4, NoGapTail, GaplessIsNoGap
    <2> QED
      BY <1>1, <2>3, <2>5 DEF Gapless, NoGapBefore
  <1> QED
    BY <1>1, <1>3, <1>4, <1>5 DEF GaplessJoinIfFits

\* Theorem: a listener whose pre-load fits into its channel sees no gap at the join,
\* whatever overflows its channel afterwards (AddListener and Write, broadcast.go:38-53, 64-86).
THEOREM JoinsAreGapless == Spec => []GaplessJoinIfFits
  <1> DEFINE GapInv == JoinedBefore /\ GaplessJoinIfFits
  <1>1. Init => GapInv
    BY DEF Init, JoinedBefore, GaplessJoinIfFits
  <1>2. OrderInv /\ GapInv /\ [Next]_vars => GapInv'
    <2> SUFFICES ASSUME OrderInv, JoinedBefore, GaplessJoinIfFits, [Next]_vars
                 PROVE  JoinedBefore' /\ GaplessJoinIfFits'
      OBVIOUS
    <2>1. ASSUME \/ \E f \in Feeders : Read(f) \/ ReadError(f)
                 \/ \E k \in Capacities : SetCapacity(k)
                 \/ \E c \in Clients : \/ WriteResponse(c) \/ WriteFails(c) \/ ContextDone(c)
                                       \/ RemoveListener(c) \/ HangUp(c)
                 \/ UNCHANGED vars
          PROVE  JoinedBefore' /\ GaplessJoinIfFits'
      <3>1. UNCHANGED <<chan, nChunks, last, joined>> /\ listeners' \subseteq listeners
        BY <2>1 DEF Read, ReadError, SetCapacity, WriteResponse, WriteFails, ContextDone,
                    RemoveListener, HangUp, bcast, ghost, vars
      <3>2. \A c \in listeners' : Ahead(c)' = Ahead(c)
        BY <3>1 DEF Ahead
      <3> QED
        BY <3>1, <3>2 DEF JoinedBefore, GaplessJoinIfFits, Gapless
    <2> QED
      BY <2>1, GapWrite, GapAdd, GapReceive DEF Next
  <1> QED
    BY <1>1, <1>2, OrderInvariant, PTL DEF Spec
=============================================================================
