------------------------- MODULE WebRTCPeersProofs -------------------------
(***************************************************************************)
(* Theorems about WebRTCPeers, for any number of broadcasters and peers.   *)
(***************************************************************************)
EXTENDS WebRTCPeers, TLAPS

\* Every variable keeps its type, and the pointer never keeps a closed broadcaster, which
\* a reset would close again.
THEOREM TypeCorrect == Spec => []TypeOK
  <1>1. Init => TypeOK
    BY DEF Init, TypeOK
  <1>2. TypeOK /\ [Next]_vars => TypeOK'
    <2> SUFFICES ASSUME TypeOK, [Next]_vars
                 PROVE  TypeOK'
      OBVIOUS
    <2> USE BroadcasterAssumption DEF engine, listeners
    <2>1. CASE StartFFmpeg
      BY <2>1 DEF StartFFmpeg, TypeOK
    <2>2. CASE EngineEnds
      BY <2>2 DEF EngineEnds, TypeOK
    <2>3. CASE Reset
      BY <2>3 DEF Reset, Close, TypeOK
    <2>4. ASSUME NEW b \in Broadcasters, EncoderExits(b)
          PROVE  TypeOK'
      BY <2>4 DEF EncoderExits, TypeOK
    <2>5. ASSUME NEW p \in Peers, OfferArrives(p)
          PROVE  TypeOK'
      BY <2>5 DEF OfferArrives, TypeOK
    <2>6. ASSUME NEW p \in Peers, OfferPanics(p) \/ Negotiate(p) \/ NegotiationFails(p)
          PROVE  TypeOK'
      BY <2>6 DEF OfferPanics, Negotiate, NegotiationFails, TypeOK
    <2>7. ASSUME NEW p \in Peers, Answer(p)
          PROVE  TypeOK'
      <3>1. peers' \in [Broadcasters -> SUBSET Peers]
        BY <2>7 DEF Answer, TypeOK
      <3> QED
        BY <2>7, <3>1 DEF Answer, TypeOK
    <2>8. ASSUME NEW p \in Peers, PeerEnds(p)
          PROVE  TypeOK'
      BY <2>8 DEF PeerEnds, TypeOK
    <2>9. ASSUME NEW p \in Peers, StateChange(p)
          PROVE  TypeOK'
      <3>1. peers' \in [Broadcasters -> SUBSET Peers]
        BY <2>9 DEF StateChange, TypeOK
      <3> QED
        BY <2>9, <3>1 DEF StateChange, TypeOK
    <2>10. CASE UNCHANGED vars
      BY <2>10 DEF vars, TypeOK
    <2> QED
      BY <2>1, <2>2, <2>3, <2>4, <2>5, <2>6, <2>7, <2>8, <2>9, <2>10 DEF Next, Handle
  <1> QED
    BY <1>1, <1>2, PTL DEF Spec

-----------------------------------------------------------------------------
\* What ClosedIsGone rests on: the encoder of the broadcaster in the pointer is the one
\* a reset kills, and a reset finds the listeners of a broadcaster in its map.
ResetFindsAll ==
    /\ broadcaster \in encoders => webrtcCmd = broadcaster
    /\ \A p \in Peers :
          /\ offer[p] \in {"negotiates", "answered"} => at[p] \in Broadcasters
          /\ offer[p] = "answered" /\ pc[p] = "open" => p \in peers[at[p]] \union late

\* Theorem: no encoder sends to a closed broadcaster, and a listener of one keeps its
\* connection only if it was put in the map after the Close.
THEOREM ClosedStaysGone == Spec => []ClosedIsGone
  <1> DEFINE Inv == ClosedIsGone /\ ResetFindsAll
  <1>1. Init => Inv
    BY BroadcasterAssumption DEF Init, ClosedIsGone, ResetFindsAll
  <1>2. TypeOK /\ Inv /\ [Next]_vars => Inv'
    <2> SUFFICES ASSUME TypeOK, ClosedIsGone, ResetFindsAll, [Next]_vars
                 PROVE  ClosedIsGone' /\ ResetFindsAll'
      OBVIOUS
    <2> USE BroadcasterAssumption DEF engine, listeners, ClosedIsGone, ResetFindsAll
    <2>1. CASE StartFFmpeg
      BY <2>1 DEF StartFFmpeg, FreeBroadcaster, TypeOK
    <2>2. CASE EngineEnds
      BY <2>2 DEF EngineEnds
    <2>3. CASE Reset
      <3>1. CASE broadcaster = NoBroadcaster
        BY <2>3, <3>1 DEF Reset, TypeOK
      <3>2. CASE broadcaster # NoBroadcaster
        <4>1. encoders' \subseteq open' /\ broadcaster' \notin encoders'
          BY <2>3, <3>2 DEF Reset, Close, TypeOK
        <4>2. ASSUME NEW p \in Peers, offer[p] = "answered", pc'[p] = "open"
              PROVE  /\ pc[p] = "open"
                     /\ at[p] = broadcaster => p \in late
                     /\ at[p] # broadcaster => peers'[at[p]] = peers[at[p]]
          BY <2>3, <3>2, <4>2 DEF Reset, Close, TypeOK
        <4> QED
          BY <2>3, <3>2, <4>1, <4>2 DEF Reset, Close, TypeOK
      <3> QED
        BY <3>1, <3>2
    <2>4. ASSUME NEW b \in Broadcasters, EncoderExits(b)
          PROVE  ClosedIsGone' /\ ResetFindsAll'
      BY <2>4 DEF EncoderExits
    <2>5. ASSUME NEW p \in Peers, OfferArrives(p)
          PROVE  ClosedIsGone' /\ ResetFindsAll'
      BY <2>5 DEF OfferArrives, TypeOK
    <2>6. ASSUME NEW p \in Peers, OfferPanics(p) \/ Negotiate(p) \/ NegotiationFails(p)
          PROVE  ClosedIsGone' /\ ResetFindsAll'
      BY <2>6 DEF OfferPanics, Negotiate, NegotiationFails, TypeOK
    <2>7. ASSUME NEW p \in Peers, Answer(p)
          PROVE  ClosedIsGone' /\ ResetFindsAll'
      BY <2>7 DEF Answer, TypeOK
    <2>8. ASSUME NEW p \in Peers, PeerEnds(p)
          PROVE  ClosedIsGone' /\ ResetFindsAll'
      BY <2>8 DEF PeerEnds, TypeOK
    <2>9. ASSUME NEW p \in Peers, StateChange(p)
          PROVE  ClosedIsGone' /\ ResetFindsAll'
      BY <2>9 DEF StateChange, TypeOK
    <2>10. CASE UNCHANGED vars
      BY <2>10 DEF vars
    <2> QED
      BY <2>1, <2>2, <2>3, <2>4, <2>5, <2>6, <2>7, <2>8, <2>9, <2>10 DEF Next, Handle
  <1> QED
    BY <1>1, <1>2, TypeCorrect, PTL DEF Spec
=============================================================================
