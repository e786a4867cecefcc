---------------------------- MODULE WebRTCPeers ----------------------------
(***************************************************************************)
(* The listeners of a station's WebRTC stream: encoder/webrtc.go (egress), *)
(* the parts of startFFmpeg, the monitor and Reset that concern it, and    *)
(* the handler of /webrtc/offer.                                           *)
(*                                                                         *)
(* Every start of the engine makes a broadcaster, with a goroutine that    *)
(* reads the packets of an Opus encoder from a socket, and puts it in      *)
(* ae.WebRTCBroadcaster; the handlers read that pointer without the mutex. *)
(* A peer is a PeerConnection of a listener.  pion, the WebRTC library,    *)
(* reports the end of a connection in a goroutine of its own, also the one *)
(* that a Close of ours makes.                                             *)
(*                                                                         *)
(* The station has webrtc on.  Packets, SDP and ICE are left out.          *)
(***************************************************************************)
EXTENDS FiniteSets

CONSTANTS Broadcasters,  \* broadcasters that are in use at a time
          NoBroadcaster, \* nil
          Peers          \* offers that are handled and listeners, at a time

ASSUME BroadcasterAssumption == NoBroadcaster \notin Broadcasters

VARIABLES
    started,     \* ae.started
    broadcaster, \* ae.WebRTCBroadcaster
    webrtcCmd,   \* the broadcaster that the encoder in ae.webrtcCmd sends to
    encoders,    \* broadcasters whose encoder runs
    open,        \* broadcasters that were not closed: their readLoop runs
    peers,       \* b.peers
    offer,       \* control state of the handler of each peer's offer
    at,          \* the broadcaster it called
    pc,          \* connection state of each peer
    told,        \* peers the end of which is being reported
    late         \* peers put in the map after their end or their broadcaster's

engine    == <<started, broadcaster, webrtcCmd, encoders, open>>
listeners == <<peers, offer, at, pc, told, late>>
vars      == <<started, broadcaster, webrtcCmd, encoders, open,
               peers, offer, at, pc, told, late>>

Init ==
    /\ started = FALSE
    /\ broadcaster = NoBroadcaster /\ webrtcCmd = NoBroadcaster
    /\ encoders = {} /\ open = {}
    /\ peers = [b \in Broadcasters |-> {}]
    /\ offer = [p \in Peers |-> "none"]
    /\ at = [p \in Peers |-> NoBroadcaster]
    /\ pc = [p \in Peers |-> "none"]
    /\ told = {} /\ late = {}

(***************************************************************************)
(* The engine.                                                             *)
(***************************************************************************)

\* Nothing of a broadcaster that was closed, or of a peer that has ended, is left.
FreeBroadcaster(b) ==
    b \notin open \union encoders \union {webrtcCmd} /\ \A p \in Peers : at[p] # b

FreePeer(p) ==
    offer[p] = "none" \/
    (offer[p] = "answered" /\ pc[p] = "closed" /\ p \notin told \union peers[at[p]])

\* startFFmpeg: the pointer is overwritten; the socket or the encoder may fail.
StartFFmpeg ==
    /\ ~started /\ started' = TRUE
    /\ \/ /\ broadcaster' = NoBroadcaster
          /\ UNCHANGED <<webrtcCmd, encoders, open>>
       \/ \E b \in Broadcasters :
             /\ FreeBroadcaster(b)
             /\ broadcaster' = b /\ open' = open \union {b}
             /\ \/ webrtcCmd' = b /\ encoders' = encoders \union {b}
                \/ UNCHANGED <<webrtcCmd, encoders>>
    /\ UNCHANGED listeners

\* The monitor of the HLS encoder leaves the broadcaster and its encoder alone.
EngineEnds ==
    /\ started /\ started' = FALSE
    /\ UNCHANGED <<broadcaster, webrtcCmd, encoders, open, listeners>>

EncoderExits(b) ==
    /\ b \in encoders
    /\ encoders' = encoders \ {b}
    /\ UNCHANGED <<started, broadcaster, webrtcCmd, open, listeners>>

\* Mutant: the peers are dropped from the map and not closed.
CloseDropsPeers(b) ==
    /\ open' = open \ {b}
    /\ peers' = [peers EXCEPT ![b] = {}]
    /\ UNCHANGED <<pc, told>>

\* Its peers are closed, one after the other under the mutex of the map.
Close(b) ==
    LET closing == {p \in peers[b] : pc[p] # "closed"}
    IN  /\ open' = open \ {b}
        /\ peers' = [peers EXCEPT ![b] = {}]
        /\ pc' = [p \in Peers |-> IF p \in closing THEN "closed" ELSE pc[p]]
        /\ told' = told \union closing

\* Mutant: the pointer is left.
ResetKeepsPointer ==
    /\ started' = FALSE
    /\ encoders' = encoders \ {webrtcCmd} /\ webrtcCmd' = NoBroadcaster
    /\ IF broadcaster = NoBroadcaster THEN UNCHANGED <<open, peers, pc, told>>
                                      ELSE Close(broadcaster)
    /\ UNCHANGED <<broadcaster, offer, at, late>>

Reset ==
    /\ started' = FALSE
    /\ encoders' = encoders \ {webrtcCmd} /\ webrtcCmd' = NoBroadcaster
    /\ IF broadcaster = NoBroadcaster THEN UNCHANGED <<open, peers, pc, told>>
                                      ELSE Close(broadcaster)
    /\ broadcaster' = NoBroadcaster
    /\ UNCHANGED <<offer, at, late>>

(***************************************************************************)
(* /webrtc/offer.                                                          *)
(***************************************************************************)

\* handleWebRTCOffer tests the pointer, and reads it again for the call.
OfferArrives(p) ==
    /\ FreePeer(p) /\ broadcaster # NoBroadcaster
    /\ offer' = [offer EXCEPT ![p] = "checked"]
    /\ at' = [at EXCEPT ![p] = NoBroadcaster]
    /\ pc' = [pc EXCEPT ![p] = "none"]
    /\ late' = late \ {p}
    /\ UNCHANGED <<engine, peers, told>>

\* The pointer has become nil: the handler panics, and net/http recovers.
OfferPanics(p) ==
    /\ offer[p] = "checked" /\ broadcaster = NoBroadcaster
    /\ offer' = [offer EXCEPT ![p] = "none"]
    /\ UNCHANGED <<engine, peers, at, pc, told, late>>

\* HandleOffer makes the connection, with its callback, and waits for the candidates.
Negotiate(p) ==
    /\ offer[p] = "checked" /\ broadcaster # NoBroadcaster
    /\ offer' = [offer EXCEPT ![p] = "negotiates"]
    /\ at' = [at EXCEPT ![p] = broadcaster]
    /\ pc' = [pc EXCEPT ![p] = "open"]
    /\ UNCHANGED <<engine, peers, told, late>>

\* Its connection is closed; it is in no map yet, so the report of that does nothing.
NegotiationFails(p) ==
    /\ offer[p] = "negotiates"
    /\ offer' = [offer EXCEPT ![p] = "none"]
    /\ at' = [at EXCEPT ![p] = NoBroadcaster]
    /\ pc' = [pc EXCEPT ![p] = "none"]
    /\ told' = told \ {p}
    /\ UNCHANGED <<engine, peers, late>>

\* The connection is put in the map, whatever has become of it and of the broadcaster.
Answer(p) ==
    /\ offer[p] = "negotiates"
    /\ offer' = [offer EXCEPT ![p] = "answered"]
    /\ peers' = [peers EXCEPT ![at[p]] = @ \union {p}]
    /\ late' = IF at[p] \notin open \/ (pc[p] # "open" /\ p \notin told)
               THEN late \union {p} ELSE late
    /\ UNCHANGED <<engine, at, pc, told>>

(***************************************************************************)
(* pion, and the callback of HandleOffer.                                  *)
(***************************************************************************)

\* The listener is gone or cannot be reached.
PeerEnds(p) ==
    /\ pc[p] = "open"
    /\ \E end \in {"failed", "closed"} : pc' = [pc EXCEPT ![p] = end]
    /\ told' = told \union {p}
    /\ UNCHANGED <<engine, peers, offer, at, late>>

\* Mutant: the callback knows Failed only.
StateChangeFailedOnly(p) ==
    /\ p \in told
    /\ peers' = IF pc[p] = "failed" THEN [peers EXCEPT ![at[p]] = @ \ {p}] ELSE peers
    /\ pc' = [pc EXCEPT ![p] = "closed"]
    /\ told' = IF pc[p] = "failed" THEN told ELSE told \ {p}
    /\ UNCHANGED <<engine, offer, at, late>>

\* The callback: out of the map, and closed, which is reported again if it was open.
StateChange(p) ==
    /\ p \in told
    /\ peers' = [peers EXCEPT ![at[p]] = @ \ {p}]
    /\ pc' = [pc EXCEPT ![p] = "closed"]
    /\ told' = IF pc[p] = "failed" THEN told ELSE told \ {p}
    /\ UNCHANGED <<engine, offer, at, late>>

Handle(p) == OfferPanics(p) \/ Negotiate(p) \/ NegotiationFails(p) \/ Answer(p)

Next ==
    \/ StartFFmpeg \/ EngineEnds \/ Reset
    \/ \E b \in Broadcasters : EncoderExits(b)
    \/ \E p \in Peers : OfferArrives(p) \/ Handle(p) \/ PeerEnds(p) \/ StateChange(p)

\* pion runs the callbacks, and negotiations come to an end.
Fairness == \A p \in Peers : WF_vars(StateChange(p)) /\ WF_vars(Handle(p))

Spec == Init /\ [][Next]_vars

FairSpec == Spec /\ Fairness

(***************************************************************************)
(* Properties                                                              *)
(***************************************************************************)

\* Every variable has its type, and the pointer is nil or a broadcaster that was not
\* closed: a second Close would panic, with ae.mu locked.
TypeOK ==
    /\ started \in BOOLEAN
    /\ broadcaster \in open \union {NoBroadcaster}
    /\ webrtcCmd \in Broadcasters \union {NoBroadcaster}
    /\ encoders \subseteq Broadcasters /\ open \subseteq Broadcasters
    /\ peers \in [Broadcasters -> SUBSET Peers]
    /\ offer \in [Peers -> {"none", "checked", "negotiates", "answered"}]
    /\ at \in [Peers -> Broadcasters \union {NoBroadcaster}]
    /\ pc \in [Peers -> {"none", "open", "failed", "closed"}]
    /\ told \subseteq Peers /\ late \subseteq Peers

\* What a reset closes is gone: no encoder sends to a closed broadcaster, and of its
\* listeners only those have a connection that were negotiating during the Close and
\* whom the map got afterwards.  It says nothing of a broadcaster that a start
\* overwrites, which stays as it is for ever.
ClosedIsGone ==
    /\ encoders \subseteq open
    /\ \A p \in Peers :
          offer[p] = "answered" /\ pc[p] = "open" /\ at[p] \notin open => p \in late

\* A listener whose connection has ended leaves the map, also when its end is reported
\* while a reset closes it or before its answer is made, unless the map got it too late.
EndedPeersLeave ==
    \A p \in Peers, b \in Broadcasters :
        p \in peers[b] \ late /\ pc[p] \in {"failed", "closed"} ~> p \notin peers[b]
=============================================================================
