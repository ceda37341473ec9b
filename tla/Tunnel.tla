------------------------------ MODULE Tunnel ------------------------------
(***************************************************************************)
(* WgTunnel (bibeam-transport/src/wg_tunnel.rs) around boringtun's Tunn.   *)
(* Tunn is a library: it is modelled from the results wg_tunnel.rs         *)
(* classifies and from what its documentation and tests say of them.  The  *)
(* client opens the handshake; the exit sends once a transport datagram of *)
(* the client has confirmed the session.  Nothing in the repository calls  *)
(* Tunn's timers, so a handshake message is never sent a second time and a *)
(* session never ends.                                                     *)
(***************************************************************************)
EXTENDS Integers, Sequences

CONSTANTS
    Packets,   \* plaintext IP frames, each handed over once
    NoPacket   \* no frame

Kinds == {"init", "resp", "keep", "data"}
Wire == [kind : Kinds, pkt : Packets \cup {NoPacket}]
Message(kind) == [kind |-> kind, pkt |-> NoPacket]
Data(p) == [kind |-> "data", pkt |-> p]

\* One Tunn: whether a handshake it opened or answered is under way, its session ("spare" until
\* the peer has used it), the frames that wait for the session, and the datagrams it has
\* accepted, which its replay windows refuse a second time.
Tunn == [open : BOOLEAN, session : {"none", "spare", "current"}, queue : Seq(Packets),
         seen : SUBSET Wire]
NewTunn == [open |-> FALSE, session |-> "none", queue |-> <<>>, seen |-> {}]

\* What a call leaves: the Tunn, datagrams for the network, a frame for the tunnel, an error.
Outcome(t, net, frame) == [tunn |-> t, net |-> net, frame |-> frame, failed |-> FALSE]
Failure(t) == [tunn |-> t, net |-> <<>>, frame |-> NoPacket, failed |-> TRUE]

\* Tunn::encapsulate: seal the frame, or keep it for the session and open a handshake unless
\* one is under way.
Encapsulate(t, p) ==
    IF t.session = "current" THEN Outcome(t, <<Data(p)>>, NoPacket)
    ELSE Outcome([t EXCEPT !.queue = Append(@, p), !.open = TRUE],
                 IF t.open THEN <<>> ELSE <<Message("init")>>, NoPacket)

\* Tunn::decapsulate of one datagram.
Answer(t, d) == Outcome([t EXCEPT !.session = "spare", !.seen = @ \cup {d}], <<Message("resp")>>, NoPacket)
Confirm(t, d) ==
    Outcome([t EXCEPT !.session = "current", !.open = FALSE, !.seen = @ \cup {d}], <<Message("keep")>>, NoPacket)
Unseal(t, d) == Outcome([t EXCEPT !.session = "current", !.seen = @ \cup {d}], <<>>, d.pkt)

Decapsulate(t, d) ==
    CASE d \in t.seen -> Failure(t)
      [] d \notin t.seen /\ d.kind = "init" -> Answer(t, d)
      [] d \notin t.seen /\ d.kind = "resp" -> IF t.open THEN Confirm(t, d) ELSE Failure(t)
      [] OTHER -> IF t.session = "none" THEN Failure(t) ELSE Unseal(t, d)

\* drain_pending: with empty input decapsulate seals what is queued, one frame a call.
DrainPendingMutant(t) == Outcome(t, <<>>, NoPacket)
DrainPending(t) ==
    IF t.session = "current"
    THEN Outcome([t EXCEPT !.queue = <<>>], [i \in 1..Len(t.queue) |-> Data(t.queue[i])], NoPacket)
    ELSE Outcome(t, <<>>, NoPacket)

\* decap_and_collect_network, under one lock: the datagram, then the drain.
DecapAndCollect(t, d) ==
    LET first == Decapsulate(t, d)
        rest == DrainPending(first.tunn)
    IN IF first.failed THEN first
       ELSE Outcome(rest.tunn, first.net \o rest.net, first.frame)

\* WgTunnel::decapsulate, the way of ClientSession::decode_inbound: what boringtun wants sent
\* is dropped and the queue stays.
DecapOnly(t, d) == [Decapsulate(t, d) EXCEPT !.net = <<>>]
=============================================================================
