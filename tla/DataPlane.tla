----------------------------- MODULE DataPlane -----------------------------
(***************************************************************************)
(* Packets between a client's TUN device and the exit's egress: the        *)
(* client's OutboundPipeline and InboundPipeline (bibeam-tun), a WgTunnel  *)
(* at each end over UDP, and the exit's ExitMode::run.  The tasks that     *)
(* move frames between a channel and a WgTunnel are not in the repository; *)
(* they are modelled from how the channels and the pump methods are        *)
(* documented to be used.                                                  *)
(***************************************************************************)
EXTENDS Tunnel, FiniteSets, Functions

CONSTANTS
    Requests, Replies,  \* packets of the client's TUN device and replies at the exit
    Malformed,          \* packets that bibeam_tun::parse rejects
    Bound,              \* DEFAULT_CHANNEL_BOUND
    MaxFaults           \* bound on lost and doubled datagrams, failed calls and rebinds

ASSUME PacketsAssumption == Packets = Requests \cup Replies /\ NoPacket \notin Packets
ASSUME BoundAssumption == Bound \in Nat \ {0} /\ MaxFaults \in Nat

VARIABLES
    setup,      \* .driver "pump": the client reads with pump_socket_to_peer, "session": with
                \* ClientSession::decode_inbound; .mode "l3" or "l4": the exit's ExitMode
    pending,    \* packets and replies that no one has read yet
    channel,    \* .out: TUN to tunnel at the client; per end, .client and .exit: tunnel to TUN
    wg,         \* per end, the WgTunnel: its Tunn, the datagram (sealed) a pump_peer_to_socket
                \* call and the outcome (opened) a pump_socket_to_peer call still has to send
    net,        \* .flying: datagrams under way, .lost: messages that will not arrive, .port: the
                \* client's UDP port, which the exit knows as 0
    written,    \* per end, the packets written to its TUN device, in order
    task,       \* the run loops, and the stage that takes what the TUN reader sends
    cancelled, faults

planeVars == <<setup, pending, channel, wg, net, written, task, cancelled, faults>>

Ends == {"client", "exit"}
Other(e) == IF e = "client" THEN "exit" ELSE "client"
Nothing == [net |-> <<>>, frame |-> NoPacket]
Wg == [tunn : Tunn, sealed : Seq(Wire), opened : [net : Seq(Wire), frame : Packets \cup {NoPacket}]]

Fault == faults < MaxFaults /\ faults' = faults + 1

-----------------------------------------------------------------------------
(* The run loops.  XMutant is a deliberately wrong X for the mutation      *)
(* runs; nothing else uses it.                                             *)

Loops == {"outbound", "inbound", "l3"}
Tasks == Loops \cup {"stage"}

Running(t) == task[t] = "running"
Stops(t, how) == task' = [task EXCEPT ![t] = how]

FullMutant(c) == Len(channel[c]) > Bound
Full(c) == Len(channel[c]) >= Bound

RoomMutant == ~Full("out")
\* try_send never waits for room.
Room == TRUE

\* OutboundPipeline::run: a packet that finds the channel full is dropped, newest first.
ReadPacket ==
    /\ Running("outbound") /\ Room /\ Running("stage")
    /\ \E p \in pending \cap Requests :
        /\ pending' = pending \ {p}
        /\ channel' = IF Full("out") THEN channel ELSE [channel EXCEPT !.out = Append(@, p)]
    /\ UNCHANGED <<setup, wg, net, written, task, cancelled, faults>>

\* A packet that finds the channel closed ends the loop, without an error.
ReadClosed ==
    /\ Running("outbound") /\ ~Running("stage")
    /\ \E p \in pending \cap Requests : pending' = pending \ {p}
    /\ Stops("outbound", "ended")
    /\ UNCHANGED <<setup, channel, wg, net, written, cancelled, faults>>

\* The stage goes away between two packets, and what waits in its channel with it.
StageGone ==
    /\ Running("stage") /\ wg.client.sealed = <<>>
    /\ Stops("stage", "ended")
    /\ channel' = [channel EXCEPT !.out = <<>>]
    /\ UNCHANGED <<setup, pending, wg, net, written, cancelled, faults>>

ReadFails ==
    /\ Running("outbound") /\ pending \cap Requests # {}
    /\ Fault /\ Stops("outbound", "failed")
    /\ UNCHANGED <<setup, pending, channel, wg, net, written, cancelled>>

\* InboundPipeline::run and run_l3: the next frame of the channel of end e goes to e's device,
\* unless the exit finds that it is no IP packet.
Writer(e) == IF e = "client" THEN "inbound" ELSE "l3"
Valid(e, p) == e = "client" \/ p \notin Malformed

WritePacket(e) ==
    /\ Running(Writer(e)) /\ channel[e] # <<>>
    /\ channel' = [channel EXCEPT ![e] = Tail(@)]
    /\ LET p == Head(channel[e]) IN
        \/ /\ written' = IF Valid(e, p) THEN [written EXCEPT ![e] = Append(@, p)] ELSE written
           /\ UNCHANGED <<task, faults>>
        \/ /\ Valid(e, p) /\ Fault /\ Stops(Writer(e), "failed")
           /\ UNCHANGED written
    /\ UNCHANGED <<setup, pending, wg, net, cancelled>>

LoopCancelledMutant(t) ==
    /\ cancelled /\ Running(t) /\ Stops(t, "ended") /\ t # "inbound"
    /\ UNCHANGED <<setup, pending, channel, wg, net, written, cancelled, faults>>

\* The select!s of the run loops are not biased: a cancelled token may lose to a packet.
LoopCancelled(t) ==
    /\ cancelled /\ Running(t) /\ Stops(t, "ended")
    /\ UNCHANGED <<setup, pending, channel, wg, net, written, cancelled, faults>>

Cancel ==
    /\ ~cancelled /\ cancelled' = TRUE
    /\ UNCHANGED <<setup, pending, channel, wg, net, written, task, faults>>

-----------------------------------------------------------------------------
(* From the plaintext to the socket                                        *)

\* The inner address of a datagram: the exit writes to the port it knows.
Datagram(e, msg) == [to |-> Other(e), port |-> IF e = "client" THEN net.port ELSE 0, msg |-> msg]

\* pump_peer_to_socket up to its send_to; encode_outbound seals the same way.
Seal(e, p) ==
    /\ wg[e].sealed = <<>>
    /\ LET o == Encapsulate(wg[e].tunn, p) IN
        wg' = [wg EXCEPT ![e].tunn = o.tunn, ![e].sealed = o.net]

SealRequest ==
    /\ channel.out # <<>> /\ Running("stage")
    /\ Seal("client", Head(channel.out))
    /\ channel' = [channel EXCEPT !.out = Tail(@)]
    /\ UNCHANGED <<setup, pending, net, written, task, cancelled, faults>>

\* A reply comes back at the exit: only to a client that is heard.
SealReply ==
    /\ wg.exit.tunn.session = "current"
    /\ \E p \in pending \cap Replies : Seal("exit", p) /\ pending' = pending \ {p}
    /\ UNCHANGED <<setup, channel, net, written, task, cancelled, faults>>

\* send_to, of which the network loses what the fault bound admits.
Launch(e, msg) ==
    \/ net' = [net EXCEPT !.flying = @ \cup {Datagram(e, msg)}] /\ UNCHANGED faults
    \/ net' = [net EXCEPT !.lost = @ \cup {msg}] /\ Fault

SendSealed(e) ==
    /\ wg[e].sealed # <<>>
    /\ Launch(e, Head(wg[e].sealed))
    /\ wg' = [wg EXCEPT ![e].sealed = <<>>]
    /\ UNCHANGED <<setup, pending, channel, written, task, cancelled>>

-----------------------------------------------------------------------------
(* From the socket to the plaintext                                        *)

\* The exit takes datagrams from the peer address it was built with; the client's old port is
\* gone once it has another.
ExpectedSource(e, d) == d.port = IF e = "client" THEN net.port ELSE 0

\* pump_socket_to_peer drains the queue, decode_inbound does not.
Open(e, msg) ==
    IF e = "client" /\ setup.driver = "session" THEN DecapOnly(wg[e].tunn, msg)
    ELSE DecapAndCollect(wg[e].tunn, msg)

\* recv_from and the calls under the lock; what they leave to be sent is sent after it.
Receive(e) ==
    /\ wg[e].opened = Nothing
    /\ \E d \in {x \in net.flying : x.to = e} :
        /\ \/ net' = [net EXCEPT !.flying = @ \ {d},
                                 !.lost = IF ExpectedSource(e, d) THEN @ ELSE @ \cup {d.msg}]
              /\ UNCHANGED faults
           \/ ExpectedSource(e, d) /\ Fault /\ UNCHANGED net  \* the network doubles d
        /\ wg' = IF ExpectedSource(e, d)
                 THEN LET o == Open(e, d.msg) IN
                      [wg EXCEPT ![e].tunn = o.tunn, ![e].opened = [net |-> o.net, frame |-> o.frame]]
                 ELSE wg
    /\ UNCHANGED <<setup, pending, channel, written, task, cancelled>>

\* The loop over network_writes: an error of send_to leaves it, with the rest and the frame.
SendCollected(e) ==
    /\ wg[e].opened.net # <<>>
    /\ \/ /\ Launch(e, Head(wg[e].opened.net))
          /\ wg' = [wg EXCEPT ![e].opened.net = Tail(@)]
       \/ /\ Fault
          /\ net' = [net EXCEPT !.lost = @ \cup Range(wg[e].opened.net)]
          /\ wg' = [wg EXCEPT ![e].opened = Nothing]
    /\ UNCHANGED <<setup, pending, channel, written, task, cancelled>>

\* Whether the receiver of end e's channel is there: run_l4_socks5 drops it before it listens,
\* the other loops when they return.
Receiving(e) == Running(Writer(e))
TakesMutant(e) == ~Full(e)
Takes(e) == Receiving(e) => ~Full(e)

HandOverMutant(e) ==
    /\ wg[e].opened.net = <<>> /\ wg[e].opened.frame # NoPacket
    /\ Takes(e)
    /\ channel' = IF Receiving(e) THEN [channel EXCEPT ![e] = Append(@, wg[e].opened.frame)] ELSE channel
    /\ UNCHANGED <<setup, pending, wg, net, written, task, cancelled, faults>>

\* Sender::send waits for room and fails once the receiver is gone.
HandOver(e) ==
    /\ wg[e].opened.net = <<>> /\ wg[e].opened.frame # NoPacket
    /\ Takes(e)
    /\ channel' = IF Receiving(e) THEN [channel EXCEPT ![e] = Append(@, wg[e].opened.frame)] ELSE channel
    /\ wg' = [wg EXCEPT ![e].opened = Nothing]
    /\ UNCHANGED <<setup, pending, net, written, task, cancelled, faults>>

\* The client's address changes; both ends keep the tunnel they have.
Rebind ==
    /\ Fault
    /\ net' = [net EXCEPT !.port = 1]
    /\ UNCHANGED <<setup, pending, channel, wg, written, task, cancelled>>

-----------------------------------------------------------------------------

\* Both drivers with the exit that reads frames; the other exit with the first.
Setups == {[driver |-> "pump", mode |-> "l3"], [driver |-> "session", mode |-> "l3"],
           [driver |-> "pump", mode |-> "l4"]}

NewWg == [tunn |-> NewTunn, sealed |-> <<>>, opened |-> Nothing]

PlaneInit ==
    /\ setup \in Setups
    /\ pending = Packets
    /\ channel = [out |-> <<>>, client |-> <<>>, exit |-> <<>>]
    /\ wg = [e \in Ends |-> NewWg]
    /\ net = [flying |-> {}, lost |-> {}, port |-> 0]
    /\ written = [e \in Ends |-> <<>>]
    /\ task = [outbound |-> "running", stage |-> "running", inbound |-> "running",
               l3 |-> IF setup.mode = "l3" THEN "running" ELSE "ended"]
    /\ cancelled = FALSE /\ faults = 0

\* The kernel keeps the pump methods and the loops going, and a select! that is not biased picks
\* a cancelled token in the end.  Each of these steps uses up something, so one condition for
\* all of them is enough.  Nothing obliges the tasks outside the repository to take a packet
\* from the channel or to write a reply: SealRequest and SealReply are not fair.
Work ==
    \/ ReadPacket \/ ReadClosed
    \/ \E e \in Ends : WritePacket(e) \/ SendSealed(e) \/ Receive(e) \/ SendCollected(e) \/ HandOver(e)
    \/ \E t \in Loops : LoopCancelled(t)

PlaneNext == Work \/ ReadFails \/ StageGone \/ SealRequest \/ SealReply \/ Rebind \/ Cancel

PlaneSpec == PlaneInit /\ [][PlaneNext]_planeVars /\ WF_planeVars(Work)

-----------------------------------------------------------------------------
(* Properties                                                              *)

\* Type invariant.
PlaneTypeOK ==
    /\ setup \in Setups
    /\ pending \subseteq Packets
    /\ channel \in [{"out", "client", "exit"} -> Seq(Packets)]
    /\ \A c \in DOMAIN channel : Len(channel[c]) <= Bound
    /\ wg \in [Ends -> Wg] /\ \A e \in Ends : Len(wg[e].sealed) <= 1
    /\ written \in [Ends -> Seq(Packets)]
    /\ net \in [flying : SUBSET [to : Ends, port : {0, 1}, msg : Wire], lost : SUBSET Wire, port : {0, 1}]
    /\ task \in [Tasks -> {"running", "ended", "failed"}]
    /\ cancelled \in BOOLEAN /\ faults \in 0..MaxFaults

UpPipe == INSTANCE LossyPipe WITH
    Packets <- Requests, entered <- Requests \ pending, left <- written.exit
DownPipe == INSTANCE LossyPipe WITH
    Packets <- Replies, entered <- Replies \ pending, left <- written.client

\* Each direction is a LossyPipe: no packet is made up on the way and none comes out twice,
\* whatever is lost, doubled or overtaken, and in whatever order the tasks take turns.
PlaneIsLossyPipe == UpPipe!Spec /\ DownPipe!Spec

\* A request whose handshake messages are not lost is not forgotten: it leaves the queue that
\* boringtun keeps it in until there is a session, and reaches the exit's Tunn unless its own
\* datagram is lost.  So the only ways to lose it are those of a datagram.
HandshakeLost == \E m \in net.lost : m.kind \in {"init", "resp"}
Accepted(p) == p \in Range(wg.client.tunn.queue) \/ Data(p) \in Range(wg.client.sealed)
Accounted(p) == Data(p) \in wg.exit.tunn.seen \cup net.lost \/ HandshakeLost
NothingVanishes ==
    setup.driver = "pump" => \A p \in Requests : Accepted(p) ~> Accounted(p)

\* backpressure.rs, "drop-newest, not block": the client's TUN device is read to the end though
\* nobody takes packets from the channel; once there is nobody left to take them, the next packet
\* ends the loop.
ReaderNeverStalls == (pending \cap Requests # {}) ~> (pending \cap Requests = {} \/ ~Running("outbound"))

\* exit_mode.rs: a frame on its way to the egress never waits for ever, also in an L4 exit that
\* does not read frames and after the loop has failed or was cancelled.
UpstreamNeverStuck == \A e \in Ends : wg[e].opened # Nothing ~> wg[e].opened = Nothing

\* A cancelled token ends the three loops, however many packets wait.
PlaneDrains == cancelled ~> \A t \in Loops : ~Running(t)

\* What encode_outbound's documentation says of a frame that waits for the session, for a
\* client that reads with decode_inbound.
QueuedFramesLeave ==
    \A p \in Requests : p \in Range(wg.client.tunn.queue) ~> p \notin Range(wg.client.tunn.queue) \/ HandshakeLost
=============================================================================
