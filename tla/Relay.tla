------------------------------- MODULE Relay -------------------------------
(***************************************************************************)
(* Multi-hop relaying.  The coordinator assembles a path and mints one     *)
(* lease per forwarder (coordinator/multihop.rs); each forwarder routes    *)
(* RelayFrames by its lease table (bibeam-node/src/forwarder.rs); the      *)
(* client wraps and unwraps frames (bibeam-cli/src/multihop.rs).           *)
(*                                                                         *)
(* Handing a lease to its forwarder and the exit's answer are not in the   *)
(* repository; they are modelled from what the forwarder expects.          *)
(***************************************************************************)
EXTENDS Integers, FiniteSets, Sequences, Functions

CONSTANTS
    Clients, Forwarders, Exits,   \* each stands for its socket address too
    Chains,          \* chain ids: fresh ULIDs, never minted twice
    Hops,            \* forwarders in a chain: assemble passes 1
    NoChain,         \* the chain of a bare WireGuard datagram
    LeaseTime,       \* LEASE_DURATION
    NoPath,          \* a client without an assignment
    Floor,           \* per_position_floor: other flows that a position must see
    MaxClock, MaxSends   \* bounds on the clock and on datagrams a client sends

ASSUME HopsAssumption == Hops \in Nat \ {0}
\* A client's current assignment: where its frames go first, their chain id, and the exit.
Path == [first : Forwarders \cup Exits, chain : Chains \cup {NoChain}, exit : Exits]

ASSUME NoneAssumption == NoChain \notin Chains /\ NoPath \notin Path
ASSUME RolesAssumption ==   \* no two parties share a socket address
    Clients \cap Forwarders = {} /\ Clients \cap Exits = {} /\ Forwarders \cap Exits = {}
ASSUME FloorAssumption == Floor \in Nat
ASSUME ClockAssumption == LeaseTime \in Nat /\ MaxClock \in Nat /\ MaxSends \in Nat

VARIABLES
    clock,
    minted,      \* chain ids in use
    path,        \* per client, its current assignment or NoPath
    issued,      \* every lease the coordinator has handed out
    table,       \* per forwarder, its routing entries
    net,         \* datagrams under way: lost, duplicated and reordered at will
    sent,        \* per client, datagrams it has sent
    got          \* payloads decoded at a client or arrived at an exit

vars == <<clock, minted, path, issued, table, net, sent, got>>

Addr == Clients \cup Forwarders \cup Exits
Lease == [forwarder : Forwarders, chain : Chains, src : Addr, dst : Addr,
          expires : 0..MaxClock + LeaseTime, of : Clients]
RoutingEntry == [chain : Chains, src : Addr, dst : Addr, expires : 0..MaxClock + LeaseTime]
\* The payload is WireGuard ciphertext between one client and one exit: all that matters of
\* it is which client's session it belongs to, which exit's, and its direction.
Payload == [client : Clients, exit : Exits, dir : {"out", "in"}]
Datagram == [src : Addr, dst : Addr, chain : Chains \cup {NoChain}, body : Payload]

-----------------------------------------------------------------------------
(* The coordinator.  XMutant is a deliberately wrong X for the mutation    *)
(* runs; nothing else uses it.                                             *)

\* The neighbours of forwarder i of a chain from client c to exit e.
Upstream(c, chain, i) == IF i = 1 THEN c ELSE chain[i - 1]
Downstream(e, chain, i) == IF i = Len(chain) THEN e ELSE chain[i + 1]

LeaseEnd == clock + LeaseTime

\* build_lease_chain mints a fresh chain id for every lease.
LeaseChain(c, e, chain, ids, expires) ==
    {[forwarder |-> chain[i], chain |-> ids[i], src |-> Upstream(c, chain, i),
      dst |-> Downstream(e, chain, i), expires |-> expires, of |-> c] : i \in 1..Len(chain)}

\* What a RegionView knows of a client and of a candidate: the flows that its cohort sees, just
\* at the floor or above it.
ClientLookup == {"found", "missing_wg_key", "unknown"}
Candidate == [cohort_size : {Floor, Floor + 1}]
View == [Forwarders \cup Exits -> Candidate]

\* The order of the candidates is the view's, so the first busy one may be any of them.
Busy(view, candidates) == {x \in candidates : view[x].cohort_size > Floor}
PickBusyExit(view) == Busy(view, Exits)
PickBusyForwarder(view) == Busy(view, Forwarders)

\* The client's session: one WireGuard edge to the exit, addressed to the first hop.  It tags
\* its frames with the first lease's id.
PeerEndpoint(chain, e) == IF chain = <<>> THEN e ELSE chain[1]
NewSingleHop(e) == [first |-> PeerEndpoint(<<>>, e), chain |-> NoChain, exit |-> e]
NewMultiHop(chain, ids, e) == [first |-> PeerEndpoint(chain, e), chain |-> ids[1], exit |-> e]

\* build_single_hop, and build_multi_hop with its leases.
SingleHop(c, e) ==
    path' = [path EXCEPT ![c] = NewSingleHop(e)] /\ UNCHANGED <<minted, issued>>

MultiHopVia(c, e, forwarders) ==
    \E chain \in [1..Hops -> forwarders], ids \in [1..Hops -> Chains \ minted] :
        /\ IsInjective(chain) /\ IsInjective(ids)
        /\ minted' = minted \cup Range(ids)
        /\ issued' = issued \cup LeaseChain(c, e, chain, ids, LeaseEnd)
        /\ path' = [path EXCEPT ![c] = NewMultiHop(chain, ids, e)]

\* MultiHopBuilder::assemble works on a snapshot.  It refuses a client that is not registered or
\* has no key, and a region without a busy exit; without a busy forwarder the client goes to
\* the exit directly.
Assemble(c) ==
    /\ \E lookup \in ClientLookup :
        \/ lookup # "found" /\ UNCHANGED <<path, minted, issued>>
        \/ /\ lookup = "found"
           /\ \E view \in View :
               \/ PickBusyExit(view) = {} /\ UNCHANGED <<path, minted, issued>>
               \/ \E e \in PickBusyExit(view) :
                   \/ PickBusyForwarder(view) = {} /\ SingleHop(c, e)
                   \/ MultiHopVia(c, e, PickBusyForwarder(view))
    /\ UNCHANGED <<clock, table, net, sent, got>>

-----------------------------------------------------------------------------
(* The forwarder                                                           *)

EntryOf(lease) ==
    [chain |-> lease.chain, src |-> lease.src, dst |-> lease.dst, expires |-> lease.expires]

\* Forwarder::insert_lease: the row for a chain id replaces an older one.
InsertLease(f) ==
    \E lease \in issued :
        /\ lease.forwarder = f
        /\ EntryOf(lease) \notin table[f]
        /\ table' = [table EXCEPT ![f] = {row \in @ : row.chain # lease.chain} \cup {EntryOf(lease)}]
        /\ UNCHANGED <<clock, minted, path, issued, net, sent, got>>

ExpiredMutant(row) == FALSE
Expired(row) == row.expires < clock

\* Forwarder::sweep_expired, on its 30 s ticker.
Sweep(f) ==
    /\ table' = [table EXCEPT ![f] = {row \in @ : ~Expired(row)}]
    /\ UNCHANGED <<clock, minted, path, issued, net, sent, got>>

\* The table is in memory only: a forwarder that is started again binds its address with an
\* empty one.
Bind(f) ==
    /\ table' = [table EXCEPT ![f] = {}]
    /\ UNCHANGED <<clock, minted, path, issued, net, sent, got>>

Direction(row, src) ==
    CASE src = row.src -> "upstream" [] src = row.dst -> "downstream" [] OTHER -> "none"
Target(row, src) == IF Direction(row, src) = "upstream" THEN row.dst ELSE row.src

ForwardTo(addr) == [forward |-> TRUE, target |-> addr]
DropFor(reason) == [forward |-> FALSE, reason |-> reason]

RowsOfMutant(f, d) == table[f]
\* The row of the datagram's first 16 bytes: at most one by InsertLease.
RowsOf(f, d) == {row \in table[f] : row.chain = d.chain}

\* Forwarder::evaluate; a datagram is never too short for a chain id.
Evaluate(row, d) ==
    IF Direction(row, d.src) = "none" THEN DropFor("src_mismatch")
    ELSE IF Expired(row) THEN DropFor("expired_lease")
    ELSE ForwardTo(Target(row, d.src))
Decisions(f, d) ==
    IF RowsOf(f, d) = {} THEN {DropFor("unknown_chain")} ELSE {Evaluate(row, d) : row \in RowsOf(f, d)}

\* handle_inbound: act_on_decision sends the frame on unchanged, or fails to, or drops it.
HandleInbound(f) ==
    \E d \in net :
        /\ d.dst = f
        /\ \E decision \in Decisions(f, d) :
            \/ decision.forward /\ net' = net \cup {[d EXCEPT !.src = f, !.dst = decision.target]}
            \/ net' = net
        /\ UNCHANGED <<clock, minted, path, issued, table, sent, got>>

\* Forwarder::run; its errors of recv_from are counted, and the loop goes on.
Run(f) == Sweep(f) \/ HandleInbound(f)

-----------------------------------------------------------------------------
(* The ends                                                                *)

\* ClientSession::encode_outbound: tag the datagram with the session's chain id, if any.
Encode(c) ==
    /\ path[c] # NoPath
    /\ sent[c] < MaxSends
    /\ sent' = [sent EXCEPT ![c] = @ + 1]
    /\ net' = net \cup {[src |-> c, dst |-> path[c].first, chain |-> path[c].chain,
                         body |-> [client |-> c, exit |-> path[c].exit, dir |-> "out"]]}
    /\ UNCHANGED <<clock, minted, path, issued, table, got>>

\* ClientSession's mode: SingleHop has no chain id, MultiHop that of the first lease.
MultiHop(c) == path[c] # NoPath /\ path[c].chain # NoChain
Decodable(c, d) == path[c] # NoPath /\ (MultiHop(c) => path[c].chain = d.chain)

\* ClientSession::decode_inbound: a session on a chain refuses the frames of another one, a
\* session without one takes every datagram.  got records what passed, before WireGuard
\* looks at it.
Decode(c) ==
    \E d \in net :
        /\ d.dst = c
        /\ Decodable(c, d)
        /\ got' = got \cup {[at |-> c, body |-> d.body]}
        /\ UNCHANGED <<clock, minted, path, issued, table, net, sent>>

\* The exit answers the sender of a frame on the frame's chain.
Answer(e) ==
    \E d \in net :
        /\ d.dst = e
        /\ got' = got \cup {[at |-> e, body |-> d.body]}
        /\ net' = net \cup {[src |-> e, dst |-> d.src, chain |-> d.chain,
                             body |-> [d.body EXCEPT !.dir = "in"]]}
        /\ UNCHANGED <<clock, minted, path, issued, table, sent>>

Lose ==
    \E d \in net :
        /\ net' = net \ {d}
        /\ UNCHANGED <<clock, minted, path, issued, table, sent, got>>

PassTime ==
    /\ clock < MaxClock
    /\ clock' = clock + 1
    /\ UNCHANGED <<minted, path, issued, table, net, sent, got>>

Init ==
    /\ clock = 0
    /\ minted = {}
    /\ path = [c \in Clients |-> NoPath]
    /\ issued = {}
    /\ table = [f \in Forwarders |-> {}]
    /\ net = {}
    /\ sent = [c \in Clients |-> 0]
    /\ got = {}

Next ==
    \/ \E c \in Clients : Assemble(c) \/ Encode(c) \/ Decode(c)
    \/ \E f \in Forwarders : InsertLease(f) \/ Run(f) \/ Bind(f)
    \/ \E e \in Exits : Answer(e)
    \/ Lose \/ PassTime

Spec == Init /\ [][Next]_vars

-----------------------------------------------------------------------------
(* Properties                                                              *)

\* Type invariant.
TypeOK ==
    /\ clock \in 0..MaxClock
    /\ minted \subseteq Chains
    /\ path \in [Clients -> Path \cup {NoPath}]
    /\ issued \subseteq Lease
    /\ table \in [Forwarders -> SUBSET RoutingEntry]
    /\ net \subseteq Datagram
    /\ sent \in [Clients -> 0..MaxSends]
    /\ got \subseteq [at : Clients \cup Exits, body : Payload]

\* Chains never cross: whatever was lost, replayed or delayed across re-assignments, a
\* payload only ever surfaces at the client and the exit its session was assembled for.
NoCrossTalk ==
    \A g \in got : IF g.at \in Clients THEN g.at = g.body.client /\ g.body.dir = "in"
                   ELSE g.at = g.body.exit /\ g.body.dir = "out"

\* A forwarder only emits a datagram for a lease the coordinator issued to it, with the
\* other end of that lease as its sender, and before that lease has run out.
OnlyLeasedForwards ==
    [][\A d \in net' \ net : d.src \in Forwarders =>
          \E lease \in issued :
              /\ lease.forwarder = d.src /\ lease.chain = d.chain
              /\ lease.expires >= clock
              /\ \/ d.dst = lease.dst /\ \E o \in net : o.src = lease.src /\ o.body = d.body
                 \/ d.dst = lease.src /\ \E o \in net : o.src = lease.dst /\ o.body = d.body]_vars
=============================================================================
