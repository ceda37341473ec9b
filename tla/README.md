# BiBEAM: formal models and proofs

BiBEAM is an anonymising relay network in Rust. A **coordinator** groups peers into
cohorts large enough to hide in, hands out multi-hop paths and counts invites. A **node**
registers with the coordinators, follows their events, accepts QUIC connections and
forwards frames; an **exit** passes packets on to the Internet. A **client** registers,
keeps its session on disk, rotates it, and sends its packets through a TUN device, or
serves SOCKS5 where it may not have one. This directory holds TLA+ models of the parts
whose correctness depends on order, failure or arithmetic, TLC configurations that check
them on small instances, and TLAPS proofs of the properties that matter most for all
instances.

    tlc -workers 2 -config coord_concurrent.cfg MCCoordinator # a run: its module is in section 3
    tlapm CoordinatorProofs.tla                               # any *Proofs module

`PROJECT.json` maps every definition to the source lines it stands for and lists runs,
mutants, hazards, divergences and theorems. A mapped item is named with its rustdoc.

## 1. The system and what is modelled

Paths are below `src/crates/`; `coordinator/` is `bibeam-node/src/coordinator/`.

| Component | State it keeps | Operations | Modelled in |
|---|---|---|---|
| Admission gate, cohort store, peer registry, rotation tick (`coordinator/{admission_gate,cohorts,registry,rotation}.rs`) | wait list of (region, cohort, peer, oneshot); redb tables of cohorts and peers | `admit_or_bucket`, `drain_ready`, `cancel_orphans`, `upsert`, `evict_*`, `tick_once` | `Coordinator` |
| Invite ledger (`coordinator/invite_admission.rs`) | redb table code → budget left | `register`, `redeem`/`debit` | `Invites`, abstract `InviteBudget` |
| Multi-hop paths (`coordinator/multihop.rs`, `bibeam-node/src/forwarder.rs`, `bibeam-protocol/src/multihop.rs`, `bibeam-cli/src/multihop.rs`) | lease table of each forwarder, session of each client | `assemble`, `insert_lease`, `sweep_expired`, `handle_inbound`, encode, decode | `Relay` |
| What stands in front of a coordinator's handler (`coordinator/{rate_limit,region_verify,geoip_verify,audit}.rs`) | limiters per route and key, the GeoIP reader, the append-only log | `check_*`, the cross-check, `reload`, `append` | `Front` |
| Coordinator pool (`bibeam-discovery/src/{failover,http,ws,error}.rs`) | shared round-robin cursor | `try_each` | `CoordinatorPool` |
| Cohort receiver (`bibeam-node/src/cohort_ws.rs`) | where its loop is | `run`, `open_session`, `drive_session`, backoff | `CohortSocket` |
| Registrar (`registration.rs`) | verified token | `register`, `verify`, `heartbeat` | `Node`; as a caller of the pool in `Onboarding` |
| QUIC accept loop (`quic_server.rs`, `bibeam-runtime/src/shutdown.rs`) | permits, tasks, cancellation token | `run`, handshake and handler tasks, `trigger_and_wait` | `QuicServer`, `Node` |
| Exit's packet tables (`bibeam-node/src/{rotation_handler,rate_limit}.rs`, `bibeam-transport/src/rate_limit.rs`, `bibeam-tun/src/flow.rs`) | `ArcSwap` of the cohort, two maps of limiters, sharded flow map | `swap_to`, `check_*`, `touch_*`, `gc` | `ExitTables` |
| Packet pipelines, tunnel and exit loops (`bibeam-tun/src/{outbound,inbound}.rs`, `bibeam-transport/src/wg_tunnel.rs`, `bibeam-node/src/exit_mode.rs`) | bounded channels; boringtun's `Tunn` behind a mutex | `run` of each loop, `pump_*`, `encapsulate`, `decapsulate` | `Tunnel`, `DataPlane`, abstract `LossyPipe` |
| Bootstrap of a client (`bibeam-transport/src/{stun,holepunch}.rs`, `bibeam-cli/src/{bootstrap,exit_pick}.rs`, invite and match messages) | what the client has learned so far | STUN, `verify_invite`, the bootstrap's steps, `pick_exit`, `simultaneous_open` | `Onboarding` |
| Records and names (`bibeam-discovery/src/pkarr_fallback.rs`, `bibeam-node/src/dns.rs`) | none | resolution of peers and hosts | `Records` (functions) |
| The client's command line (`bibeam-cli/src/{cli,tun_setup,config}.rs`, `bibeam-transport/src/socks5.rs`, `bibeam-runtime/src/signal.rs`) | configuration file, device, listener, connections | `up`, `init`, SOCKS5, shutdown | `Daemon` |
| Rotation loop (`bibeam-cli/src/rotation.rs`) | atomic byte counter, timers | `rotation_loop`, `fire`, `saturating_subtract` | `ClientRotation` |
| Session on disk (`bibeam-cli/src/register.rs`) | key file, sealed blob | `load_or_create_state_key`, `load_session`, `persist_session` | `SessionState`, `Client` |
| MSS clamp (`bibeam-tun/src/mtu.rs`) | none | `clamp_tcp_mss`, `incremental_update` | `MssClamp` |

How they interact. A match request passes the limits and the extractor (`Front`), loads a
cohort record, passes the gate, writes the record back and either answers at once or waits
on a oneshot; the rotation tick works on the same gate (a mutex) and tables (a transaction
per call), and heartbeats move the registry under both. Leases go from the coordinator to
forwarders, chain ids from the coordinator to clients; frames meet both later, over UDP. On
a node, the registrar and the cohort receiver share one pool and one cursor; the receiver,
the accept loop and the connection tasks share one cancellation token. Clients and nodes
share the coordinators, whose registrations are their own. An exit's packet tasks share
the cohort snapshot, the limiters and the flow table with the rotation handler and the
sweep. On a client, the device's reader feeds a bounded channel, the tunnel's pump empties
it; the data plane adds to an atomic counter that the rotation loop samples and lowers, and
the loop's callback writes the files that every daemon under the same configuration
directory reads.

What is hard, and the property that makes each part correct:

- *Admission*: nobody is answered below the K-anonymity floor, by any path; no waiter is
  lost and none hangs; regions do not mix; only what is overdue is evicted.
- *Invites*: an invite never admits more peers than were granted, whatever overlaps,
  fails or restarts.
- *Paths*: a payload surfaces only at the client and the exit it belongs to; a forwarder
  emits only what a live lease covers, over a network that reorders and replays.
- *Front*: a denial is earned by who is denied; what was answered is in the log, also
  after a crash.
- *Node*: a sweep that gives up has asked everyone; the receiver gets back in touch;
  permits are conserved; a cancelled token drains the node.
- *Exit*: racing tasks share one budget per key; no counted byte is lost to the sweep; a
  rotation leaves only the packets under way at the old cohort.
- *Data plane*: each direction is a lossy pipe, and only a lost datagram loses a packet
  that waits for the handshake; nothing blocks the device or the egress; cancellation ends
  every loop.
- *Bootstrap*: the address is that of the attempt that was waited for; the match goes to
  the coordinator that registered; the hole-punch opens in any order; the call ends.
- *Command line*: the proxy runs only where privilege was refused; only a signal ends the
  daemon, and it does end it.
- *Client*: no byte is lost or charged twice; a rotation is charged only once it is on
  disk; all daemons use one key.
- *Clamp*: the walk stays inside the header and ends; the first MSS fits; the checksum
  follows the rewrite.

The full list of hazards, each at its line, is in `PROJECT.json`.

### Not modelled, and why

- `Admissioner` (`admission.rs`): only a test calls it. `RelayPath` (`relay.rs`), the TLS
  builders, `peer_config.rs` and the framing in `codec.rs`: no caller outside their tests.
- `SoleLeaderLease` (`cluster.rs`): always the leader, no state, no caller.
- `main` of the node: it builds a router, or binds a forwarder and drops it, and returns.
  No loop is started from it, so there is no assembly to model beyond `Node`.
- The end of `InboundPipeline::run` and `run_l3` once every sender of their channel is gone: the
  tasks that send are not in the repository.
- The router, health routes, argument parsing, `status`, `down` (a stub) and `ech`: they
  print or answer a constant. `up` never becomes a background process, so `--foreground`
  changes nothing yet.
- Core types, cryptographic primitives, codecs, logging, metrics and the allocator: no state
  that another step races for, or libraries beyond model checking. Tokens, signatures and
  the sealed blob are modelled by who can make and open them.

## 2. The modules

`Coordinator` has one action per handler step between two lock or transaction boundaries
(`Load`, `AdmitOrBucket`, `Persist`, `MatchDrain`, `Wake`, `TimeOut`, `RequestFails`) and one per
step of `tick_once` (`TickBegin` … `TickCancel`, `TickFails`). `rec` and `sched` are
the local copies a handler and the tick hold across those boundaries; this is where the
races are. `TickBegin` is the reading of the clock alone: the eviction transactions open
later, behind whatever else writes, and compare with the instant kept in `sched.now`, so time,
heartbeats and upserts can come in between. `Crash` keeps the tables and drops the gate, the handlers and the tick.
`server.rs` answers with stubs, so the order of a handler's calls is taken from the gate's
contract and from `bibeam-node/tests/coordinator_admission_e2e.rs`.

`Front` is what a request meets before that: the extractor, the limiter of its route by
address and by peer (`CheckKey`), then the cross-check of a declared region against a
database that is swapped meanwhile, or the entry of a match, each of which ends in an
append: an instant is taken, a key is drawn, a transaction commits. A crash can come
between any two. `ledger` is history: what was spent, and who was told what.

`Relay` keeps `net`, a set of datagrams that are lost, duplicated and reordered at will,
and `issued`, the leases handed out. `Assemble` works on a snapshot of the regions (`View`):
it refuses a client without a key and a region without a busy exit, and goes without a
forwarder where none is busy. `evaluate` and the send after it are one action: the row is
copied out under the lock and nothing reads the table again. A forwarder that starts again
has an empty table (`Bind`). How a lease reaches its forwarder and how an exit answers are
not in the repository and are marked external.

`Invites` splits a redemption into verification, the opening of redb's write transaction
with its read, and the commit; `writer` is redb's single writer. `InviteBudget` is the
promise, an atomic counter; `spent` and `granted` are history variables.

`CoordinatorPool`, `CohortSocket` (which extends it), `QuicServer` and `Node` (which extends
`CohortSocket` and instantiates `QuicServer`) make one system. A coordinator is `up`
(answers or refuses), `down` (unreachable or 5xx) or `silent` (accepts and never answers:
no request has a timeout). HTTP and WebSocket callers meet different errors, and
`IsRetriable` follows the code: a 5xx answer to an upgrade is not retriable. The receiver's
frames become events by `NextEvent`; the registrar's errors are classified as the code
classifies them, and a token is verified before a heartbeat may use it. The supervisor that
repeats `register` and `heartbeat` is not in the repository; after an outage it may do either,
where `RegistrationError` advises to register afresh.

`Onboarding` is the client's way to a session over the same pool, with nodes that register
next to it. STUN attempts, their late answers and a NAT that changes its mapping meanwhile
come first; then the invite, the registration by failover, the check of the answer's token,
the match at the one coordinator that issued it, the choice of an exit, and the punch, whose
two ends send by clocks of their own. A coordinator that did not answer may have
registered the caller. The empty forwarder chain that the decoder refuses and the
multi-hop answer that the bootstrap refuses are two ways for a match to fail.

`ExitTables` cuts each call where another thread can get in between: a lookup that misses and
the insertion after it, the charge, the reading of the clock, and the two atomics of a touch
under the shard's lock. `GcRetains` is one flow of the sweep. `ledger` is history.

`Tunnel` is `WgTunnel` around boringtun, as operators from a `Tunn` and a datagram to an
outcome: the new `Tunn`, what is to be sent, a frame. boringtun is external. `DataPlane` puts
one at each end and runs the client's pipelines, the pump methods and the exit's L3 and L4
loops over a wire that loses, doubles and reorders. `LossyPipe` is what each direction
promises. The tasks that carry frames between a channel and a tunnel are not in the
repository and are marked external; so is the stage behind the device's reader, which may go
away and close its channel (`StageGone`, `ReadClosed`).

`Daemon` has `up` from its configuration over the privilege check and the device to the
parked tunnel or the SOCKS5 fallback, connections with their errors and hang-ups, signals,
and `init` on the same file. `Records` has no state: TXT reassembly, the choice of a record,
the DNS answers of two families.

`ClientRotation` has one action per atomic operation on the byte counter, the failing weak
compare-exchange included; timers count down, so the clock needs no bound. `SessionState`
has one action per system call on the key file and the blob. `Client` composes them: the
loop's callback persists a token, as `rotation.rs:17-27` describes it; the callback itself is
not in the repository.

`MssClamp` walks real option bytes and updates a real 16-bit checksum; only the header
bytes nobody reads are left out.

Definitions named `XMutant` are deliberately wrong forms of `X`. Nothing uses them but the
mutation runs, which put each in place of `X` and require its property to fail.

Every module has a type invariant, and all of them are proved (those of `ClientRotation` and
`SessionState` as part of `Client`'s, those of the pool, the socket and the server as part of
`Node`'s), with the parts that say more than a type: a session only with a verified token of
one's own (`Onboarding`), cells within their quota (`Front`), no connection without its listener
(`Daemon`).

## 3. The runs

| Run | Module | Question | Bounds, and why they are enough |
|---|---|---|---|
| `coord_concurrent` | `MCCoordinator` | Two handlers hold copies of one stored, untagged record, beside the tick, retries, a failing transaction and a restart: floor, waiters, regions, and does the crossing admission leave nobody behind? | 3 requests of 2 peers, 2 of them between load and drain at a time (`Slots`), 1 cohort (contention is what matters), floor 2, two declared regions and the empty one: the first request stores an untagged record below the floor, the other two load it together, and one of them tags it or crosses the floor before the other writes its copy. No heartbeats: they touch only the registry, which no handler reads. |
| `coord_live` | `MCCoordinator` | Is only the overdue evicted, and does every request end? | 2 requests of 2 peers that retry; one peer sends heartbeats at any time, the SLO is 0 and the clock runs to 2, so a tick's instant can be two behind when its transaction opens; no symmetry, it is unsound for liveness. |
| `relay_hop` | `MCRelay` | Do two clients' chains cross, and does a forwarder act without a lease? | 2 clients, 2 exits, 2 chain ids, one forwarder (`assemble` passes one), leases that end at the next tick, one datagram per client: each can be re-assigned with its datagram under way. |
| `invites` | `MCInvites` | Does the ledger implement the atomic budget? | 3 redemptions of 2 codes with budgets 0..2, two registrations, a restart, a failing transaction: a budget can be contended, overwritten and lost to a crash. |
| `node` | `MCNode` | Sweeps, reconnection, permits, drain. | 2 coordinators, two callers, a cursor that wraps at 3 (not a multiple of the pool: the wrap is uneven), one permit: the loop runs out of permits with one connection. |
| `dataplane` | `DataPlane` | Is each direction a lossy pipe, is a request lost only by a datagram, does anything block, does cancellation end it? | 2 requests, one of them no IP packet, 1 reply, channels of 1, 1 fault: a full channel, a handshake that a second packet waits for, and one loss, error, doubled datagram or new address at any step; the stage behind the device's reader may go away; both drivers of the client, both exits. |
| `exit_tables` | `MCExitTables` | Budgets, bytes and late charges of racing tasks. | 2 tasks, 1 peer, 4 packets, 2 cohorts, sizes below, at and over the burst, clock 0..2: both tasks can miss the same limiter, and a sweep with an idle time of 0 can meet a touch. |
| `onboarding` | `MCOnboarding` | Fresh address, right coordinator, open punch, an end. | 1 client and 1 node over 2 coordinators, 2 STUN attempts, 1 exit: an answer can be late, the node can move the cursor between any two requests. |
| `front` | `MCFront` | Earned denials, recorded answers. | 2 handlers, 2 requests of 2 peers from 2 addresses, quotas of 1, and of 2 matches per address, 2 salts in one millisecond, a crash and a new minute: one request uses up a quota and the other comes from the same or another peer or address, to the same or another route; two appends draw a key at once. |
| `daemon` | `Daemon` | Who may proxy, what ends a daemon, does a signal? | 2 daemons, 1 `init`, 1 application, one start each: the second daemon finds the device or the port taken. |
| `client` | `Client` | Bytes, keys, charging, cancellation. | 3 bytes in steps of 1 against a cap of 2, two daemons, two tokens: the cap is crossed with increments between sample and exchange; one daemon starts while the other creates the key. |
| `mss_clamp` | `MCMssClamp` | Walk and checksum. | Every list of 4 bytes over {0, 1, 2, 3, 4, 255}, the bytes the walk tells apart, 40 lists of 8 with something before the MSS option and 25 with two MSS options; six data offsets, a truncated segment. |

Two MC modules also let TLC evaluate pure functions against what they are for, as `ASSUME`s.
`MCNode`: the backoff stays within its bounds, never shrinks and stays at the cap where the
shift would overflow (`BackoffBounded`); a URL that the pool takes also makes a WebSocket
endpoint (`PoolUrlsUpgrade`). `MCOnboarding`: a payload survives any cut into TXT strings,
the first good record wins over malformed ones, a host resolves unless both families fail,
and the fallback to public DNS servers can be told.

`CHECK_DEADLOCK FALSE` is set where the modelled program stops: `mss_clamp` (a function that
returns), `invites` (all calls answered, no registration left), `daemon` (all processes over),
`dataplane` (all packets read, all loops ended), and where the bounds on clocks, sends and
packets are used up (`relay_hop`, `exit_tables`, `front`). Symmetry is used in safety runs only
(`coord_concurrent`, `relay_hop`, `invites`, `exit_tables`, `front`), over constants that are only
compared for equality.

Every bound is a named constant that occurs in a guard: `MaxClock`, `MaxFaults`, `MaxCrashes`,
`Beating` (who sends heartbeats), `Slots`, `MaxRegisters`, `MaxSends`, `MaxBytes`, `MaxTokens`, `MaxTries`, `MaxPackets`,
`MaxMs`, `MaxMinutes`, `MaxRequests`, `MaxUps`. `Span` is the width of the pool's cursor (2^64 in the
code), `MaxConns` the configured connection budget, `Bound` the channels' capacity. `Load` mints
a cohort only when it can still expire within `MaxClock`.

### Fairness

- `Coordinator.FairSpec`: weak fairness of the tick (a tokio interval that is never
  dropped), of time, and of the started handlers' own steps (tokio polls a ready task
  again). A handler's timeout, new requests, faults and crashes are not fair: `RequestsEnd`
  does not lean on the timeout.
- `Node.NodeSpec`: weak fairness of answered requests, handlers, backoff and of the accept
  loop, whose `select!`s are biased towards the token. The receiver's `select!`s are not
  biased; they pick a ready arm at random, so an arm that is ready again and again is
  taken in the end, which is strong fairness of `ReceiverCancelled`. Connection tasks are only
  fair once the token is cancelled, which is what the `AcceptHandler` contract asks.
  `StaysInTouch` excludes coordinators that stay silent, because no request has a timeout.
- `DataPlane.PlaneSpec`: weak fairness of `Work`, the disjunction of the loops, the pump
  methods and cancellation. Each of its steps uses up a packet, a datagram, a fault or a
  loop, so the disjunction suffices. The steps that would oblige a task outside the
  repository (`SealRequest`, `SealReply`) are not fair.
- `Onboarding.OnboardSpec`: weak fairness of the steps of a bootstrap call, whose future its
  caller polls; a silent coordinator disables them. STUN, nodes and the punch are not fair.
- `Daemon.Spec`: weak fairness of the main task and of the signal task of each daemon.
  Signals, applications and operators are not fair.
- `Client.ClientSpec`: the loop's task and its callback are scheduled; a weak
  compare-exchange may fail spuriously and because of the data plane, but not for ever
  (strong fairness of `Swap`). Starting the loop, crashes and the data plane are not fair.
- `MssClamp.Spec`: the function is run to its end.
- `Relay`, `Invites`, `ExitTables` and `Front` state no fairness: their properties are safety.

## 4. The proofs

All are proved by TLAPS for every value of the constants that satisfies the named
assumptions of the modules; the bounds of the runs play no part. Every safety invariant and
every action property that a run checks has a theorem, and so have both refinements. Each
inductive invariant was checked by TLC on the instance of its run before it was proved.

`CoordinatorProofs`
- `TypeCorrect`; `FloorHolds` and `WaitersSafe` from `GateInv`. The two are not inductive
  alone: a released row is right only because a row repeats its handler's request and a
  handler before the gate has no channel, which is `RowsMatchHandlers`.
- `RegionsApart` and `RegionsPure` from `RegionInv`, which says of every copy a handler holds
  what is wanted of the stored record, since any copy may be written back; `RegionsPure`
  assumes that every request declares a region, and `div_untagged.cfg` shows that it must.
- `EvictionsJustified` from `EvictInv`: from its reading to the end of the evictions the tick's
  instant is never ahead of the clock, and no upsert looks like an eviction. So a row that is
  overdue against the old instant is overdue against the clock, and a heartbeat that commits
  between the reading and the transaction, which carries an instant not before it, keeps its
  peer.
- `CrossingReleasesAll` (`NobodyLeftBehind`) from `CrossingInv`, without a hypothesis: any number of
  handlers may overlap and regions may be undeclared. It says for every waiter that the stored
  record would release that some handler which has written its own record, counting that peer,
  is about to drain the waiter's pair (`Saves`); whoever overwrites the store later either takes
  that duty over or writes a record below the floor (`Carries`), which releases nobody. A row
  whose record a lost update has dropped, or that waits for a record tagged with another region,
  is not `Releasable`: it is left to the next tick, and `RequestsEnd` covers it.

`InvitesProofs`
- `TypeCorrect`, `TransactionCurrent` (one writer), `NoOverAdmission` from `WithinGrants`
  (redeemed plus left never exceeds granted: the bound alone is not kept by a debit), and
  `BudgetImplemented`: every step of the ledger is a step of `InviteBudget` or a stutter under
  the refinement mapping `left <- ledger`.

`PacketProofs`, what happens to a packet
- The clamp: `WalkHolds` (the inductive invariant `WalkInv`), `TypeCorrect`, `StaysInBounds`,
  and `AlignedRewrites`: RFC 1624 arithmetic over all 16-bit words, for every list whose MSS
  value lies in one word of the sum.
- `FirstFits` (`FirstMssFits`): the walk agrees with the recursive reading `Starts` of the option
  list. `LeastNumber` stands for induction (a non-empty set of numbers has a least element, so
  the least counterexample is refuted); `StartsRead` shows with it that the recursion has a
  solution, so that `Starts` may be unfolded at all; `FirstInv` then says that the cursor is
  always at an option the reading reaches and that none before it is an MSS option.
- The data plane: `PlaneTypeCorrect`, and `PipeImplemented`: in each direction `DataPlane`
  implements `LossyPipe` under `entered <- Requests \ pending`, `left <- written.exit` (and the
  same of the replies). `PipeInv` says that whatever is queued, sealed, flying, collected or in
  a channel went in at its end, and that a packet that came out of a tunnel is in one place
  only (the frame to hand over, the channel, the device) and is marked as seen in that
  tunnel's replay window. So a doubled datagram cannot bring it out again.

`RelayProofs`
- `TypeCorrect`, `ChainsApart` (`NoCrossTalk`) and `ForwardsLeased` (`OnlyLeasedForwards`) from
  `RelayInv`: no two leases have one chain id (`LeasesApart`), every row of a forwarder is of a
  lease it was given (`RowsLeased`), a client's path starts with a lease that serves it
  (`PathLeased`), and a datagram is next to the forwarder of the lease that has its chain id, on
  the side its direction says, or goes straight between a client and its exit. The proof is
  for chains of any length (`Hops`), the run for one forwarder.
  `RolesAssumption` (clients, forwarders and exits share no socket address) is needed: a
  forwarder tells the directions of a chain apart by the source address alone.

`NodeProofs`
- `TypeCorrect`; `SweepsComplete` from `SweepInv` (a sweep has asked exactly the coordinators
  from its own start on; the last request completes it by `FullSweep`, for any pool and cursor
  width); `PermitsHold` and `LateHolds` from `ServerInv`.
- The exit's tables: `TablesTypeCorrect`; `BytesHeld` (`BytesAccounted`) from `FlowInv`: whoever is
  about to touch a flow holds its shard and finds it in the table, and the sweep removes a flow
  only with the shard in its own hands; `RatesHold` (`WithinQuota`) from `QuotaInv`: what a
  limiter has let through and what it may still let through make at most one burst per second
  begun, also for a key two tasks look up for the first time at once; `LateCharges`
  (`StaleCharges`) from `StaleInv`: late charges and the packets that may still become one are at
  most one per task and rotation.

`ClientProofs`
- `KeysHold` from `DiskInv` (between creation and write the key file is short and has exactly
  one creator), `BytesHold` and `ChargesSaved` from `LoopInv` (what was observed is still in the
  counter, so the saturating subtraction never saturates), and `TypeCorrect`.
- Joining: `FreshSafe` from `FreshInv` (no datagram answers an attempt that is yet to come, and
  those that answer the attempt under way tell its address), `IssuerSafe` from `IssuerInv` (a
  client holds a token only since the step in which its issuer registered it, and
  registrations are kept), and `PunchSafe` from `PunchInv`, where `PunchOpens` is inductive with
  the types. `OnboardTypeCorrect` adds the types of the pool and the nodes, and `ConfirmedInv`:
  a client gets to `matching` only past the check of its token, and keeps that token.

`FrontProofs`
- `DenialsSafe` from `QuotaInv` (what a key has used and what is left add up to its quota, so an
  empty cell is a used-up quota), and `AuditSafe` from `AuditInv` (appends under way have keys of
  their own, which no row has, so a commit replaces nothing). `TypeCorrect` from `FrontInv`, which
  adds that no count falls below zero, and the instants and keys of appends under way.

`DaemonProofs`
- `ProxySafe`, by following the outcome of the privilege check to the listener, and `EndsSafe`,
  under the hypothesis that some signal can be caught; without it the property is false
  (section 6). `TypeCorrect` from `ConnInv`: a connection is there only while its listener is.

Only model-checked: liveness, since fairness and ENABLED are beyond the prover. These are
`RequestsEnd`, `StaysInTouch`, `DrainsOnCancel`, `LoopCancels`, `WalkEnds`, `BootstrapEnds`,
`SignalEnds`, `NothingVanishes`, `ReaderNeverStalls`, `UpstreamNeverStuck` and `PlaneDrains`.
The operators of `Records` have no state and no theorem.

## 5. Plan

Done, in this order: `Coordinator` (the core: it decides anonymity), `Invites` with its
refinement, `Relay`, `MssClamp`, `ClientRotation`/`SessionState`/`Client`,
`CoordinatorPool`/`CohortSocket`/`QuicServer`/`Node`, then `Tunnel`/`DataPlane` with its
refinement, `ExitTables`, `Onboarding` with `Records`, `Front` and `Daemon`, with the proofs above.

What is left, most valuable first:

1. The safe half of the liveness properties: variants that each fair step lowers, as theorems
   (the remaining options of `WalkEnds`, the coordinators not yet asked of `BootstrapEnds`, what is
   still to be moved for `PlaneDrains`), so that only the appeal to fairness stays with TLC.
2. The divergences of section 6 from the other side: the strongest statement that does hold
   where a document claims more (`ChecksumKept` has one in `AlignedRewrites`, `RegionsUnmixed`
   in `RegionsPure`; the others have none).
3. The handlers of `server.rs`, once they make the calls that `Front` and `Coordinator` expect of
   them, as a composition of the two.

## 6. Where code and documents disagree

Each is quoted in `PROJECT.json`. For these there is a configuration that reproduces it; TLC
reports the violation:

| Configuration | Module | Property | What it shows |
|---|---|---|---|
| `div_cancel_race.cfg` | `MCCoordinator` | `CancelsOnlyOrphans` | `cancel_orphans` receives the cohorts of an older snapshot, so a waiter bucketed in between is cancelled although its cohort is in the store. |
| `div_untagged.cfg` | `MCCoordinator` | `RegionsUnmixed` | A record without a region takes members of any region. |
| `div_unaligned.cfg` | `MCMssClamp` | `ChecksumKept` | The checksum update takes the MSS for one word of the sum also when it straddles two (one NOP before the option is enough). |
| `div_blob.cfg` | `Client` | `SessionRemembered` | The session blob is truncated before it is written; a crash in between loses the session that was saved before. |
| `div_last_seen.cfg` | `MCExitTables` | `LastSeenGrows` | A task that read the clock earlier sets a flow's `last_seen` back. |
| `div_queued.cfg` | `DataPlane` | `QueuedFramesLeave` | A client that reads with `decode_inbound` never sends what boringtun queued for the handshake. |
| `div_heartbeat.cfg` | `MCOnboarding` | `HeartbeatAsksIssuer` | A node's heartbeat goes to whichever coordinator the cursor is at, also to one that never registered it. |
| `div_row_order.cfg` | `MCFront` | `RowsInOrder` | Keys of one millisecond are random, so rows do not sort by time. |
| `div_signal.cfg` | `Daemon` | `EndsOnlyWhenTold` | Where not even `ctrl_c` can be installed, the daemon takes that for the signal and ends. |
| `div_init.cfg` | `Daemon` | `SettingsKept` | `init` looks whether the file exists and then truncates it: settings that appear in between are lost. |

Met while reading:

- a WebSocket upgrade answered with 503, and a stream that ends without a closing
  handshake, end the cohort receiver for good;
- no request to a coordinator has a timeout, so a silent one holds a sweep at its index;
- the cursor advances per call, not to the coordinator after the one that answered;
- the first failed sweep already waits, although it is documented to retry at once;
- a crash between creation and write of the key file leaves a short file that no later
  start accepts;
- each lease of a chain has its own chain id, but a frame keeps one along the chain; with
  `assemble` passing one forwarder it does not show;
- the choice of a forwarder does not fall back to other regions, and no lease is renewed;
- a failed GeoIP lookup leaves no row in the audit log;
- an invite prompt at the end of stdin fails as an invite that does not parse.

## 7. Abstractions

Record payloads, the exit list, distances, frame bytes, metrics and log lines are left out.
An id that is a fresh ULID in the code is drawn from a set of unused ids; that two drawn in
one millisecond differ is assumed of 80 random bits. Signatures and sealing are assumed to
work: what was sealed under another key does not open, an invite with a bad signature is
rejected like a stale one. One redb transaction and one mutex section are one step.
`validate_forwarder_candidate` and the byte rate limiter only remove behaviours of `Relay` (a
candidate not taken, a datagram dropped, which `Lose` covers).

A governor cell is a count that comes back as a whole with the second or the minute; the code
gives it back cell by cell, within the same bound of one burst and the rate since then
(`WithinQuota`); the minute of `DenialsEarned` stands for the time in which a burst comes back.
A packet is a name; whether it is an IP packet is a set. boringtun's timers are never called by the
code, so a handshake message is sent once and a session does not end. A NAT maps a socket to
one address at a time and opens to a peer once its own end has sent. A GeoIP database is a
function to a country, to nothing or to an error; a CIDR allowlist is a set of addresses. The
configuration file is its kind: absent, half-written, the default, the operator's, with an
invalid address, or no TOML.
