---------------------------- MODULE Coordinator ----------------------------
(***************************************************************************)
(* The coordinator's admission path: the per-region anonymity floor        *)
(* (coordinator/admission_gate.rs), the two redb tables it works against   *)
(* (cohorts.rs, registry.rs) and the rotation scheduler (rotation.rs) that *)
(* runs beside the matchmaker.                                             *)
(*                                                                         *)
(* Every request handler is one member of Requests: it loads a cohort,     *)
(* passes it through admit_or_bucket, persists it, and either drains the   *)
(* bucket it brought over the floor or waits on its oneshot receiver.  The *)
(* HTTP handlers of server.rs are stubs, so this order is the one the      *)
(* gate's contract and tests/coordinator_admission_e2e.rs prescribe.       *)
(* Handlers and the scheduler share the gate (one mutex) and the tables    *)
(* (one redb transaction per call) and interleave between those calls.     *)
(***************************************************************************)
EXTENDS Integers, FiniteSets

CONSTANTS
    Peers,        \* peer ids
    Cohorts,      \* cohort ids: fresh ULIDs, never minted twice
    Regions,      \* region strings a registrant may present
    NoRegion,     \* the empty region string: "did not declare a region"
    NoRequest,    \* what a handler that has not started was asked for
    Requests,     \* match requests, each served by one handler
    Floor,        \* AdmissionGate::floor
    Lifetime,     \* cohort creation to rotation_deadline
    Slo,          \* PEER_HEARTBEAT_SLO
    Slots,        \* handlers allowed between load and drain at once
    MaxClock,     \* bound on the wall clock
    MaxFaults,    \* bound on failing redb transactions
    MaxCrashes,   \* bound on coordinator restarts
    Beating       \* bound: the peers that send heartbeats

ASSUME FloorAssumption == Floor \in Nat
ASSUME TimeAssumption ==
    Lifetime \in Nat /\ Slo \in Nat /\ MaxClock \in Nat
ASSUME BoundAssumption ==
    Slots \in Nat /\ MaxFaults \in Nat /\ MaxCrashes \in Nat /\ Beating \subseteq Peers
ASSUME NoRequestAssumption ==
    NoRequest \notin [peer : Peers, cohort : Cohorts, region : Regions]

VARIABLES
    clock,     \* wall clock
    seen,      \* PeerRegistry: last_seen of each peer, Never when absent
    store,     \* CohortStore: CohortRecord of each cohort, Absent when none
    minted,    \* cohort ids that have been used
    pending,   \* AdmissionGate::pending, as the set of its waiter rows
    audit,     \* regions with a NoAnonymousPathAvailable entry in the audit log
    pc,        \* where each handler is
    req,       \* what each handler was asked for
    rec,       \* the CohortRecord each handler holds, Absent when it holds none
    slot,      \* the oneshot channel of each handler
    ans,       \* the members of the record a handler's MatchResponse was built from
    sched,     \* the locals of the rotation tick under way
    faults, crashes

handlerVars == <<pc, req, rec, slot, ans>>
bounds == <<faults, crashes>>
vars == <<clock, seen, store, minted, pending, audit,
          pc, req, rec, slot, ans, sched, faults, crashes>>

Never == -1
Tags == Regions \cup {NoRegion}

\* The members of a record are a duplicate-free Vec whose order nothing reads; the exit list
\* is chosen with the cohort and never changes, so it is left out.
CohortRecord == [members : SUBSET Peers, deadline : 0..MaxClock, region : Tags]

\* A stored record always has a member: admit_or_bucket pushes one before any upsert.
Absent == [members |-> {}, deadline |-> 0, region |-> NoRegion]
FreshMutant == [Absent EXCEPT !.deadline = clock + 60 * Lifetime]
Fresh == [Absent EXCEPT !.deadline = clock + Lifetime]

Request == [peer : Peers, cohort : Cohorts, region : Regions]
PendingAdmission == [region : Regions, cohort : Cohorts, peer : Peers, waiter : Requests]
Pair == [region : Regions, cohort : Cohorts]
Steps == {"idle", "begun", "peersEvicted", "cohortsEvicted", "get", "drain"}
NoPairs == {}

\* The tick's locals: its instant, the pairs still to visit, the pair being drained with the
\* record read for it, and the cohorts found in the store.
SchedState == [step : Steps, now : 0..MaxClock, todo : SUBSET Pair, at : SUBSET Pair,
               read : CohortRecord, live : SUBSET Cohorts]
Idle == [step |-> "idle", now |-> 0, todo |-> NoPairs, at |-> NoPairs,
         read |-> Absent, live |-> {}]

-----------------------------------------------------------------------------
(* The gate.  A definition X preceded by XMutant has a deliberately wrong  *)
(* variant that only the mutation runs use, in place of X.                 *)

MeetsFloorMutant(record) == Cardinality(record.members) + 1 >= Floor
MeetsFloor(record) == Cardinality(record.members) >= Floor

\* Admission of peer into record: stamp an untagged record, add the peer if it is absent.
Joined(record, peer, region) ==
    [record EXCEPT !.region = IF @ = NoRegion THEN region ELSE @,
                   !.members = @ \cup {peer}]

RegionMismatchMutant(record, region) == FALSE
RegionMismatch(record, region) == record.region # NoRegion /\ record.region # region

SameKey(row, other) ==
    row.region = other.region /\ row.cohort = other.cohort /\ row.peer = other.peer

Bucket(region) == {row \in pending : row.region = region}

PendingBuckets == {[region |-> row.region, cohort |-> row.cohort] : row \in pending}

\* The rows that drain_ready releases for one (region, cohort) pair.
Ready(region, cohort, record) ==
    {row \in Bucket(region) : row.cohort = cohort /\ row.peer \in record.members}

DropMutant(rows) == slot

\* Dropping a sender: an awaiting receiver sees RecvError, a closed one notices nothing.
Drop(rows) ==
    [r \in Requests |-> IF slot[r] = "open" /\ \E row \in rows : row.waiter = r
                        THEN "dropped" ELSE slot[r]]

\* Sending on the oneshots of rows; a receiver that was dropped discards the response.
Send(rows) ==
    [r \in Requests |-> IF slot[r] = "open" /\ \E row \in rows : row.waiter = r
                        THEN "sent" ELSE slot[r]]

\* drain_ready: release the ready rows when the record meets the floor, else leave them in
\* place and append NoAnonymousPathAvailable (an append error is only logged).
DrainReady(region, cohort, record, logged) ==
    IF MeetsFloor(record)
    THEN LET rows == Ready(region, cohort, record) IN
         /\ pending' = pending \ rows
         /\ slot' = Send(rows)
         /\ ans' = [r \in Requests |->
                       IF slot[r] = "open" /\ \E row \in rows : row.waiter = r
                       THEN record.members ELSE ans[r]]
         /\ audit' = audit
    ELSE /\ audit' = IF logged /\ Bucket(region) # {}
                     THEN audit \cup {region}
                     ELSE audit
         /\ UNCHANGED <<pending, slot, ans>>

-----------------------------------------------------------------------------
(* The match handlers                                                      *)

InMatch(r) == pc[r] \in {"loaded", "bucketed", "admitted", "persisted"}
Ended == {"answered", "mismatch", "unavailable", "timedout", "lost"}

\* The handler picks a cohort and loads its record; a new cohort starts empty and untagged.
Load(r) ==
    /\ pc[r] = "new"
    /\ Cardinality({h \in Requests : InMatch(h)}) < Slots
    /\ \E p \in Peers, c \in Cohorts, reg \in Regions :
        /\ req' = [req EXCEPT ![r] = [peer |-> p, cohort |-> c, region |-> reg]]
        /\ \/ /\ store[c] # Absent
              /\ rec' = [rec EXCEPT ![r] = store[c]]
              /\ minted' = minted
           \/ /\ c \notin minted
              /\ clock + Lifetime < MaxClock
              /\ rec' = [rec EXCEPT ![r] = Fresh]
              /\ minted' = minted \cup {c}
    /\ pc' = [pc EXCEPT ![r] = "loaded"]
    /\ UNCHANGED <<clock, seen, store, pending, audit, slot, ans, sched, bounds>>

\* AdmissionGate::admit_or_bucket on the record the handler holds.
AdmitOrBucket(r) ==
    LET q == req[r]
        joined == Joined(rec[r], q.peer, q.region)
        entry == [region |-> q.region, cohort |-> q.cohort, peer |-> q.peer, waiter |-> r]
        stale == {row \in pending : SameKey(row, entry)}
    IN
    /\ pc[r] = "loaded"
    /\ \/ /\ RegionMismatch(rec[r], q.region)
          /\ pc' = [pc EXCEPT ![r] = "mismatch"]
          /\ rec' = [rec EXCEPT ![r] = Absent]
          /\ UNCHANGED <<pending, slot, ans>>
       \/ /\ ~RegionMismatch(rec[r], q.region)
          /\ MeetsFloor(joined)
          /\ rec' = [rec EXCEPT ![r] = joined]
          /\ ans' = [ans EXCEPT ![r] = joined.members]
          /\ pc' = [pc EXCEPT ![r] = "admitted"]
          /\ UNCHANGED <<pending, slot>>
       \/ /\ ~RegionMismatch(rec[r], q.region)
          /\ ~MeetsFloor(joined)
          /\ rec' = [rec EXCEPT ![r] = joined]
          /\ pending' = (pending \ stale) \cup {entry}
          /\ slot' = [Drop(stale) EXCEPT ![r] = "open"]
          /\ pc' = [pc EXCEPT ![r] = "bucketed"]
          /\ UNCHANGED ans
    /\ UNCHANGED <<clock, seen, store, minted, audit, req, sched, bounds>>

\* CohortStore::upsert overwrites the row with the record the handler holds.
Persist(r) ==
    /\ pc[r] \in {"bucketed", "admitted"}
    /\ store' = [store EXCEPT ![req[r].cohort] = rec[r]]
    /\ pc' = [pc EXCEPT ![r] = IF @ = "admitted" THEN "persisted" ELSE "waiting"]
    /\ rec' = [rec EXCEPT ![r] = IF pc[r] = "admitted" THEN @ ELSE Absent]
    /\ UNCHANGED <<clock, seen, minted, pending, audit, req, slot, ans, sched, bounds>>

\* The load or the upsert fails: the handler answers 503 and drops its receiver, if any.
\* Its row, when it has one, stays in the gate.
RequestFails(r) ==
    /\ pc[r] \in {"new", "bucketed", "admitted"}
    /\ pc[r] = "new" => Cardinality({h \in Requests : InMatch(h)}) < Slots
    /\ faults < MaxFaults
    /\ faults' = faults + 1
    /\ pc' = [pc EXCEPT ![r] = "unavailable"]
    /\ slot' = [slot EXCEPT ![r] = IF @ = "open" THEN "closed" ELSE @]
    /\ rec' = [rec EXCEPT ![r] = Absent]
    /\ UNCHANGED <<clock, seen, store, minted, pending, audit, req, ans, sched,
                   crashes>>

MatchDrainMutant(r) ==
    /\ pc[r] = "persisted"
    /\ pc' = [pc EXCEPT ![r] = "answered"]
    /\ rec' = [rec EXCEPT ![r] = Absent]
    /\ UNCHANGED <<clock, seen, store, minted, pending, audit, req, slot, ans, sched, bounds>>

\* After an admission the matchmaker releases the bucketed peers it brought over the floor.
\* It passes no audit log.
MatchDrain(r) ==
    /\ pc[r] = "persisted"
    /\ DrainReady(req[r].region, req[r].cohort, rec[r], FALSE)
    /\ pc' = [pc EXCEPT ![r] = "answered"]
    /\ rec' = [rec EXCEPT ![r] = Absent]
    /\ UNCHANGED <<clock, seen, store, minted, req, sched, bounds>>

\* The awaited oneshot resolves: with a response, or with RecvError (503).
Wake(r) ==
    /\ pc[r] = "waiting"
    /\ slot[r] \in {"sent", "dropped"}
    /\ pc' = [pc EXCEPT ![r] = IF slot[r] = "sent" THEN "answered" ELSE "unavailable"]
    /\ UNCHANGED <<clock, seen, store, minted, pending, audit, req, rec, slot, ans, sched,
                   bounds>>

\* The handler's bounded wait expires and it drops its receiver; its row stays in the gate.
TimeOut(r) ==
    /\ pc[r] = "waiting"
    /\ slot[r] = "open"
    /\ pc' = [pc EXCEPT ![r] = "timedout"]
    /\ slot' = [slot EXCEPT ![r] = "closed"]
    /\ UNCHANGED <<clock, seen, store, minted, pending, audit, req, rec, ans, sched, bounds>>

-----------------------------------------------------------------------------
(* The rotation scheduler: tick_once, one step per transaction or lock      *)

StaleMutant(p, cutoff) == seen[p] <= cutoff
Stale(p, cutoff) == seen[p] < cutoff

Expired(record, now) == record.deadline < now

\* The tick reads the clock once; both cutoffs are computed from that instant.
TickBegin ==
    /\ sched.step = "idle"
    /\ sched' = [sched EXCEPT !.step = "begun", !.now = clock]
    /\ UNCHANGED <<clock, seen, store, minted, pending, audit, handlerVars, bounds>>

\* evict_stale, once its write transaction is open: it removes the peers not heard from within
\* the SLO before that instant, on the rows as they are by now.
TickEvictPeers ==
    /\ sched.step = "begun"
    /\ sched' = [sched EXCEPT !.step = "peersEvicted"]
    /\ seen' = [p \in Peers |-> IF Stale(p, sched.now - Slo) THEN Never ELSE seen[p]]
    /\ UNCHANGED <<clock, store, minted, pending, audit, handlerVars, bounds>>

\* evict_expired with the instant read at the start of the tick.
TickEvictCohorts ==
    /\ sched.step = "peersEvicted"
    /\ sched' = [sched EXCEPT !.step = "cohortsEvicted", !.now = 0]
    /\ store' = [c \in Cohorts |-> IF Expired(store[c], sched.now) THEN Absent ELSE store[c]]
    /\ UNCHANGED <<clock, seen, minted, pending, audit, handlerVars, bounds>>

\* Snapshot of the (region, cohort) pairs on the wait list.
TickSnapshot ==
    /\ sched.step = "cohortsEvicted"
    /\ sched' = [sched EXCEPT !.step = "get", !.todo = PendingBuckets, !.live = {}]
    /\ UNCHANGED <<clock, seen, store, minted, pending, audit, handlerVars, bounds>>

\* Read the next pair's record; a pair whose cohort is gone is skipped.  The pairs are walked
\* in the order of their names, which the model leaves open.
TickGet ==
    /\ sched.step = "get"
    /\ \E pair \in sched.todo :
        IF store[pair.cohort] = Absent
        THEN sched' = [sched EXCEPT !.todo = @ \ {pair}]
        ELSE sched' = [sched EXCEPT !.step = "drain", !.todo = @ \ {pair}, !.at = {pair},
                                    !.read = store[pair.cohort],
                                    !.live = @ \cup {pair.cohort}]
    /\ UNCHANGED <<clock, seen, store, minted, pending, audit, handlerVars, bounds>>

\* drain_ready against the record that was read.  An append to the audit log may fail.
TickDrain ==
    /\ sched.step = "drain"
    /\ \E pair \in sched.at, logged \in BOOLEAN :
        /\ DrainReady(pair.region, pair.cohort, sched.read, logged)
        /\ IF logged THEN faults' = faults ELSE faults < MaxFaults /\ faults' = faults + 1
    /\ sched' = [sched EXCEPT !.step = "get", !.at = NoPairs, !.read = Absent]
    /\ UNCHANGED <<clock, seen, store, minted, pc, req, rec, crashes>>

OrphansMutant(live) == {}
Orphans(live) == {row \in pending : row.cohort \notin live}

\* cancel_orphans: drop every row whose cohort was not found live by this tick.
TickCancel ==
    /\ sched.step = "get"
    /\ sched.todo = NoPairs
    /\ pending' = pending \ Orphans(sched.live)
    /\ slot' = Drop(Orphans(sched.live))
    /\ sched' = Idle
    /\ UNCHANGED <<clock, seen, store, minted, audit, pc, req, rec, ans, bounds>>

\* A failing transaction ends the tick; tick_once_logged logs it and waits for the next.
TickFails ==
    /\ \/ sched.step \in {"begun", "peersEvicted"}
       \/ sched.step = "get" /\ sched.todo # NoPairs
    /\ faults < MaxFaults
    /\ faults' = faults + 1
    /\ sched' = Idle
    /\ UNCHANGED <<clock, seen, store, minted, pending, audit, handlerVars, crashes>>

-----------------------------------------------------------------------------
(* The environment                                                         *)

\* PeerRegistry::upsert on a registration or heartbeat.
Heartbeat(p) ==
    /\ seen' = [seen EXCEPT ![p] = clock]
    /\ UNCHANGED <<clock, store, minted, pending, audit, handlerVars, sched, bounds>>

PassTime ==
    /\ clock < MaxClock
    /\ clock' = clock + 1
    /\ UNCHANGED <<seen, store, minted, pending, audit, handlerVars, sched, bounds>>

\* The coordinator restarts: the tables and the audit log survive, the gate, the handlers and
\* the scheduler's tick do not.
Crash ==
    /\ crashes < MaxCrashes
    /\ crashes' = crashes + 1
    /\ pending' = {}
    /\ sched' = Idle
    /\ pc' = [r \in Requests |-> IF pc[r] = "new" \/ pc[r] \in Ended THEN pc[r] ELSE "lost"]
    /\ slot' = [r \in Requests |-> IF slot[r] = "open" THEN "closed" ELSE slot[r]]
    /\ rec' = [r \in Requests |-> Absent]
    /\ UNCHANGED <<clock, seen, store, minted, audit, req, ans, faults>>

-----------------------------------------------------------------------------
Init ==
    /\ clock = 0
    /\ seen = [p \in Peers |-> Never]
    /\ store = [c \in Cohorts |-> Absent]
    /\ minted = {}
    /\ pending = {}
    /\ audit = {}
    /\ pc = [r \in Requests |-> "new"]
    /\ req = [r \in Requests |-> NoRequest]
    /\ rec = [r \in Requests |-> Absent]
    /\ slot = [r \in Requests |-> "none"]
    /\ ans = [r \in Requests |-> {}]
    /\ sched = Idle
    /\ faults = 0 /\ crashes = 0

Tick ==
    \/ TickBegin \/ TickEvictPeers \/ TickEvictCohorts
    \/ TickSnapshot \/ TickGet \/ TickDrain \/ TickCancel

Handler(r) ==
    Load(r) \/ AdmitOrBucket(r) \/ Persist(r) \/ MatchDrain(r) \/ Wake(r)

Next ==
    \/ \E r \in Requests : Handler(r) \/ RequestFails(r) \/ TimeOut(r)
    \/ Tick \/ TickFails
    \/ \E p \in Beating : Heartbeat(p)
    \/ PassTime
    \/ Crash

Spec == Init /\ [][Next]_vars

\* What the runtime guarantees: the scheduler's loop and the handlers that have started are
\* polled again and again, and time passes.  A handler's timeout is not relied upon.
Started(r) == AdmitOrBucket(r) \/ Persist(r) \/ MatchDrain(r) \/ Wake(r)

FairSpec ==
    /\ Spec
    /\ WF_vars(Tick)
    /\ WF_vars(PassTime)
    /\ \A r \in Requests : WF_vars(Started(r))

-----------------------------------------------------------------------------
(* Properties                                                              *)

\* Type invariant: every variable holds a value of the shape its Rust counterpart has.
TypeOK ==
    /\ clock \in 0..MaxClock
    /\ seen \in [Peers -> {Never} \cup 0..MaxClock]
    /\ store \in [Cohorts -> CohortRecord]
    /\ minted \subseteq Cohorts
    /\ pending \subseteq PendingAdmission
    /\ audit \subseteq Regions
    /\ pc \in [Requests -> {"new", "loaded", "bucketed", "admitted", "persisted", "waiting"}
                            \cup Ended]
    /\ req \in [Requests -> Request \cup {NoRequest}]
    /\ \A r \in Requests : req[r] = NoRequest => pc[r] \in {"new", "unavailable"}
    /\ rec \in [Requests -> CohortRecord]
    /\ slot \in [Requests -> {"none", "open", "sent", "dropped", "closed"}]
    /\ ans \in [Requests -> SUBSET Peers]
    /\ sched \in SchedState
    /\ faults \in 0..MaxFaults /\ crashes \in 0..MaxCrashes

\* The anonymity floor: every MatchResponse that was sent, by the handler itself, by another
\* handler's drain or by a rotation tick working on an older read, was built from a record
\* that holds at least Floor members, the answered peer among them.
ReleasedAtFloor ==
    \A r \in Requests :
        (pc[r] \in {"admitted", "persisted", "answered"} \/ slot[r] = "sent") =>
            Cardinality(ans[r]) >= Floor /\ req[r].peer \in ans[r]

\* No handler hangs on a sender that is gone and no sender is kept for a settled handler:
\* an open receiver has a row on the wait list, a row belongs to a request that is still
\* unsettled, and a retry leaves one row per (region, cohort, peer).
WaitersAccountedFor ==
    /\ \A r \in Requests : slot[r] = "open" => \E row \in pending : row.waiter = r
    /\ \A row \in pending : slot[row.waiter] \in {"open", "closed"}
    /\ \A row, other \in pending : SameKey(row, other) => row = other

\* Every peer that counts towards a tagged cohort's floor asked for that cohort under the
\* cohort's own region, or under no region at all.
RegionsKeptApart ==
    \A c \in Cohorts : \A p \in store[c].members :
        \E r \in Requests :
            /\ req[r] # NoRequest
            /\ req[r].peer = p /\ req[r].cohort = c
            /\ req[r].region \in {store[c].region, NoRegion}

\* The stronger statement of the gate's documentation: no anonymity set mixes two regions,
\* "undeclared" counting as one.
RegionsUnmixed ==
    \A c \in Cohorts : \A p \in store[c].members :
        \E r \in Requests :
            /\ req[r] # NoRequest
            /\ req[r].peer = p /\ req[r].cohort = c
            /\ req[r].region = store[c].region

\* A waiter whose cohort, as it is stored, has the floor and counts its peer, under the region it
\* waits for: the record that was written last would release it.
Releasable(row) ==
    /\ store[row.cohort].region = row.region /\ row.peer \in store[row.cohort].members
    /\ MeetsFloor(store[row.cohort])

\* The admission that crosses the floor releases everyone it brought along, whatever other
\* handlers load, write and drain and whatever the ticks do meanwhile: a handler that waits while
\* its waiter could be released waits for a drain that is about to come.
NobodyLeftBehind ==
    \A row \in pending :
        pc[row.waiter] = "waiting" /\ Releasable(row) =>
            \E r \in Requests :
                pc[r] = "persisted" /\ req[r].cohort = row.cohort /\ req[r].region = row.region

\* A row leaves a table only in a tick and only when it is overdue at the moment of the eviction,
\* although the tick compares with an instant read before its transactions open: a heartbeat that
\* commits in between keeps its peer in the registry.
EvictionsOverdue ==
    [][/\ \A p \in Peers : seen[p] # Never /\ seen'[p] = Never => seen[p] < clock - Slo
       /\ \A c \in Cohorts : store[c] # Absent /\ store'[c] = Absent =>
                              store[c].deadline < clock]_vars

\* A rotation tick cancels a waiter only when its cohort is not in the store.
CancelsOnlyOrphans ==
    [][TickCancel => \A row \in pending \ pending' : store[row.cohort] = Absent]_vars

\* Nobody hangs forever: every match request that started is answered or refused, without
\* counting on the handler's own timeout, because ticks release or cancel every row in the end.
RequestsEnd ==
    \A r \in Requests : (pc[r] # "new") ~> (pc[r] \in Ended)
=============================================================================
