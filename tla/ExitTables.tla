----------------------------- MODULE ExitTables -----------------------------
(***************************************************************************)
(* The tables that the packet tasks of an exit share: the cohort snapshot  *)
(* of RotationHandler, the limiters of NodeRateLimiter and of the          *)
(* transport's SessionRateLimiter, and the FlowTable.  The packet task     *)
(* that makes these calls is not in the repository; each call is cut where *)
(* another thread can get in between.                                      *)
(***************************************************************************)
EXTENDS Integers, Sequences, FiniteSets

CONSTANTS
    Tasks,        \* packet tasks
    NoLock,       \* no task
    Peers,        \* clients; each has one session and one flow
    LastCohort,   \* the coordinator rotates through the cohorts 1..LastCohort
    Pps,          \* packets per second of a limiter
    Bps,          \* bytes per second of a session
    Sizes,        \* packet sizes in bytes
    IdleSecs,     \* idle_secs of gc
    MaxClock, MaxPackets   \* bounds on the seconds that pass and on the packets that arrive

ASSUME QuotaAssumption ==
    /\ Pps \in Nat \ {0} /\ Bps \in Nat \ {0} /\ Sizes \subseteq Nat /\ IdleSecs \in Nat
    /\ LastCohort \in Nat \ {0} /\ Peers \cap (1..LastCohort) = {} /\ IsFiniteSet(Peers)
ASSUME TablesBounds == MaxClock \in Nat /\ MaxPackets \in Nat /\ IsFiniteSet(Tasks) /\ NoLock \notin Tasks

VARIABLES
    clock,      \* seconds
    active,     \* the cohort the ArcSwap holds
    rotations,  \* RotationHandler's counter
    limiter,    \* per key in the two maps of NodeRateLimiter, its limiter
    cells,      \* per limiter built so far, the packets it still lets through in this second
    budget,     \* per peer, the bytes its session still lets through in this second
    flow,       \* per flow in the table, its FlowState
    lock,       \* per flow, the task that holds its shard's write lock
    sweep,      \* gc: its cutoff and the flows that retain has still to look at
    task,       \* per task, where it is in its packet
    ledger      \* what was let through, recorded, retired and charged late; no part of the program

tableVars == <<clock, active, rotations, limiter, cells, budget, flow, lock, sweep, task, ledger>>

Cohorts == 1..LastCohort
Keys == Peers \cup Cohorts
Idle == [at |-> "idle", cohort |-> 1]
Packet == [at : {"cohort", "peer", "bytes", "clock", "touch", "add", "stamp"},
           cohort : Cohorts, peer : Peers, size : Sizes, have : BOOLEAN, now : 0..MaxClock]
Between == [at : {"idle"}, cohort : Cohorts]
Ledger == [packets : Nat, passed : [Keys -> Nat], late : Nat, bytes : [Peers -> Nat],
           touched : [Peers -> Nat], retired : [Peers -> Nat]]

-----------------------------------------------------------------------------
(* XMutant is a deliberately wrong X for the mutation runs; nothing else   *)
(* uses it.                                                                *)

Goes(t, at) == task' = [task EXCEPT ![t].at = at]
Finishes(t) == task' = [task EXCEPT ![t] = [Idle EXCEPT !.cohort = task[t].cohort]]

\* swap_to: store, then the counter.
SwapTo ==
    /\ active < LastCohort
    /\ active' = active + 1 /\ rotations' = rotations + 1
    /\ UNCHANGED <<clock, limiter, cells, budget, flow, lock, sweep, task, ledger>>

\* The snapshot a packet of task t works with.
CurrentCohortMutant(t) == task[t].cohort
CurrentCohort(t) == active

Arrive(t) ==
    /\ task[t].at = "idle" /\ ledger.packets < MaxPackets
    /\ \E p \in Peers, n \in Sizes :
        task' = [task EXCEPT ![t] = [at |-> "cohort", cohort |-> CurrentCohort(t), peer |-> p,
                                     size |-> n, have |-> FALSE, now |-> 0]]
    /\ ledger' = [ledger EXCEPT !.packets = @ + 1]
    /\ UNCHANGED <<clock, active, rotations, limiter, cells, budget, flow, lock, sweep>>

\* The key of the limiter that task t is at: check_cohort, then check_peer.
Scopes == {"cohort", "peer"}
Key(t) == IF task[t].at = "cohort" THEN task[t].cohort ELSE task[t].peer

\* cohort_limiter and peer_limiter: entry().or_insert_with builds a limiter if there is none by
\* then; a get that hits needs no step of its own, one that misses is the step before this one.
InsertMutant(key) ==
    /\ limiter' = [k \in DOMAIN limiter \cup {key} |-> IF k = key THEN Len(cells) + 1 ELSE limiter[k]]
    /\ cells' = Append(cells, Pps)
Insert(key) ==
    IF key \in DOMAIN limiter THEN UNCHANGED <<limiter, cells>>
    ELSE /\ limiter' = [k \in DOMAIN limiter \cup {key} |-> IF k = key THEN Len(cells) + 1 ELSE limiter[k]]
         /\ cells' = Append(cells, Pps)

MissThenInsert(t) ==
    \/ /\ task[t].at \in Scopes /\ ~task[t].have /\ Key(t) \notin DOMAIN limiter
       /\ task' = [task EXCEPT ![t].have = TRUE]
       /\ UNCHANGED <<limiter, cells>>
    \/ /\ task[t].at \in Scopes /\ task[t].have
       /\ Insert(Key(t))
       /\ task' = [task EXCEPT ![t].have = FALSE]

Lookup(t) ==
    /\ MissThenInsert(t)
    /\ UNCHANGED <<clock, active, rotations, budget, flow, lock, sweep, ledger>>

\* RateLimiter::check on the limiter found: a packet over the rate is dropped.
Check(t) ==
    /\ task[t].at \in Scopes /\ ~task[t].have /\ Key(t) \in DOMAIN limiter
    /\ LET l == limiter[Key(t)]
           late == IF task[t].at = "cohort" /\ task[t].cohort # active THEN 1 ELSE 0 IN
        IF cells[l] = 0 THEN Finishes(t) /\ UNCHANGED <<cells, ledger>>
        ELSE /\ cells' = [cells EXCEPT ![l] = @ - 1]
             /\ ledger' = [ledger EXCEPT !.passed[Key(t)] = @ + 1, !.late = @ + late]
             /\ Goes(t, IF task[t].at = "cohort" THEN "peer" ELSE "bytes")
    /\ UNCHANGED <<clock, active, rotations, limiter, budget, flow, lock, sweep>>

\* check_bytes: nothing to charge for 0 bytes; more than the burst is never within the budget.
WithinBudgetMutant(p, n) == n = 0 \/ budget[p] > 0
WithinBudget(p, n) == n = 0 \/ n <= budget[p]

CheckBytes(t) ==
    /\ task[t].at = "bytes"
    /\ LET p == task[t].peer
           n == task[t].size IN
        IF ~WithinBudget(p, n) THEN Finishes(t) /\ UNCHANGED <<budget, ledger>>
        ELSE /\ budget' = [budget EXCEPT ![p] = @ - n]
             /\ ledger' = [ledger EXCEPT !.bytes[p] = @ + n]
             /\ Goes(t, "clock")
    /\ UNCHANGED <<clock, active, rotations, limiter, cells, flow, lock, sweep>>

\* The caller reads now_secs, then calls touch_in or touch_out.
ReadClock(t) ==
    /\ task[t].at = "clock"
    /\ task' = [task EXCEPT ![t].at = "touch", ![t].now = clock]
    /\ UNCHANGED <<clock, active, rotations, limiter, cells, budget, flow, lock, sweep, ledger>>

-----------------------------------------------------------------------------
(* FlowTable                                                               *)

NewFlowState == [bytes |-> 0, last_seen |-> 0]

\* entry().or_insert_with: takes the shard's write lock and holds it to the end of the touch.
TouchEnter(t) ==
    /\ task[t].at = "touch"
    /\ LET p == task[t].peer IN
        /\ lock[p] = NoLock /\ lock' = [lock EXCEPT ![p] = t]
        /\ flow' = [f \in DOMAIN flow \cup {p} |-> IF f \in DOMAIN flow THEN flow[f] ELSE NewFlowState]
    /\ Goes(t, "add")
    /\ UNCHANGED <<clock, active, rotations, limiter, cells, budget, sweep, ledger>>

\* The two atomics of the entry the guard holds, whether it is still in the table or not.
TouchAdd(t) ==
    /\ task[t].at = "add"
    /\ LET p == task[t].peer IN
        /\ flow' = IF p \in DOMAIN flow THEN [flow EXCEPT ![p].bytes = @ + task[t].size] ELSE flow
        /\ ledger' = [ledger EXCEPT !.touched[p] = @ + task[t].size]
    /\ Goes(t, "stamp")
    /\ UNCHANGED <<clock, active, rotations, limiter, cells, budget, lock, sweep>>

TouchStamp(t) ==
    /\ task[t].at = "stamp"
    /\ LET p == task[t].peer IN
        /\ flow' = IF p \in DOMAIN flow THEN [flow EXCEPT ![p].last_seen = task[t].now] ELSE flow
        /\ lock' = [lock EXCEPT ![p] = NoLock]
    /\ Finishes(t)
    /\ UNCHANGED <<clock, active, rotations, limiter, cells, budget, sweep, ledger>>

NoSweep == [cutoff |-> 0, left |-> {}]

\* gc: the cutoff from the caller's clock (saturating_sub), then retain shard by shard.
GcStarts ==
    /\ sweep.left = {} /\ DOMAIN flow # {}
    /\ sweep' = [cutoff |-> IF clock < IdleSecs THEN 0 ELSE clock - IdleSecs, left |-> Peers]
    /\ UNCHANGED <<clock, active, rotations, limiter, cells, budget, flow, lock, task, ledger>>

UnlockedMutant(p) == TRUE
Unlocked(p) == lock[p] = NoLock

GcRetains(p) ==
    /\ p \in sweep.left /\ Unlocked(p)
    /\ LET drop == p \in DOMAIN flow /\ flow[p].last_seen < sweep.cutoff IN
        /\ flow' = [f \in DOMAIN flow \ (IF drop THEN {p} ELSE {}) |-> flow[f]]
        /\ ledger' = IF drop THEN [ledger EXCEPT !.retired[p] = @ + flow[p].bytes] ELSE ledger
    /\ sweep' = IF sweep.left = {p} THEN NoSweep ELSE [sweep EXCEPT !.left = @ \ {p}]
    /\ UNCHANGED <<clock, active, rotations, limiter, cells, budget, lock, task>>

\* A second passes: every limiter has its burst back.
Tick ==
    /\ clock < MaxClock /\ clock' = clock + 1
    /\ cells' = [l \in DOMAIN cells |-> Pps]
    /\ budget' = [p \in Peers |-> Bps]
    /\ UNCHANGED <<active, rotations, limiter, flow, lock, sweep, task, ledger>>

-----------------------------------------------------------------------------

TablesInit ==
    /\ clock = 0 /\ active = 1 /\ rotations = 0
    /\ limiter = <<>> /\ cells = <<>> /\ budget = [p \in Peers |-> Bps]
    /\ flow = <<>> /\ lock = [p \in Peers |-> NoLock] /\ sweep = NoSweep
    /\ task = [t \in Tasks |-> Idle]
    /\ ledger = [packets |-> 0, passed |-> [k \in Keys |-> 0], late |-> 0,
                 bytes |-> [p \in Peers |-> 0], touched |-> [p \in Peers |-> 0],
                 retired |-> [p \in Peers |-> 0]]

TablesNext ==
    \/ \E t \in Tasks : \/ Arrive(t) \/ Lookup(t) \/ Check(t) \/ CheckBytes(t) \/ ReadClock(t)
                        \/ TouchEnter(t) \/ TouchAdd(t) \/ TouchStamp(t)
    \/ \E p \in Peers : GcRetains(p)
    \/ SwapTo \/ GcStarts \/ Tick

TablesSpec == TablesInit /\ [][TablesNext]_tableVars

-----------------------------------------------------------------------------
(* Properties                                                              *)

\* Type invariant.
TablesTypeOK ==
    /\ clock \in 0..MaxClock /\ active \in Cohorts /\ rotations \in Nat
    /\ DOMAIN limiter \subseteq Keys /\ \A k \in DOMAIN limiter : limiter[k] \in 1..Len(cells)
    /\ cells \in Seq(0..Pps) /\ budget \in [Peers -> 0..Bps]
    /\ DOMAIN flow \subseteq Peers
    /\ \A f \in DOMAIN flow : flow[f] \in [bytes : Nat, last_seen : 0..MaxClock]
    /\ lock \in [Peers -> Tasks \cup {NoLock}]
    /\ sweep \in [cutoff : 0..MaxClock, left : SUBSET Peers]
    /\ task \in [Tasks -> Packet \cup Between]
    /\ ledger \in Ledger

\* rate_limit.rs: no key and no session gets more than its rate, however many tasks look it up
\* for the first time at once and whatever the others charge.
WithinQuota ==
    /\ \A k \in Keys : ledger.passed[k] <= Pps * (clock + 1)
    /\ \A p \in Peers : ledger.bytes[p] <= Bps * (clock + 1)

\* gc's documentation, "the packet's counter update cannot land on an orphaned state": the bytes
\* of every touch are in the table or in the flow that gc took out with them.
BytesAccounted ==
    \A p \in Peers :
        ledger.touched[p] = ledger.retired[p] + (IF p \in DOMAIN flow THEN flow[p].bytes ELSE 0)

\* current_cohort's documentation, "the new cohort is only observed on the next call": a
\* rotation leaves each task at most one packet that is still charged to an earlier cohort.
StaleCharges == ledger.late <= Cardinality(Tasks) * rotations

\* FlowState's documentation: last_seen is the second of the most recent observation, so no touch
\* sets it back.
LastSeenGrows == [][\A f \in DOMAIN flow \cap DOMAIN flow' : flow'[f].last_seen >= flow[f].last_seen]_flow
=============================================================================
