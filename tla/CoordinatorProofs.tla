------------------------- MODULE CoordinatorProofs -------------------------
(* Proofs about Coordinator: for any number of peers, cohorts, regions and  *)
(* concurrent handlers, any floor and any bounds.                           *)
EXTENDS Coordinator, TLAPS

-----------------------------------------------------------------------------
(* Shapes                                                                   *)

\* Joining a peer keeps a record a record.
LEMMA JoinedType ==
    ASSUME NEW record \in CohortRecord, NEW p \in Peers, NEW region \in Regions
    PROVE  /\ Joined(record, p, region) \in CohortRecord
           /\ Joined(record, p, region).members = record.members \cup {p}
           /\ Joined(record, p, region).region \in {record.region, region}
           /\ record.region # NoRegion => Joined(record, p, region).region = record.region
BY DEF Joined, CohortRecord, Tags

\* The record that stands for "no row" is a record without members.
LEMMA AbsentType == Absent \in CohortRecord /\ Absent.members = {}
BY TimeAssumption DEF Absent, CohortRecord, Tags

LEMMA IdleType == Idle \in SchedState
BY AbsentType, TimeAssumption DEF Idle, SchedState, Steps, NoPairs

\* Dropping or sending on the oneshots of some rows only settles open ones.
LEMMA DropType ==
    ASSUME TypeOK, NEW rows
    PROVE  /\ Drop(rows) \in [Requests -> {"none", "open", "sent", "dropped", "closed"}]
           /\ \A r \in Requests : Drop(rows)[r] \in {slot[r], "dropped"}
           /\ \A r \in Requests : slot[r] # "open" => Drop(rows)[r] = slot[r]
           /\ \A r \in Requests : slot[r] = "open" =>
                 (Drop(rows)[r] = "dropped" <=> \E row \in rows : row.waiter = r)
BY DEF Drop, TypeOK

LEMMA SendType ==
    ASSUME TypeOK, NEW rows
    PROVE  /\ Send(rows) \in [Requests -> {"none", "open", "sent", "dropped", "closed"}]
           /\ \A r \in Requests : Send(rows)[r] \in {slot[r], "sent"}
           /\ \A r \in Requests : slot[r] # "open" => Send(rows)[r] = slot[r]
           /\ \A r \in Requests : slot[r] = "open" =>
                 (Send(rows)[r] = "sent" <=> \E row \in rows : row.waiter = r)
BY DEF Send, TypeOK

\* drain_ready keeps the shapes of what it writes.
LEMMA DrainType ==
    ASSUME TypeOK, NEW region \in Regions, NEW cohort \in Cohorts, NEW record \in CohortRecord,
           NEW logged \in BOOLEAN, DrainReady(region, cohort, record, logged)
    PROVE  /\ pending' \subseteq PendingAdmission
           /\ audit' \subseteq Regions
           /\ slot' \in [Requests -> {"none", "open", "sent", "dropped", "closed"}]
           /\ ans' \in [Requests -> SUBSET Peers]
<1>1. CASE MeetsFloor(record)
  <2> DEFINE rows == Ready(region, cohort, record)
  <2>1. /\ pending' = pending \ rows /\ slot' = Send(rows) /\ audit' = audit
        /\ ans' = [r \in Requests |-> IF slot[r] = "open" /\ \E row \in rows : row.waiter = r
                                     THEN record.members ELSE ans[r]]
    BY <1>1 DEF DrainReady
  <2> HIDE DEF rows
  <2>2. record.members \in SUBSET Peers
    BY DEF CohortRecord
  <2> QED BY <2>1, <2>2, SendType DEF TypeOK
<1>2. CASE ~MeetsFloor(record)
  BY <1>2 DEF DrainReady, TypeOK
<1> QED BY <1>1, <1>2

-----------------------------------------------------------------------------
\* The type invariant is preserved by every step.
LEMMA TypeStep == TypeOK /\ [Next]_vars => TypeOK'
<1> SUFFICES ASSUME TypeOK, [Next]_vars PROVE TypeOK'
  OBVIOUS
<1> USE TimeAssumption, BoundAssumption
<1>1. ASSUME NEW r \in Requests, Load(r) PROVE TypeOK'
  <2>1. PICK p \in Peers, c \in Cohorts, reg \in Regions :
           /\ req' = [req EXCEPT ![r] = [peer |-> p, cohort |-> c, region |-> reg]]
           /\ \/ /\ rec' = [rec EXCEPT ![r] = store[c]] /\ minted' = minted
              \/ /\ clock + Lifetime < MaxClock
                 /\ rec' = [rec EXCEPT ![r] = Fresh] /\ minted' = minted \cup {c}
    BY <1>1 DEF Load
  <2>2. [peer |-> p, cohort |-> c, region |-> reg] \in Request
    BY DEF Request
  <2>3. req' \in [Requests -> Request \cup {NoRequest}] /\ req'[r] # NoRequest
    BY <2>1, <2>2, NoRequestAssumption DEF TypeOK, Request
  <2>4. clock + Lifetime < MaxClock => Fresh \in CohortRecord
    BY AbsentType DEF TypeOK, Fresh, Absent, CohortRecord, Tags
  <2>5. rec' \in [Requests -> CohortRecord] /\ minted' \subseteq Cohorts
    BY <2>1, <2>4 DEF TypeOK
  <2>6. pc' = [pc EXCEPT ![r] = "loaded"]
    BY <1>1 DEF Load
  <2>7. \A h \in Requests : req'[h] = NoRequest => pc'[h] \in {"new", "unavailable"}
    BY <2>1, <2>3, <2>6 DEF TypeOK
  <2> QED BY <1>1, <2>3, <2>5, <2>6, <2>7 DEF TypeOK, Load, bounds
<1>2. ASSUME NEW r \in Requests, AdmitOrBucket(r) PROVE TypeOK'
  <2> DEFINE q == req[r]
             joined == Joined(rec[r], q.peer, q.region)
             entry == [region |-> q.region, cohort |-> q.cohort, peer |-> q.peer, waiter |-> r]
             stale == {row \in pending : SameKey(row, entry)}
  <2>1. q \in Request /\ pc[r] = "loaded"
    BY <1>2 DEF TypeOK, AdmitOrBucket
  <2>2. joined \in CohortRecord /\ entry \in PendingAdmission
    BY <2>1, JoinedType DEF TypeOK, Request, PendingAdmission
  <2> HIDE DEF q, joined, entry, stale
  <2>3. CASE rec' = [rec EXCEPT ![r] = Absent] /\ UNCHANGED <<pending, slot, ans>>
             /\ pc' = [pc EXCEPT ![r] = "mismatch"]
    BY <1>2, <2>3, AbsentType DEF TypeOK, AdmitOrBucket, bounds, Ended
  <2>4. CASE /\ rec' = [rec EXCEPT ![r] = joined] /\ ans' = [ans EXCEPT ![r] = joined.members]
             /\ pc' = [pc EXCEPT ![r] = "admitted"] /\ UNCHANGED <<pending, slot>>
    BY <1>2, <2>2, <2>4 DEF TypeOK, AdmitOrBucket, bounds, CohortRecord
  <2>5. CASE /\ rec' = [rec EXCEPT ![r] = joined]
             /\ pending' = (pending \ stale) \cup {entry}
             /\ slot' = [Drop(stale) EXCEPT ![r] = "open"]
             /\ pc' = [pc EXCEPT ![r] = "bucketed"] /\ UNCHANGED ans
    BY <1>2, <2>2, <2>5, DropType DEF TypeOK, AdmitOrBucket, bounds
  <2> QED BY <1>2, <2>3, <2>4, <2>5 DEF AdmitOrBucket, q, joined, entry, stale
<1>3. ASSUME NEW r \in Requests, Persist(r) PROVE TypeOK'
  BY <1>3, AbsentType DEF TypeOK, Persist, bounds, Request
<1>4. ASSUME NEW r \in Requests, MatchDrain(r) PROVE TypeOK'
  <2>1. req[r] \in Request
    BY <1>4 DEF TypeOK, MatchDrain
  <2>2. DrainReady(req[r].region, req[r].cohort, rec[r], FALSE)
    BY <1>4 DEF MatchDrain
  <2>3. /\ pending' \subseteq PendingAdmission
        /\ audit' \subseteq Regions
        /\ slot' \in [Requests -> {"none", "open", "sent", "dropped", "closed"}]
        /\ ans' \in [Requests -> SUBSET Peers]
    BY <2>1, <2>2, DrainType DEF TypeOK, Request
  <2> QED BY <1>4, <2>1, <2>3, AbsentType DEF TypeOK, MatchDrain, bounds, Ended
<1>5. ASSUME NEW r \in Requests, Wake(r) PROVE TypeOK'
  BY <1>5 DEF TypeOK, Wake, bounds, Ended
<1>6. ASSUME NEW r \in Requests, RequestFails(r) PROVE TypeOK'
  BY <1>6, AbsentType DEF TypeOK, RequestFails, Ended
<1>7. ASSUME NEW r \in Requests, TimeOut(r) PROVE TypeOK'
  BY <1>7 DEF TypeOK, TimeOut, bounds, Ended
<1>8. CASE TickBegin \/ TickEvictPeers
  <2>1. sched' \in SchedState
    BY <1>8 DEF TypeOK, TickBegin, TickEvictPeers, SchedState, Steps
  <2>2. seen' \in [Peers -> {Never} \cup 0..MaxClock]
    BY <1>8 DEF TypeOK, TickBegin, TickEvictPeers
  <2> QED BY <1>8, <2>1, <2>2 DEF TypeOK, TickBegin, TickEvictPeers, bounds, handlerVars
<1>9. CASE TickEvictCohorts
  <2>1. store' \in [Cohorts -> CohortRecord]
    BY <1>9, AbsentType DEF TypeOK, TickEvictCohorts
  <2>2. sched' \in SchedState
    <3>1. sched \in SchedState
          /\ sched' = [sched EXCEPT !.step = "cohortsEvicted", !.now = 0]
      BY <1>9 DEF TypeOK, TickEvictCohorts
    <3>2. 0 \in 0..MaxClock
      BY TimeAssumption
    <3> QED BY <3>1, <3>2 DEF SchedState, Steps
  <2> QED BY <1>9, <2>1, <2>2 DEF TypeOK, TickEvictCohorts, bounds, handlerVars
<1>10. CASE TickSnapshot
  <2>1. PendingBuckets \subseteq Pair
    BY DEF TypeOK, PendingBuckets, Pair, PendingAdmission
  <2>2. sched' \in SchedState
    BY <1>10, <2>1 DEF TypeOK, TickSnapshot, SchedState, Steps
  <2> QED BY <1>10, <2>2 DEF TypeOK, TickSnapshot, bounds, handlerVars
<1>11. CASE TickGet
  <2>1. PICK pair \in sched.todo :
           IF store[pair.cohort] = Absent
           THEN sched' = [sched EXCEPT !.todo = @ \ {pair}]
           ELSE sched' = [sched EXCEPT !.step = "drain", !.todo = @ \ {pair}, !.at = {pair},
                                       !.read = store[pair.cohort],
                                       !.live = @ \cup {pair.cohort}]
    BY <1>11 DEF TickGet
  <2>2. pair \in Pair /\ pair.cohort \in Cohorts /\ store[pair.cohort] \in CohortRecord
    BY <2>1 DEF TypeOK, SchedState, Pair
  <2>3. sched' \in SchedState
    <3>1. CASE sched' = [sched EXCEPT !.todo = @ \ {pair}]
      BY <3>1 DEF TypeOK, SchedState
    <3>2. CASE sched' = [sched EXCEPT !.step = "drain", !.todo = @ \ {pair}, !.at = {pair},
                                      !.read = store[pair.cohort],
                                      !.live = @ \cup {pair.cohort}]
      BY <2>2, <3>2 DEF TypeOK, SchedState, Steps
    <3> QED BY <2>1, <3>1, <3>2
  <2> QED BY <1>11, <2>3 DEF TypeOK, TickGet, bounds, handlerVars
<1>12. CASE TickDrain
  <2>1. PICK pair \in sched.at, logged \in BOOLEAN :
           DrainReady(pair.region, pair.cohort, sched.read, logged)
    BY <1>12 DEF TickDrain
  <2>2. pair.region \in Regions /\ pair.cohort \in Cohorts /\ sched.read \in CohortRecord
    BY <2>1 DEF TypeOK, SchedState, Pair
  <2>3. /\ pending' \subseteq PendingAdmission
        /\ audit' \subseteq Regions
        /\ slot' \in [Requests -> {"none", "open", "sent", "dropped", "closed"}]
        /\ ans' \in [Requests -> SUBSET Peers]
    BY <2>1, <2>2, DrainType
  <2>4. sched' \in SchedState
    BY <1>12, AbsentType DEF TypeOK, TickDrain, SchedState, Steps, NoPairs
  <2>5. faults' \in 0..MaxFaults
    BY <1>12 DEF TypeOK, TickDrain
  <2> QED BY <1>12, <2>3, <2>4, <2>5 DEF TypeOK, TickDrain
<1>13. CASE TickCancel
  BY <1>13, IdleType, DropType DEF TypeOK, TickCancel, bounds, Orphans
<1>14. CASE TickFails
  BY <1>14, IdleType DEF TypeOK, TickFails, handlerVars
<1>15. ASSUME NEW p \in Peers, Heartbeat(p) PROVE TypeOK'
  <2>1. seen' \in [Peers -> {Never} \cup 0..MaxClock]
    BY <1>15 DEF TypeOK, Heartbeat
  <2> QED BY <1>15, <2>1 DEF TypeOK, Heartbeat, handlerVars, bounds
<1>16. CASE PassTime
  BY <1>16 DEF TypeOK, PassTime, handlerVars, bounds
<1>17. CASE Crash
  BY <1>17, IdleType, AbsentType DEF TypeOK, Crash, Ended
<1>18. CASE UNCHANGED vars
  BY <1>18 DEF TypeOK, vars
<1> QED
  BY <1>1, <1>2, <1>3, <1>4, <1>5, <1>6, <1>7, <1>8, <1>9, <1>10, <1>11, <1>12, <1>13,
     <1>14, <1>15, <1>16, <1>17, <1>18 DEF Next, Handler, Tick

\* Every reachable state has the shapes the code gives its state.
THEOREM TypeCorrect == Spec => []TypeOK
<1>1. Init => TypeOK
  BY AbsentType, IdleType, TimeAssumption, BoundAssumption DEF Init, TypeOK
<1> QED BY <1>1, TypeStep, PTL DEF Spec

-----------------------------------------------------------------------------
(* The anonymity floor and the wait list                                    *)

\* What ties a row to the handler it was made for: a row repeats its handler's request, a
\* handler that has not reached the gate owns no channel, and one that has not started has
\* no request.
RowsMatchHandlers ==
    /\ \A row \in pending :
          /\ req[row.waiter] # NoRequest
          /\ row.peer = req[row.waiter].peer
          /\ row.cohort = req[row.waiter].cohort
          /\ row.region = req[row.waiter].region
    /\ \A r \in Requests : pc[r] \in {"new", "loaded"} => slot[r] = "none"
    /\ \A r \in Requests : pc[r] = "new" => req[r] = NoRequest

GateInv == TypeOK /\ RowsMatchHandlers /\ WaitersAccountedFor /\ ReleasedAtFloor

\* Two rows of one handler are the same row.
LEMMA OneRowPerWaiter ==
    ASSUME TypeOK, RowsMatchHandlers, NEW row \in pending, NEW other \in pending,
           row.waiter = other.waiter
    PROVE  row = other
BY DEF TypeOK, RowsMatchHandlers, PendingAdmission

\* drain_ready, whoever calls it and whatever record it was given, keeps the wait list and
\* the floor intact as long as the handlers' requests and program counters stay.
LEMMA DrainKeepsGate ==
    ASSUME GateInv, NEW region \in Regions, NEW cohort \in Cohorts,
           NEW record \in CohortRecord, NEW logged \in BOOLEAN,
           DrainReady(region, cohort, record, logged), UNCHANGED req
    PROVE  /\ \A row \in pending' : row \in pending
           /\ WaitersAccountedFor'
           /\ \A r \in Requests : slot[r] # "open" => slot'[r] = slot[r] /\ ans'[r] = ans[r]
           /\ \A r \in Requests : slot[r] = "open" /\ slot'[r] # "open" =>
                 /\ slot'[r] = "sent"
                 /\ Cardinality(ans'[r]) >= Floor
                 /\ req[r].peer \in ans'[r]
           /\ \A r \in Requests : slot'[r] = "open" => slot[r] = "open" /\ ans'[r] = ans[r]
<1>1. CASE ~MeetsFloor(record)
  <2>1. UNCHANGED <<pending, slot, ans>>
    BY <1>1 DEF DrainReady
  <2> QED BY <2>1 DEF GateInv, WaitersAccountedFor, SameKey
<1>2. CASE MeetsFloor(record)
  <2> DEFINE rows == Ready(region, cohort, record)
  <2>1. /\ pending' = pending \ rows /\ slot' = Send(rows)
        /\ ans' = [r \in Requests |-> IF slot[r] = "open" /\ \E row \in rows : row.waiter = r
                                     THEN record.members ELSE ans[r]]
    BY <1>2 DEF DrainReady
  <2>2. rows \subseteq pending /\ \A row \in rows : row.peer \in record.members
    BY DEF Ready, Bucket
  <2>3. Cardinality(record.members) >= Floor
    BY <1>2 DEF MeetsFloor
  <2> HIDE DEF rows
  <2>4. /\ \A r \in Requests : slot'[r] \in {slot[r], "sent"}
        /\ \A r \in Requests : slot[r] # "open" => slot'[r] = slot[r]
        /\ \A r \in Requests : slot[r] = "open" =>
              (slot'[r] = "sent" <=> \E row \in rows : row.waiter = r)
    BY <2>1, SendType DEF GateInv
  <2>5. \A r \in Requests : slot'[r] = "open" => \E row \in pending' : row.waiter = r
    BY <2>1, <2>4 DEF GateInv, WaitersAccountedFor
  <2>6. \A row \in pending' : slot'[row.waiter] \in {"open", "closed"}
    <3> SUFFICES ASSUME NEW row \in pending' PROVE slot'[row.waiter] \in {"open", "closed"}
      OBVIOUS
    <3>1. row \in pending /\ row \notin rows /\ row.waiter \in Requests
      BY <2>1 DEF GateInv, TypeOK, PendingAdmission
    <3>2. \A other \in rows : other.waiter # row.waiter
      BY <2>2, <3>1, OneRowPerWaiter DEF GateInv
    <3>3. slot[row.waiter] \in {"open", "closed"}
      BY <3>1 DEF GateInv, WaitersAccountedFor
    <3> QED BY <2>4, <3>1, <3>2, <3>3
  <2>7. \A row, other \in pending' : SameKey(row, other) => row = other
    BY <2>1 DEF GateInv, WaitersAccountedFor
  <2>8. WaitersAccountedFor'
    BY <2>5, <2>6, <2>7 DEF WaitersAccountedFor, SameKey
  <2>9. \A r \in Requests : slot[r] = "open" /\ slot'[r] # "open" =>
           slot'[r] = "sent" /\ ans'[r] = record.members /\ req[r].peer \in record.members
    <3> SUFFICES ASSUME NEW r \in Requests, slot[r] = "open", slot'[r] # "open"
                 PROVE slot'[r] = "sent" /\ ans'[r] = record.members
                       /\ req[r].peer \in record.members
      OBVIOUS
    <3>1. slot'[r] = "sent"
      BY <2>4
    <3>2. PICK row \in rows : row.waiter = r
      BY <2>4, <3>1
    <3>3. row.peer = req[r].peer
      BY <2>2, <3>2 DEF GateInv, RowsMatchHandlers
    <3> QED BY <2>1, <2>2, <3>1, <3>2, <3>3
  <2> QED BY <2>1, <2>3, <2>4, <2>8, <2>9
<1> QED BY <1>1, <1>2

\* Dropping rows from the wait list together with their senders keeps it accounted for.
LEMMA DropKeepsWaiters ==
    ASSUME GateInv, NEW rows, rows \subseteq pending,
           pending' = pending \ rows, slot' = Drop(rows)
    PROVE  /\ WaitersAccountedFor'
           /\ \A r \in Requests : slot'[r] = "none" <=> slot[r] = "none"
           /\ \A r \in Requests : slot'[r] = "sent" <=> slot[r] = "sent"
<1>1. /\ \A r \in Requests : slot'[r] \in {slot[r], "dropped"}
      /\ \A r \in Requests : slot[r] # "open" => slot'[r] = slot[r]
      /\ \A r \in Requests : slot[r] = "open" =>
            (slot'[r] = "dropped" <=> \E row \in rows : row.waiter = r)
  BY DropType DEF GateInv
<1>2. \A r \in Requests : slot'[r] = "open" => \E row \in pending' : row.waiter = r
  BY <1>1 DEF GateInv, WaitersAccountedFor
<1>3. \A row \in pending' : slot'[row.waiter] \in {"open", "closed"}
  <2> SUFFICES ASSUME NEW row \in pending' PROVE slot'[row.waiter] \in {"open", "closed"}
    OBVIOUS
  <2>1. row \in pending /\ row \notin rows /\ row.waiter \in Requests
    BY DEF GateInv, TypeOK, PendingAdmission
  <2>2. \A other \in rows : other.waiter # row.waiter
    BY <2>1, OneRowPerWaiter DEF GateInv
  <2>3. slot[row.waiter] \in {"open", "closed"}
    BY <2>1 DEF GateInv, WaitersAccountedFor
  <2> QED BY <1>1, <2>1, <2>2, <2>3
<1>4. \A row, other \in pending' : SameKey(row, other) => row = other
  BY DEF GateInv, WaitersAccountedFor
<1>5. WaitersAccountedFor'
  BY <1>2, <1>3, <1>4 DEF WaitersAccountedFor, SameKey
<1> QED BY <1>1, <1>5

\* admit_or_bucket keeps the gate's invariant.
LEMMA AdmitKeepsGate ==
    ASSUME GateInv, NEW r \in Requests, AdmitOrBucket(r)
    PROVE  RowsMatchHandlers' /\ WaitersAccountedFor' /\ ReleasedAtFloor'
<1> DEFINE q == req[r]
           joined == Joined(rec[r], q.peer, q.region)
           entry == [region |-> q.region, cohort |-> q.cohort, peer |-> q.peer, waiter |-> r]
           stale == {row \in pending : SameKey(row, entry)}
<1>1. q \in Request /\ q # NoRequest /\ pc[r] = "loaded" /\ slot[r] = "none" /\ req' = req
  BY DEF GateInv, TypeOK, AdmitOrBucket, RowsMatchHandlers
<1>2. joined \in CohortRecord /\ q.peer \in joined.members
  BY <1>1, JoinedType DEF GateInv, TypeOK, Request
<1>3. entry \in PendingAdmission /\ entry.waiter = r /\ entry.peer = q.peer
      /\ entry.cohort = q.cohort /\ entry.region = q.region
  BY <1>1 DEF Request, PendingAdmission
<1>4. CASE rec' = [rec EXCEPT ![r] = Absent] /\ UNCHANGED <<pending, slot, ans>>
           /\ pc' = [pc EXCEPT ![r] = "mismatch"]
  <2>1. RowsMatchHandlers'
    BY <1>1, <1>4 DEF GateInv, TypeOK, RowsMatchHandlers
  <2>2. WaitersAccountedFor'
    BY <1>4 DEF GateInv, WaitersAccountedFor, SameKey
  <2>3. ReleasedAtFloor'
    BY <1>1, <1>4 DEF GateInv, TypeOK, ReleasedAtFloor
  <2> QED BY <2>1, <2>2, <2>3
<1>5. CASE /\ MeetsFloor(joined)
           /\ rec' = [rec EXCEPT ![r] = joined] /\ ans' = [ans EXCEPT ![r] = joined.members]
           /\ pc' = [pc EXCEPT ![r] = "admitted"] /\ UNCHANGED <<pending, slot>>
  <2> HIDE DEF joined
  <2>1. RowsMatchHandlers'
    BY <1>1, <1>5 DEF GateInv, TypeOK, RowsMatchHandlers
  <2>2. WaitersAccountedFor'
    BY <1>5 DEF GateInv, WaitersAccountedFor, SameKey
  <2>3. Cardinality(ans'[r]) >= Floor /\ req'[r].peer \in ans'[r]
    BY <1>1, <1>2, <1>5 DEF GateInv, TypeOK, MeetsFloor
  <2>4. ReleasedAtFloor'
    BY <1>1, <1>5, <2>3 DEF GateInv, TypeOK, ReleasedAtFloor
  <2> QED BY <2>1, <2>2, <2>4
<1>6. CASE /\ pending' = (pending \ stale) \cup {entry}
           /\ slot' = [Drop(stale) EXCEPT ![r] = "open"]
           /\ pc' = [pc EXCEPT ![r] = "bucketed"] /\ UNCHANGED ans
  <2>0. stale \subseteq pending /\ \A row \in pending \ stale : ~SameKey(row, entry)
    OBVIOUS
  <2>00. \A row : SameKey(row, entry) <=> SameKey(entry, row)
    BY DEF SameKey
  <2> HIDE DEF stale, entry
  <2>1. Drop(stale) \in [Requests -> {"none", "open", "sent", "dropped", "closed"}]
        /\ (\A h \in Requests : Drop(stale)[h] \in {slot[h], "dropped"})
        /\ (\A h \in Requests : slot[h] # "open" => Drop(stale)[h] = slot[h])
        /\ (\A h \in Requests : slot[h] = "open" =>
              (Drop(stale)[h] = "dropped" <=> \E row \in stale : row.waiter = h))
    BY DropType DEF GateInv
  <2>2. slot'[r] = "open" /\ \A h \in Requests \ {r} : slot'[h] = Drop(stale)[h]
    BY <1>6, <2>1
  <2>3. \A row \in pending : row.waiter # r
    BY <1>1 DEF GateInv, WaitersAccountedFor
  <2>4. RowsMatchHandlers'
    <3>1. \A row \in pending' :
            /\ req'[row.waiter] # NoRequest /\ row.peer = req'[row.waiter].peer
            /\ row.cohort = req'[row.waiter].cohort /\ row.region = req'[row.waiter].region
      BY <1>1, <1>3, <1>6 DEF GateInv, RowsMatchHandlers
    <3>2. \A h \in Requests : pc'[h] \in {"new", "loaded"} => slot'[h] = "none"
      BY <1>6, <2>1, <2>2 DEF GateInv, TypeOK, RowsMatchHandlers
    <3>3. \A h \in Requests : pc'[h] = "new" => req'[h] = NoRequest
      BY <1>1, <1>6 DEF GateInv, TypeOK, RowsMatchHandlers
    <3> QED BY <3>1, <3>2, <3>3 DEF RowsMatchHandlers
  <2>5. \A h \in Requests : slot'[h] = "open" => \E row \in pending' : row.waiter = h
    <3> SUFFICES ASSUME NEW h \in Requests, slot'[h] = "open"
                 PROVE \E row \in pending' : row.waiter = h
      OBVIOUS
    <3>1. CASE h = r
      BY <1>3, <1>6, <3>1
    <3>2. CASE h # r
      <4>1. slot[h] = "open" /\ ~\E row \in stale : row.waiter = h
        BY <2>1, <2>2, <3>2
      <4>2. PICK row \in pending : row.waiter = h
        BY <4>1 DEF GateInv, WaitersAccountedFor
      <4> QED BY <1>6, <4>1, <4>2
    <3> QED BY <3>1, <3>2
  <2>6. \A row \in pending' : slot'[row.waiter] \in {"open", "closed"}
    <3> SUFFICES ASSUME NEW row \in pending' PROVE slot'[row.waiter] \in {"open", "closed"}
      OBVIOUS
    <3>1. CASE row = entry
      BY <1>3, <2>2, <3>1
    <3>2. CASE row # entry
      <4>1. row \in pending /\ row \notin stale /\ row.waiter \in Requests /\ row.waiter # r
        BY <1>6, <2>3, <3>2 DEF GateInv, TypeOK, PendingAdmission
      <4>2. \A other \in stale : other.waiter # row.waiter
        BY <2>0, <4>1, OneRowPerWaiter DEF GateInv
      <4>3. slot[row.waiter] \in {"open", "closed"}
        BY <4>1 DEF GateInv, WaitersAccountedFor
      <4> QED BY <2>1, <2>2, <4>1, <4>2, <4>3
    <3> QED BY <3>1, <3>2
  <2>7. \A row, other \in pending' : SameKey(row, other) => row = other
    BY <1>6, <2>0, <2>00 DEF GateInv, WaitersAccountedFor
  <2>8. WaitersAccountedFor'
    BY <2>5, <2>6, <2>7 DEF WaitersAccountedFor, SameKey
  <2>9. ReleasedAtFloor'
    BY <1>1, <1>6, <2>1, <2>2 DEF GateInv, TypeOK, ReleasedAtFloor
  <2> QED BY <2>4, <2>8, <2>9
<1> QED BY <1>4, <1>5, <1>6 DEF AdmitOrBucket

\* Every step keeps the gate's invariant.
LEMMA GateStep == GateInv /\ [Next]_vars => GateInv'
<1> SUFFICES ASSUME GateInv, [Next]_vars PROVE GateInv'
  OBVIOUS
<1>0. TypeOK'
  BY TypeStep DEF GateInv
<1> SUFFICES RowsMatchHandlers' /\ WaitersAccountedFor' /\ ReleasedAtFloor'
  BY <1>0 DEF GateInv
<1> DEFINE Kept == RowsMatchHandlers' /\ WaitersAccountedFor' /\ ReleasedAtFloor'
<1>1. ASSUME NEW r \in Requests, Load(r) PROVE Kept
  <2>1. /\ pc[r] = "new" /\ pc' = [pc EXCEPT ![r] = "loaded"]
        /\ UNCHANGED <<pending, slot, ans>>
        /\ \E q : req' = [req EXCEPT ![r] = q]
    BY <1>1 DEF Load
  <2>2. req[r] = NoRequest /\ slot[r] = "none" /\ \A row \in pending : row.waiter # r
    BY <2>1 DEF GateInv, RowsMatchHandlers, WaitersAccountedFor
  <2>3. RowsMatchHandlers'
    BY <2>1, <2>2 DEF GateInv, TypeOK, RowsMatchHandlers
  <2>4. WaitersAccountedFor'
    BY <2>1 DEF GateInv, WaitersAccountedFor, SameKey
  <2>5. ReleasedAtFloor'
    BY <2>1, <2>2 DEF GateInv, TypeOK, ReleasedAtFloor
  <2> QED BY <2>3, <2>4, <2>5
<1>2. ASSUME NEW r \in Requests, AdmitOrBucket(r) PROVE Kept
  BY <1>2, AdmitKeepsGate
<1>3. ASSUME NEW r \in Requests, Persist(r) PROVE Kept
  <2>1. /\ pc[r] \in {"bucketed", "admitted"} /\ UNCHANGED <<pending, req, slot, ans>>
        /\ pc' = [pc EXCEPT ![r] = IF @ = "admitted" THEN "persisted" ELSE "waiting"]
    BY <1>3 DEF Persist
  <2>2. RowsMatchHandlers'
    BY <2>1 DEF GateInv, TypeOK, RowsMatchHandlers
  <2>3. WaitersAccountedFor'
    BY <2>1 DEF GateInv, WaitersAccountedFor, SameKey
  <2>4. ReleasedAtFloor'
    BY <2>1 DEF GateInv, TypeOK, ReleasedAtFloor
  <2> QED BY <2>2, <2>3, <2>4
<1>4. ASSUME NEW r \in Requests, MatchDrain(r) PROVE Kept
  <2>1. /\ pc[r] = "persisted" /\ pc' = [pc EXCEPT ![r] = "answered"] /\ UNCHANGED req
        /\ DrainReady(req[r].region, req[r].cohort, rec[r], FALSE)
    BY <1>4 DEF MatchDrain
  <2>2. req[r] \in Request /\ rec[r] \in CohortRecord
    BY <2>1 DEF GateInv, TypeOK
  <2>3. /\ \A row \in pending' : row \in pending
        /\ WaitersAccountedFor'
        /\ \A h \in Requests : slot[h] # "open" => slot'[h] = slot[h] /\ ans'[h] = ans[h]
        /\ \A h \in Requests : slot[h] = "open" /\ slot'[h] # "open" =>
              slot'[h] = "sent" /\ Cardinality(ans'[h]) >= Floor /\ req[h].peer \in ans'[h]
        /\ \A h \in Requests : slot'[h] = "open" => slot[h] = "open" /\ ans'[h] = ans[h]
    BY <2>1, <2>2, DrainKeepsGate DEF Request
  <2>4. RowsMatchHandlers'
    BY <2>1, <2>3 DEF GateInv, TypeOK, RowsMatchHandlers
  <2>5. ReleasedAtFloor'
    BY <2>1, <2>3 DEF GateInv, TypeOK, ReleasedAtFloor
  <2> QED BY <2>3, <2>4, <2>5
<1>5. ASSUME NEW r \in Requests, Wake(r) PROVE Kept
  <2>1. /\ pc[r] = "waiting" /\ slot[r] \in {"sent", "dropped"}
        /\ UNCHANGED <<pending, req, slot, ans>>
        /\ pc' = [pc EXCEPT ![r] = IF slot[r] = "sent" THEN "answered" ELSE "unavailable"]
    BY <1>5 DEF Wake
  <2>2. RowsMatchHandlers'
    BY <2>1 DEF GateInv, TypeOK, RowsMatchHandlers
  <2>3. WaitersAccountedFor'
    BY <2>1 DEF GateInv, WaitersAccountedFor, SameKey
  <2>4. ReleasedAtFloor'
    BY <2>1 DEF GateInv, TypeOK, ReleasedAtFloor
  <2> QED BY <2>2, <2>3, <2>4
<1>6. ASSUME NEW r \in Requests, RequestFails(r) \/ TimeOut(r) PROVE Kept
  <2>1. /\ UNCHANGED <<pending, req, ans>>
        /\ \E end \in {"unavailable", "timedout"} : pc' = [pc EXCEPT ![r] = end]
        /\ slot' = [slot EXCEPT ![r] = IF @ = "open" THEN "closed" ELSE @]
    BY <1>6 DEF RequestFails, TimeOut, GateInv, TypeOK
  <2>2. RowsMatchHandlers'
    BY <2>1 DEF GateInv, TypeOK, RowsMatchHandlers
  <2>3. /\ \A h \in Requests : slot'[h] = "open" => slot[h] = "open"
        /\ \A h \in Requests : slot[h] \in {"open", "closed"} => slot'[h] \in {"open", "closed"}
        /\ \A row \in pending : row.waiter \in Requests
    BY <2>1 DEF GateInv, TypeOK, PendingAdmission
  <2>4. WaitersAccountedFor'
    BY <2>1, <2>3 DEF GateInv, WaitersAccountedFor, SameKey
  <2>5. ReleasedAtFloor'
    BY <2>1 DEF GateInv, TypeOK, ReleasedAtFloor
  <2> QED BY <2>2, <2>4, <2>5
<1>7. CASE TickDrain
  <2>1. PICK pair \in sched.at, logged \in BOOLEAN :
           DrainReady(pair.region, pair.cohort, sched.read, logged)
    BY <1>7 DEF TickDrain
  <2>2. /\ pair.region \in Regions /\ pair.cohort \in Cohorts /\ sched.read \in CohortRecord
        /\ UNCHANGED <<pc, req>>
    BY <1>7, <2>1 DEF GateInv, TypeOK, SchedState, Pair, TickDrain
  <2>3. /\ \A row \in pending' : row \in pending
        /\ WaitersAccountedFor'
        /\ \A h \in Requests : slot[h] # "open" => slot'[h] = slot[h] /\ ans'[h] = ans[h]
        /\ \A h \in Requests : slot[h] = "open" /\ slot'[h] # "open" =>
              slot'[h] = "sent" /\ Cardinality(ans'[h]) >= Floor /\ req[h].peer \in ans'[h]
        /\ \A h \in Requests : slot'[h] = "open" => slot[h] = "open" /\ ans'[h] = ans[h]
    BY <2>1, <2>2, DrainKeepsGate
  <2>4. RowsMatchHandlers'
    BY <2>2, <2>3 DEF GateInv, TypeOK, RowsMatchHandlers
  <2>5. ReleasedAtFloor'
    BY <2>2, <2>3 DEF GateInv, TypeOK, ReleasedAtFloor
  <2> QED BY <2>3, <2>4, <2>5
<1>8. CASE TickCancel
  <2>1. /\ pending' = pending \ Orphans(sched.live) /\ slot' = Drop(Orphans(sched.live))
        /\ UNCHANGED <<pc, req, ans>> /\ Orphans(sched.live) \subseteq pending
    BY <1>8 DEF TickCancel, Orphans
  <2>2. /\ WaitersAccountedFor'
        /\ \A r \in Requests : slot'[r] = "none" <=> slot[r] = "none"
        /\ \A r \in Requests : slot'[r] = "sent" <=> slot[r] = "sent"
    BY <2>1, DropKeepsWaiters
  <2>3. RowsMatchHandlers'
    BY <2>1, <2>2 DEF GateInv, TypeOK, RowsMatchHandlers
  <2>4. ReleasedAtFloor'
    BY <2>1, <2>2 DEF GateInv, TypeOK, ReleasedAtFloor
  <2> QED BY <2>2, <2>3, <2>4
<1>9. CASE Crash
  <2>1. /\ pending' = {} /\ UNCHANGED <<req, ans>>
        /\ pc' = [r \in Requests |-> IF pc[r] = "new" \/ pc[r] \in Ended THEN pc[r] ELSE "lost"]
        /\ slot' = [r \in Requests |-> IF slot[r] = "open" THEN "closed" ELSE slot[r]]
    BY <1>9 DEF Crash
  <2>2. RowsMatchHandlers'
    BY <2>1 DEF GateInv, TypeOK, RowsMatchHandlers, Ended
  <2>3. WaitersAccountedFor'
    BY <2>1 DEF WaitersAccountedFor, SameKey
  <2>4. ReleasedAtFloor'
    BY <2>1 DEF GateInv, TypeOK, ReleasedAtFloor, Ended
  <2> QED BY <2>2, <2>3, <2>4
<1>10. CASE UNCHANGED <<pending, pc, req, slot, ans>>
  BY <1>10 DEF GateInv, RowsMatchHandlers, WaitersAccountedFor, SameKey, ReleasedAtFloor
<1> QED
  BY <1>1, <1>2, <1>3, <1>4, <1>5, <1>6, <1>7, <1>8, <1>9, <1>10
  DEF Next, Handler, Tick, vars, handlerVars, TickBegin, TickEvictPeers,
      TickEvictCohorts, TickSnapshot, TickGet, TickFails, Heartbeat, PassTime

\* The gate's invariant holds in every reachable state.
LEMMA GateInvariant == Spec => []GateInv
<1>1. Init => GateInv
  <2> SUFFICES ASSUME Init PROVE GateInv
    OBVIOUS
  <2>1. TypeOK
    BY AbsentType, IdleType, TimeAssumption, BoundAssumption DEF Init, TypeOK
  <2> QED BY <2>1 DEF Init, GateInv, RowsMatchHandlers, WaitersAccountedFor, ReleasedAtFloor
<1> QED BY <1>1, GateStep, PTL DEF Spec

\* The anonymity floor: whatever the number of handlers and however they interleave with
\* the rotation ticks, faults and restarts, no MatchResponse is built below the floor or for a
\* peer outside the record it was built from.
THEOREM FloorHolds == Spec => []ReleasedAtFloor
<1>1. GateInv => ReleasedAtFloor
  BY DEF GateInv
<1> QED BY <1>1, GateInvariant, PTL

\* The wait list never loses a waiter it still owes an answer and never keeps two rows for one
\* (region, cohort, peer).
THEOREM WaitersSafe == Spec => []WaitersAccountedFor
<1>1. GateInv => WaitersAccountedFor
  BY DEF GateInv
<1> QED BY <1>1, GateInvariant, PTL

-----------------------------------------------------------------------------
(* Regions                                                                  *)

\* Every member of a record kept for cohort c asked for c under the record's region or none.
Pure(record, c) ==
    \A p \in record.members :
        \E r \in Requests :
            /\ req[r] # NoRequest
            /\ req[r].peer = p /\ req[r].cohort = c
            /\ req[r].region \in {record.region, NoRegion}

\* Purity has to be carried by the copies the handlers hold, since any of them may be
\* written back over the stored record.
RegionInv ==
    /\ TypeOK
    /\ \A r \in Requests : pc[r] = "new" => req[r] = NoRequest
    /\ \A c \in Cohorts : Pure(store[c], c)
    /\ \A r \in Requests : Pure(rec[r], req[r].cohort)

\* Requests are never rewritten, so purity survives any step that keeps the record.
LEMMA PureStays ==
    ASSUME TypeOK, NEW record, NEW c, Pure(record, c),
           \A r \in Requests : req[r] # NoRequest => req'[r] = req[r]
    PROVE  /\ \A p \in record.members :
                 \E r \in Requests :
                     /\ req'[r] # NoRequest
                     /\ req'[r].peer = p /\ req'[r].cohort = c
                     /\ req'[r].region \in {record.region, NoRegion}
BY DEF Pure

\* admit_or_bucket keeps the record pure: the newcomer brings its own request, and a record
\* gets its tag only while all its members are undeclared.
LEMMA JoinedPure ==
    ASSUME RegionInv, NEW r \in Requests, req[r] # NoRequest,
           ~RegionMismatch(rec[r], req[r].region)
    PROVE  Pure(Joined(rec[r], req[r].peer, req[r].region), req[r].cohort)
<1> DEFINE joined == Joined(rec[r], req[r].peer, req[r].region)
<1>1. req[r] \in Request /\ rec[r] \in CohortRecord
  BY DEF RegionInv, TypeOK
<1>2. /\ joined.members = rec[r].members \cup {req[r].peer}
      /\ rec[r].region # NoRegion => joined.region = rec[r].region
      /\ rec[r].region = NoRegion => joined.region = req[r].region
  BY <1>1 DEF Joined, CohortRecord
<1>3. joined.region = req[r].region
  BY <1>2 DEF RegionMismatch
<1> HIDE DEF joined
<1>4. \A p \in rec[r].members : \E h \in Requests :
         /\ req[h] # NoRequest /\ req[h].peer = p /\ req[h].cohort = req[r].cohort
         /\ req[h].region \in {joined.region, NoRegion}
  BY <1>2 DEF RegionInv, Pure
<1>5. Pure(joined, req[r].cohort)
  BY <1>2, <1>3, <1>4 DEF Pure
<1> QED BY <1>5 DEF joined

LEMMA RegionStep == RegionInv /\ [Next]_vars => RegionInv'
<1> SUFFICES ASSUME RegionInv, [Next]_vars PROVE RegionInv'
  OBVIOUS
<1>0. TypeOK'
  BY TypeStep DEF RegionInv
<1>01. Pure(Absent, NoRequest.cohort) /\ \A c : Pure(Absent, c)
  BY AbsentType DEF Pure
<1>1. ASSUME NEW r \in Requests, Load(r) PROVE RegionInv'
  <2>1. PICK p \in Peers, c \in Cohorts, reg \in Regions :
           /\ req' = [req EXCEPT ![r] = [peer |-> p, cohort |-> c, region |-> reg]]
           /\ \/ rec' = [rec EXCEPT ![r] = store[c]]
              \/ rec' = [rec EXCEPT ![r] = Fresh]
    BY <1>1 DEF Load
  <2>2. pc[r] = "new" /\ req[r] = NoRequest /\ pc' = [pc EXCEPT ![r] = "loaded"] /\ store' = store
    BY <1>1 DEF Load, RegionInv
  <2>3. \A h \in Requests : req[h] # NoRequest => req'[h] = req[h]
    BY <2>1, <2>2 DEF RegionInv, TypeOK
  <2>4. Fresh.members = {}
    BY DEF Fresh, Absent
  <2>5. \A d \in Cohorts : Pure(store[d], d)'
    BY <2>2, <2>3 DEF RegionInv, Pure
  <2>6. \A h \in Requests : Pure(rec[h], req[h].cohort)'
    <3> SUFFICES ASSUME NEW h \in Requests PROVE Pure(rec[h], req[h].cohort)'
      OBVIOUS
    <3>1. CASE h # r
      <4>1. rec'[h] = rec[h] /\ req'[h] = req[h]
        BY <2>1, <3>1 DEF RegionInv, TypeOK
      <4>2. Pure(rec[h], req[h].cohort)
        BY DEF RegionInv
      <4> QED BY <2>3, <4>1, <4>2 DEF Pure
    <3>2. CASE h = r
      <4>1. req'[r].cohort = c /\ rec'[r] \in {store[c], Fresh}
        BY <2>1 DEF RegionInv, TypeOK
      <4>2. Pure(store[c], c)
        BY DEF RegionInv
      <4> QED BY <2>3, <2>4, <3>2, <4>1, <4>2 DEF Pure
    <3> QED BY <3>1, <3>2
  <2>7. \A h \in Requests : pc'[h] = "new" => req'[h] = NoRequest
    BY <2>1, <2>2 DEF RegionInv, TypeOK
  <2> QED BY <1>0, <2>5, <2>6, <2>7 DEF RegionInv
<1>2. ASSUME NEW r \in Requests, AdmitOrBucket(r) PROVE RegionInv'
  <2> DEFINE joined == Joined(rec[r], req[r].peer, req[r].region)
  <2>1. /\ pc[r] = "loaded" /\ req[r] # NoRequest /\ UNCHANGED <<req, store>>
        /\ \E end \in {"mismatch", "admitted", "bucketed"} : pc' = [pc EXCEPT ![r] = end]
    BY <1>2 DEF AdmitOrBucket, RegionInv, TypeOK
  <2>2. \/ rec' = [rec EXCEPT ![r] = Absent]
        \/ ~RegionMismatch(rec[r], req[r].region) /\ rec' = [rec EXCEPT ![r] = joined]
    BY <1>2 DEF AdmitOrBucket
  <2>3. ~RegionMismatch(rec[r], req[r].region) => Pure(joined, req[r].cohort)
    BY <2>1, JoinedPure
  <2> HIDE DEF joined
  <2>4. \A h \in Requests : Pure(rec'[h], req[h].cohort)
    BY <1>01, <2>2, <2>3 DEF RegionInv, TypeOK
  <2>5. \A h \in Requests : Pure(rec[h], req[h].cohort)'
    BY <2>1, <2>4 DEF Pure
  <2>6. \A c \in Cohorts : Pure(store[c], c)'
    BY <2>1 DEF RegionInv, Pure
  <2> QED BY <1>0, <2>1, <2>5, <2>6 DEF RegionInv, TypeOK
<1>3. ASSUME NEW r \in Requests, Persist(r) PROVE RegionInv'
  <2>1. /\ store' = [store EXCEPT ![req[r].cohort] = rec[r]] /\ UNCHANGED req
        /\ rec' = [rec EXCEPT ![r] = IF pc[r] = "admitted" THEN @ ELSE Absent]
        /\ pc' = [pc EXCEPT ![r] = IF @ = "admitted" THEN "persisted" ELSE "waiting"]
    BY <1>3 DEF Persist
  <2>2. \A c \in Cohorts : Pure(store'[c], c)
    BY <2>1 DEF RegionInv, TypeOK
  <2>3. \A h \in Requests : Pure(rec'[h], req[h].cohort)
    BY <1>01, <2>1 DEF RegionInv, TypeOK
  <2>4. /\ \A c \in Cohorts : Pure(store[c], c)'
        /\ \A h \in Requests : Pure(rec[h], req[h].cohort)'
    BY <2>1, <2>2, <2>3 DEF Pure
  <2> QED BY <1>0, <2>1, <2>4 DEF RegionInv, TypeOK
<1>4. ASSUME /\ UNCHANGED req
             /\ \A c \in Cohorts : store'[c] \in {store[c], Absent}
             /\ \A h \in Requests : rec'[h] \in {rec[h], Absent}
             /\ \A h \in Requests : pc'[h] = "new" => pc[h] = "new"
      PROVE  RegionInv'
  <2>1. /\ \A c \in Cohorts : Pure(store'[c], c)
        /\ \A h \in Requests : Pure(rec'[h], req[h].cohort)
    BY <1>01, <1>4 DEF RegionInv
  <2>2. /\ \A c \in Cohorts : Pure(store[c], c)'
        /\ \A h \in Requests : Pure(rec[h], req[h].cohort)'
    BY <1>4, <2>1 DEF Pure
  <2> QED BY <1>0, <1>4, <2>2 DEF RegionInv
<1>5. ASSUME NEW r \in Requests, MatchDrain(r) \/ Wake(r) \/ RequestFails(r) \/ TimeOut(r)
      PROVE  RegionInv'
  <2>1. /\ UNCHANGED <<req, store>>
        /\ rec' = rec \/ rec' = [rec EXCEPT ![r] = Absent]
        /\ \E end \in Ended : pc' = [pc EXCEPT ![r] = end]
    BY <1>5 DEF MatchDrain, Wake, RequestFails, TimeOut, Ended
  <2> QED BY <1>4, <2>1 DEF RegionInv, TypeOK, Ended
<1>6. CASE TickEvictCohorts
  BY <1>4, <1>6 DEF TickEvictCohorts, handlerVars
<1>7. CASE Crash
  <2>1. /\ UNCHANGED <<req, store>> /\ rec' = [r \in Requests |-> Absent]
        /\ pc' = [r \in Requests |-> IF pc[r] = "new" \/ pc[r] \in Ended THEN pc[r] ELSE "lost"]
    BY <1>7 DEF Crash
  <2> QED BY <1>4, <2>1
<1>8. CASE UNCHANGED <<req, store, rec, pc>>
  BY <1>4, <1>8
<1> QED
  BY <1>1, <1>2, <1>3, <1>5, <1>6, <1>7, <1>8
  DEF Next, Handler, Tick, vars, handlerVars, TickBegin, TickEvictPeers, TickSnapshot,
      TickGet, TickDrain, TickCancel, TickFails, Heartbeat, PassTime

LEMMA RegionInvariant == Spec => []RegionInv
<1>1. Init => RegionInv
  <2> SUFFICES ASSUME Init PROVE RegionInv
    OBVIOUS
  <2>1. TypeOK
    BY AbsentType, IdleType, TimeAssumption, BoundAssumption DEF Init, TypeOK
  <2> QED BY <2>1, AbsentType DEF Init, RegionInv, Pure
<1> QED BY <1>1, RegionStep, PTL DEF Spec

\* No peer counts towards the floor of a cohort tagged with another region than the one it
\* declared, even when handlers overwrite each other's records; the only exception is a peer
\* that declared none.
THEOREM RegionsApart == Spec => []RegionsKeptApart
<1>1. RegionInv => RegionsKeptApart
  BY DEF RegionInv, RegionsKeptApart, Pure
<1> QED BY <1>1, RegionInvariant, PTL

\* When every registrant declares a region, no anonymity set mixes two regions.
THEOREM RegionsPure == ASSUME NoRegion \notin Regions PROVE Spec => []RegionsUnmixed
<1>1. RegionInv => RegionsUnmixed
  BY NoRequestAssumption DEF RegionInv, TypeOK, RegionsUnmixed, Pure, Request
<1> QED BY <1>1, RegionInvariant, PTL

-----------------------------------------------------------------------------
(* Evictions                                                                *)

\* The tick's instant is never ahead of the clock, and a record about to be written has
\* a member: an upsert cannot look like an eviction.
EvictInv ==
    /\ TypeOK
    /\ sched.now <= clock
    /\ \A r \in Requests : pc[r] \in {"bucketed", "admitted"} => rec[r].members # {}

LEMMA EvictStep == EvictInv /\ [Next]_vars => EvictInv'
<1> SUFFICES ASSUME EvictInv, [Next]_vars PROVE EvictInv'
  OBVIOUS
<1>0. TypeOK'
  BY TypeStep DEF EvictInv
<1>01. clock \in Nat /\ sched.now \in Nat /\ Idle.now = 0
  BY TimeAssumption DEF EvictInv, TypeOK, SchedState, Idle
<1>1. sched'.now <= clock'
  <2>0. CASE TickBegin
    BY <1>01, <2>0 DEF TickBegin, EvictInv, TypeOK, SchedState
  <2>1. CASE TickEvictPeers
    BY <1>01, <2>1 DEF TickEvictPeers, EvictInv, TypeOK, SchedState
  <2>2. CASE TickEvictCohorts
    BY <1>01, <2>2 DEF TickEvictCohorts, EvictInv, TypeOK, SchedState
  <2>3. CASE TickSnapshot
    BY <1>01, <2>3 DEF TickSnapshot, EvictInv, TypeOK, SchedState
  <2>4. CASE TickGet
    BY <1>01, <2>4 DEF TickGet, EvictInv, TypeOK, SchedState
  <2>5. CASE TickDrain
    BY <1>01, <2>5 DEF TickDrain, EvictInv, TypeOK, SchedState
  <2>6. CASE sched' = Idle /\ clock' = clock
    BY <1>01, <2>6
  <2>7. CASE sched' = sched /\ clock' \in {clock, clock + 1}
    BY <1>01, <2>7 DEF EvictInv
  <2> QED
    BY <2>0, <2>1, <2>2, <2>3, <2>4, <2>5, <2>6, <2>7
    DEF Next, Handler, Tick, vars, handlerVars, Load, AdmitOrBucket, Persist, MatchDrain, Wake,
        RequestFails, TimeOut, TickCancel, TickFails, Heartbeat, PassTime, Crash
<1>2. \A r \in Requests : pc'[r] \in {"bucketed", "admitted"} => rec'[r].members # {}
  <2>1. ASSUME NEW r \in Requests, AdmitOrBucket(r)
        PROVE \A h \in Requests : pc'[h] \in {"bucketed", "admitted"} => rec'[h].members # {}
    <3> DEFINE joined == Joined(rec[r], req[r].peer, req[r].region)
    <3>1. req[r] \in Request /\ rec[r] \in CohortRecord
      BY <2>1 DEF AdmitOrBucket, EvictInv, TypeOK
    <3>2. joined.members # {}
      BY <3>1, JoinedType DEF Request
    <3>3. \/ rec' = [rec EXCEPT ![r] = joined] /\ \E s : pc' = [pc EXCEPT ![r] = s]
          \/ rec' = [rec EXCEPT ![r] = Absent] /\ pc' = [pc EXCEPT ![r] = "mismatch"]
      BY <2>1, SMTT(30) DEF AdmitOrBucket
    <3> HIDE DEF joined
    <3> QED BY <3>2, <3>3 DEF EvictInv, TypeOK
  <2>2. ASSUME NEW r \in Requests,
               Load(r) \/ Persist(r) \/ MatchDrain(r) \/ Wake(r) \/ RequestFails(r) \/ TimeOut(r)
        PROVE \A h \in Requests : pc'[h] \in {"bucketed", "admitted"} => rec'[h].members # {}
    <3>1. rec' = rec \/ \E v : rec' = [rec EXCEPT ![r] = v]
      <4>1. CASE Load(r)
        BY <4>1 DEF Load
      <4>2. CASE Persist(r)
        BY <4>2 DEF Persist
      <4>3. CASE MatchDrain(r) \/ Wake(r) \/ RequestFails(r) \/ TimeOut(r)
        BY <4>3 DEF MatchDrain, Wake, RequestFails, TimeOut
      <4> QED BY <2>2, <4>1, <4>2, <4>3
    <3>2. \E s \in {"loaded", "persisted", "waiting"} \cup Ended : pc' = [pc EXCEPT ![r] = s]
      <4>1. CASE Load(r) \/ MatchDrain(r) \/ Wake(r) \/ RequestFails(r) \/ TimeOut(r)
        BY <4>1 DEF Load, MatchDrain, Wake, RequestFails, TimeOut, Ended
      <4>2. CASE Persist(r)
        <5>1. \/ pc' = [pc EXCEPT ![r] = "persisted"]
              \/ pc' = [pc EXCEPT ![r] = "waiting"]
          BY <4>2 DEF Persist, EvictInv, TypeOK
        <5> QED BY <5>1
      <4> QED BY <2>2, <4>1, <4>2
    <3>3. \A h \in Requests \ {r} : pc'[h] = pc[h] /\ rec'[h] = rec[h]
      BY <3>1, <3>2 DEF EvictInv, TypeOK
    <3>4. pc'[r] \notin {"bucketed", "admitted"}
      BY <3>2 DEF EvictInv, TypeOK, Ended
    <3> QED BY <3>3, <3>4 DEF EvictInv
  <2>3. CASE Crash
    BY <2>3 DEF Crash, Ended
  <2>4. CASE UNCHANGED <<pc, rec>>
    BY <2>4 DEF EvictInv
  <2> QED
    BY <2>1, <2>2, <2>3, <2>4
    DEF Next, Handler, Tick, vars, handlerVars, TickBegin, TickEvictPeers, TickEvictCohorts,
        TickSnapshot, TickGet, TickDrain, TickCancel, TickFails, Heartbeat, PassTime
<1> QED BY <1>0, <1>1, <1>2 DEF EvictInv

\* Rows leave the registry and the cohort store only when they are overdue at the moment of the
\* eviction: the transaction looks at the rows as they are by then, so a heartbeat that committed
\* after the tick had read its instant, however long the transaction waited, keeps its peer.
THEOREM EvictionsJustified == Spec => EvictionsOverdue
<1> DEFINE Step == /\ \A p \in Peers : seen[p] # Never /\ seen'[p] = Never => seen[p] < clock - Slo
                   /\ \A c \in Cohorts : store[c] # Absent /\ store'[c] = Absent =>
                                          store[c].deadline < clock
<1>1. Init => EvictInv
  <2> SUFFICES ASSUME Init PROVE EvictInv
    OBVIOUS
  <2>1. TypeOK
    BY AbsentType, IdleType, TimeAssumption, BoundAssumption DEF Init, TypeOK
  <2> QED BY <2>1 DEF Init, EvictInv, Idle
<1>2. EvictInv /\ [Next]_vars => [Step]_vars
  <2> SUFFICES ASSUME EvictInv, Next PROVE Step
    BY DEF vars
  <2>1. CASE TickEvictPeers
    <3> SUFFICES ASSUME NEW p \in Peers, seen[p] # Never, seen'[p] = Never
                 PROVE  seen[p] < clock - Slo
      BY <2>1 DEF TickEvictPeers
    <3>1. seen[p] < sched.now - Slo
      BY <2>1 DEF TickEvictPeers, Stale
    <3>2. seen[p] \in Int /\ sched.now \in Nat /\ clock \in Nat /\ sched.now <= clock
      BY TimeAssumption DEF EvictInv, TypeOK, SchedState, Never
    <3> QED BY <3>1, <3>2, TimeAssumption
  <2>2. CASE TickEvictCohorts
    <3> SUFFICES ASSUME NEW c \in Cohorts, store[c] # Absent, store'[c] = Absent
                 PROVE  store[c].deadline < clock
      BY <2>2 DEF TickEvictCohorts
    <3>1. store[c].deadline < sched.now
      BY <2>2 DEF TickEvictCohorts, Expired
    <3>2. store[c].deadline \in Nat /\ sched.now \in Nat /\ clock \in Nat /\ sched.now <= clock
      BY TimeAssumption DEF EvictInv, TypeOK, CohortRecord, SchedState
    <3> QED BY <3>1, <3>2
  <2>3. ASSUME NEW r \in Requests, Persist(r) PROVE Step
    <3>1. rec[r].members # {} /\ store' = [store EXCEPT ![req[r].cohort] = rec[r]] /\ seen' = seen
      BY <2>3 DEF Persist, EvictInv
    <3>2. \A c \in Cohorts : store'[c] \in {store[c], rec[r]}
      BY <3>1 DEF EvictInv, TypeOK
    <3>3. rec[r] # Absent
      BY <3>1, AbsentType
    <3> QED BY <3>1, <3>2, <3>3
  <2>4. ASSUME NEW p \in Peers, Heartbeat(p) PROVE Step
    BY <2>4 DEF Heartbeat, EvictInv, TypeOK, Never
  <2>5. CASE UNCHANGED <<seen, store>>
    BY <2>5
  <2>6. ASSUME NEW r \in Requests,
               Load(r) \/ AdmitOrBucket(r) \/ MatchDrain(r) \/ Wake(r) \/ RequestFails(r)
                 \/ TimeOut(r)
        PROVE  UNCHANGED <<seen, store>>
    BY <2>6 DEF Load, AdmitOrBucket, MatchDrain, Wake, RequestFails, TimeOut
  <2>7. CASE TickBegin \/ TickSnapshot \/ TickGet \/ TickDrain \/ TickCancel \/ TickFails
    BY <2>5, <2>7 DEF TickBegin, TickSnapshot, TickGet, TickDrain, TickCancel, TickFails
  <2>8. CASE PassTime \/ Crash
    BY <2>5, <2>8 DEF PassTime, Crash
  <2> QED
    BY <2>1, <2>2, <2>3, <2>4, <2>5, <2>6, <2>7, <2>8, BoundAssumption DEF Next, Handler, Tick
<1> QED BY <1>1, <1>2, EvictStep, PTL DEF Spec, EvictionsOverdue

-----------------------------------------------------------------------------
(* Crossing the floor                                                       *)

\* What a handler that has passed the gate holds: a record under its own region, found below the
\* floor if the peer was bucketed and at the floor if it was admitted.
Carries(r) ==
    /\ pc[r] \in {"bucketed", "admitted", "persisted"} => rec[r].region = req[r].region
    /\ pc[r] = "bucketed" => ~MeetsFloor(rec[r])
    /\ pc[r] \in {"admitted", "persisted"} => MeetsFloor(rec[r])

\* Handler h has written its record and is about to drain the bucket that row is in.
Saves(h, row) ==
    /\ pc[h] = "persisted"
    /\ req[h].cohort = row.cohort /\ req[h].region = row.region
    /\ row.peer \in rec[h].members

\* Whoever waits although the stored record would release it is about to be released.  The drain
\* uses the handler's own record, so that record has to count the peer as the stored one does.
CrossingInv ==
    /\ GateInv
    /\ \A r \in Requests : Carries(r)
    /\ \A row \in pending : pc[row.waiter] = "waiting" /\ Releasable(row) =>
          \E h \in Requests : Saves(h, row)

\* Steps in which no row gets worse off: rows may leave the wait list and records the store,
\* handlers may stop, but none that has written its record.
LEMMA QuietKeepsCrossing ==
    ASSUME CrossingInv, GateInv', UNCHANGED req, pending' \subseteq pending,
           \A c \in Cohorts : store'[c] \in {store[c], Absent},
           \A r \in Requests : \/ pc'[r] = pc[r] /\ rec'[r] = rec[r]
                               \/ pc[r] # "persisted" /\ pc'[r] \in {"loaded"} \cup Ended
    PROVE  CrossingInv'
<1>1. \A r \in Requests : Carries(r)'
  BY DEF CrossingInv, Carries, MeetsFloor, Ended
<1>2. ASSUME NEW row \in pending', pc'[row.waiter] = "waiting", Releasable(row)'
      PROVE  \E h \in Requests : Saves(h, row)'
  <2>1. row \in pending /\ row.cohort \in Cohorts /\ row.waiter \in Requests
        /\ row.region \in Regions
    BY <1>2 DEF CrossingInv, GateInv, TypeOK, PendingAdmission
  <2>2. store'[row.cohort] = store[row.cohort]
    BY <1>2, <2>1, AbsentType DEF Releasable
  <2>3. Releasable(row) /\ pc[row.waiter] = "waiting"
    BY <1>2, <2>1, <2>2 DEF Releasable, MeetsFloor, Ended
  <2>4. PICK h \in Requests : Saves(h, row)
    BY <2>1, <2>3 DEF CrossingInv
  <2> QED BY <2>4 DEF Saves
<1> QED BY <1>1, <1>2 DEF CrossingInv

\* A row enters the wait list for a handler that does not wait yet.
LEMMA AdmitKeepsCrossing ==
    ASSUME CrossingInv, GateInv', NEW r \in Requests, AdmitOrBucket(r)
    PROVE  CrossingInv'
<1> DEFINE q == req[r]
           joined == Joined(rec[r], q.peer, q.region)
           entry == [region |-> q.region, cohort |-> q.cohort, peer |-> q.peer, waiter |-> r]
<1>1. /\ pc[r] = "loaded" /\ UNCHANGED <<req, store>> /\ q \in Request /\ rec[r] \in CohortRecord
      /\ entry.waiter = r
  BY DEF AdmitOrBucket, CrossingInv, GateInv, TypeOK
<1>2. ~RegionMismatch(rec[r], q.region) => joined.region = q.region
  BY <1>1 DEF RegionMismatch, Joined, CohortRecord
<1> HIDE DEF joined, entry
<1>3. /\ pending' \subseteq pending \cup {entry}
      /\ \/ pc' = [pc EXCEPT ![r] = "mismatch"] /\ rec' = [rec EXCEPT ![r] = Absent]
         \/ /\ pc' = [pc EXCEPT ![r] = "admitted"] /\ rec' = [rec EXCEPT ![r] = joined]
            /\ MeetsFloor(joined) /\ joined.region = q.region
         \/ /\ pc' = [pc EXCEPT ![r] = "bucketed"] /\ rec' = [rec EXCEPT ![r] = joined]
            /\ ~MeetsFloor(joined) /\ joined.region = q.region
  BY <1>2 DEF AdmitOrBucket, joined, entry
<1>4. /\ \A h \in Requests \ {r} : pc'[h] = pc[h] /\ rec'[h] = rec[h]
      /\ pc'[r] \in {"mismatch", "admitted", "bucketed"}
  BY <1>3 DEF CrossingInv, GateInv, TypeOK
<1>5. Carries(r)'
  BY <1>1, <1>3 DEF CrossingInv, GateInv, TypeOK, Carries, MeetsFloor
<1>6. \A h \in Requests : Carries(h)'
  BY <1>1, <1>4, <1>5 DEF CrossingInv, Carries, MeetsFloor
<1>7. ASSUME NEW row \in pending', pc'[row.waiter] = "waiting", Releasable(row)'
      PROVE  \E h \in Requests : Saves(h, row)'
  <2>1. row.waiter # r /\ row \in pending /\ row.waiter \in Requests
    BY <1>1, <1>3, <1>4, <1>7 DEF CrossingInv, GateInv, TypeOK, PendingAdmission
  <2>2. pc[row.waiter] = "waiting" /\ Releasable(row)
    BY <1>1, <1>4, <1>7, <2>1 DEF Releasable, MeetsFloor
  <2>3. PICK h \in Requests : Saves(h, row)
    BY <2>1, <2>2 DEF CrossingInv
  <2>4. h # r
    BY <1>1, <2>3 DEF Saves
  <2> QED BY <1>1, <1>4, <2>3, <2>4 DEF Saves
<1> QED BY <1>6, <1>7 DEF CrossingInv

\* A write below the floor makes nobody releasable; a write at the floor is the writer's to drain.
LEMMA PersistKeepsCrossing ==
    ASSUME CrossingInv, GateInv', NEW r \in Requests, Persist(r)
    PROVE  CrossingInv'
<1>1. /\ pc[r] \in {"bucketed", "admitted"} /\ UNCHANGED <<pending, req>>
      /\ store' = [store EXCEPT ![req[r].cohort] = rec[r]]
      /\ pc' = [pc EXCEPT ![r] = IF @ = "admitted" THEN "persisted" ELSE "waiting"]
      /\ rec' = [rec EXCEPT ![r] = IF pc[r] = "admitted" THEN @ ELSE Absent]
  BY DEF Persist
<1>2. /\ req[r].cohort \in Cohorts /\ store'[req[r].cohort] = rec[r]
      /\ \A c \in Cohorts : c # req[r].cohort => store'[c] = store[c]
      /\ \A h \in Requests \ {r} : pc'[h] = pc[h] /\ rec'[h] = rec[h]
      /\ pc[r] = "admitted" => pc'[r] = "persisted" /\ rec'[r] = rec[r]
      /\ pc[r] = "bucketed" => pc'[r] = "waiting"
  BY <1>1 DEF CrossingInv, GateInv, TypeOK, Request
<1>3. Carries(r)
  BY DEF CrossingInv
<1>4. \A h \in Requests : Carries(h)'
  BY <1>1, <1>2, <1>3 DEF CrossingInv, Carries, MeetsFloor
<1>5. ASSUME NEW row \in pending', pc'[row.waiter] = "waiting", Releasable(row)'
      PROVE  \E h \in Requests : Saves(h, row)'
  <2>1. row \in pending /\ row.cohort \in Cohorts /\ row.waiter \in Requests
    BY <1>1 DEF CrossingInv, GateInv, TypeOK, PendingAdmission
  <2>2. CASE row.cohort = req[r].cohort
    <3>1. rec[r].region = row.region /\ row.peer \in rec[r].members /\ MeetsFloor(rec[r])
      BY <1>2, <1>5, <2>2 DEF Releasable, MeetsFloor
    <3>2. pc[r] = "admitted"
      BY <1>1, <1>3, <3>1 DEF Carries
    <3> QED BY <1>1, <1>2, <1>3, <2>2, <3>1, <3>2 DEF Carries, Saves
  <2>3. CASE row.cohort # req[r].cohort
    <3>1. Releasable(row)
      BY <1>2, <1>5, <2>1, <2>3 DEF Releasable, MeetsFloor
    <3>2. row.waiter # r
      BY <2>1, <2>3 DEF CrossingInv, GateInv, RowsMatchHandlers
    <3>3. PICK h \in Requests : Saves(h, row)
      BY <1>2, <1>5, <2>1, <3>1, <3>2 DEF CrossingInv
    <3> QED BY <1>1, <1>2, <3>3 DEF Saves
  <2> QED BY <2>2, <2>3
<1> QED BY <1>4, <1>5 DEF CrossingInv

\* The drain releases every row it was to save.
LEMMA DrainKeepsCrossing ==
    ASSUME CrossingInv, GateInv', NEW r \in Requests, MatchDrain(r)
    PROVE  CrossingInv'
<1>1. /\ pc[r] = "persisted" /\ UNCHANGED <<req, store>>
      /\ DrainReady(req[r].region, req[r].cohort, rec[r], FALSE)
      /\ pc' = [pc EXCEPT ![r] = "answered"] /\ rec' = [rec EXCEPT ![r] = Absent]
  BY DEF MatchDrain
<1>2. /\ pc'[r] = "answered"
      /\ \A h \in Requests \ {r} : pc'[h] = pc[h] /\ rec'[h] = rec[h]
  BY <1>1 DEF CrossingInv, GateInv, TypeOK
<1>3. pending' = pending \ Ready(req[r].region, req[r].cohort, rec[r])
  BY <1>1 DEF DrainReady, CrossingInv, Carries
<1>4. \A h \in Requests : Carries(h)'
  BY <1>1, <1>2 DEF CrossingInv, Carries, MeetsFloor
<1>5. ASSUME NEW row \in pending', pc'[row.waiter] = "waiting", Releasable(row)'
      PROVE  \E h \in Requests : Saves(h, row)'
  <2>1. row \in pending /\ row.waiter \in Requests
    BY <1>3 DEF CrossingInv, GateInv, TypeOK, PendingAdmission
  <2>2. pc[row.waiter] = "waiting" /\ Releasable(row)
    BY <1>1, <1>2, <1>5, <2>1 DEF Releasable, MeetsFloor
  <2>3. PICK h \in Requests : Saves(h, row)
    BY <2>1, <2>2 DEF CrossingInv
  <2>4. ~Saves(r, row)
    BY <1>3, <2>1 DEF Saves, Ready, Bucket
  <2> QED BY <1>1, <1>2, <2>3, <2>4 DEF Saves
<1> QED BY <1>4, <1>5 DEF CrossingInv

LEMMA CrossingStep == CrossingInv /\ [Next]_vars => CrossingInv'
<1> SUFFICES ASSUME CrossingInv, [Next]_vars PROVE CrossingInv'
  OBVIOUS
<1>0. GateInv'
  BY GateStep DEF CrossingInv
<1>1. ASSUME NEW r \in Requests, Load(r) PROVE CrossingInv'
  <2>1. /\ pc[r] = "new" /\ pc' = [pc EXCEPT ![r] = "loaded"] /\ UNCHANGED <<pending, store>>
        /\ \E q : req' = [req EXCEPT ![r] = q]
        /\ \E v : rec' = [rec EXCEPT ![r] = v]
    BY <1>1 DEF Load
  <2>2. \A h \in Requests \ {r} : pc'[h] = pc[h] /\ rec'[h] = rec[h] /\ req'[h] = req[h]
    BY <2>1 DEF CrossingInv, GateInv, TypeOK
  <2>3. pc'[r] = "loaded"
    BY <2>1 DEF CrossingInv, GateInv, TypeOK
  <2>4. \A h \in Requests : Carries(h)'
    BY <2>2, <2>3 DEF CrossingInv, Carries, MeetsFloor
  <2>5. ASSUME NEW row \in pending', pc'[row.waiter] = "waiting", Releasable(row)'
        PROVE  \E h \in Requests : Saves(h, row)'
    <3>1. row \in pending /\ row.waiter \in Requests
      BY <2>1 DEF CrossingInv, GateInv, TypeOK, PendingAdmission
    <3>2. pc[row.waiter] = "waiting" /\ Releasable(row)
      BY <2>1, <2>2, <2>3, <2>5, <3>1 DEF Releasable, MeetsFloor
    <3>3. PICK h \in Requests : Saves(h, row)
      BY <3>1, <3>2 DEF CrossingInv
    <3> QED BY <2>1, <2>2, <3>3 DEF Saves
  <2> QED BY <1>0, <2>4, <2>5 DEF CrossingInv
<1>2. ASSUME NEW r \in Requests, AdmitOrBucket(r) PROVE CrossingInv'
  BY <1>0, <1>2, AdmitKeepsCrossing
<1>3. ASSUME NEW r \in Requests, Persist(r) PROVE CrossingInv'
  BY <1>0, <1>3, PersistKeepsCrossing
<1>4. ASSUME NEW r \in Requests, MatchDrain(r) PROVE CrossingInv'
  BY <1>0, <1>4, DrainKeepsCrossing
<1>5. ASSUME NEW r \in Requests, Wake(r) \/ RequestFails(r) \/ TimeOut(r) PROVE CrossingInv'
  <2>1. /\ pc[r] # "persisted" /\ UNCHANGED <<req, pending, store>>
        /\ \E end \in Ended : pc' = [pc EXCEPT ![r] = end]
        /\ rec' = rec \/ rec' = [rec EXCEPT ![r] = Absent]
    BY <1>5 DEF Wake, RequestFails, TimeOut, Ended
  <2>2. /\ pc'[r] \in Ended
        /\ \A h \in Requests \ {r} : pc'[h] = pc[h] /\ rec'[h] = rec[h]
    BY <2>1 DEF CrossingInv, GateInv, TypeOK
  <2> QED BY <1>0, <2>1, <2>2, QuietKeepsCrossing
<1>6. CASE TickEvictCohorts
  BY <1>0, <1>6, QuietKeepsCrossing DEF TickEvictCohorts, handlerVars
<1>7. CASE TickDrain
  <2>1. UNCHANGED <<pc, req, rec, store>> /\ pending' \subseteq pending
    BY <1>7 DEF TickDrain, DrainReady
  <2> QED BY <1>0, <2>1, QuietKeepsCrossing
<1>8. CASE TickCancel
  <2>1. UNCHANGED <<pc, req, rec, store>> /\ pending' \subseteq pending
    BY <1>8 DEF TickCancel
  <2> QED BY <1>0, <2>1, QuietKeepsCrossing
<1>9. CASE UNCHANGED <<pc, req, rec, store, pending>>
  BY <1>0, <1>9, QuietKeepsCrossing
<1>10. CASE Crash
  <2>1. /\ pending' = {}
        /\ pc' = [r \in Requests |-> IF pc[r] = "new" \/ pc[r] \in Ended THEN pc[r] ELSE "lost"]
    BY <1>10 DEF Crash
  <2>2. \A r \in Requests : Carries(r)'
    BY <2>1 DEF Carries, Ended
  <2> QED BY <1>0, <2>1, <2>2 DEF CrossingInv
<1> QED
  BY <1>1, <1>2, <1>3, <1>4, <1>5, <1>6, <1>7, <1>8, <1>9, <1>10
  DEF Next, Handler, Tick, vars, handlerVars, TickBegin, TickEvictPeers, TickSnapshot, TickGet,
      TickFails, Heartbeat, PassTime

\* An admission that crosses the floor leaves nobody behind whom the stored record counts: however
\* many handlers overlap and overwrite one another's records, and whatever ticks, timeouts, failing
\* transactions and restarts come in between, a handler that waits although its cohort would
\* release it waits for a drain that is about to come.
THEOREM CrossingReleasesAll == Spec => []NobodyLeftBehind
<1>1. Init => CrossingInv
  <2> SUFFICES ASSUME Init PROVE CrossingInv
    OBVIOUS
  <2>1. TypeOK
    BY AbsentType, IdleType, TimeAssumption, BoundAssumption DEF Init, TypeOK
  <2>2. GateInv
    BY <2>1 DEF Init, GateInv, RowsMatchHandlers, WaitersAccountedFor, ReleasedAtFloor
  <2> QED BY <2>2 DEF Init, CrossingInv, Carries
<1>2. CrossingInv => NobodyLeftBehind
  BY DEF CrossingInv, NobodyLeftBehind, Saves
<1> QED BY <1>1, <1>2, CrossingStep, PTL DEF Spec
=============================================================================
