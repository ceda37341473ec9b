---------------------------- MODULE FrontProofs ----------------------------
(* Proofs about Front, for any handlers, callers, quotas and databases: a   *)
(* denial is earned, and what was answered is in the audit log.             *)
EXTENDS Front, TLAPS

Spent == [Routes -> [Who -> Int]]
Happened == [requests : Nat, minutes : Nat, crashes : Nat, passed : Spent, unearned : BOOLEAN,
             told : SUBSET [id : Nat, kind : Kinds, failed : BOOLEAN]]

CallTypes == ms \in Nat /\ call \in [Handlers -> Calls] /\ ledger \in Happened

\* What a key has used of a route and what its limiter still lets through are its quota.
QuotaInv ==
    /\ CallTypes /\ cells \in Spent
    /\ \A r \in Routes, k \in Who : cells[r][k] + ledger.passed[r][k] = FullCells[r][k]
    /\ DenialsEarned

\* Two appends under way have different keys, and no row has either.
At(h, at) == call[h].at = at
AuditInv ==
    /\ CallTypes
    /\ \A h \in Handlers : At(h, "commit") => call[h].key \notin DOMAIN table
    /\ \A g, h \in Handlers : (At(g, "commit") /\ At(h, "commit") /\ g # h) => call[g].key # call[h].key
    /\ AnswersAudited

RequestStep(h) == Arrive(h) \/ CheckIp(h) \/ CheckPeer(h) \/ CrossCheck(h) \/ Serve(h)
AuditStep(h) == TakeKey(h) \/ Commit(h) \/ AppendFails(h)
ProcessStep == Reload \/ BringUp \/ Crash \/ Millisecond \/ Minute

LEMMA NextSteps ==
  ASSUME [FrontNext]_frontVars
  PROVE \/ \E h \in Handlers : RequestStep(h) \/ AuditStep(h)
        \/ ProcessStep
        \/ UNCHANGED frontVars
  BY DEF FrontNext, RequestStep, AuditStep, ProcessStep

-----------------------------------------------------------------------------
(* Types                                                                   *)

LEMMA FullCellsType == FullCells \in Spent /\ Unspent \in Spent
  BY FrontQuotas DEF FullCells, Unspent, Spent, Who

LEMMA WhereIs ==
  ASSUME CallTypes, NEW h \in Handlers
  PROVE /\ call[h] \in Calls
        /\ call[h].at \in {"ip", "peer", "handle"} => call[h] \in Asking
        /\ call[h].at = "append" => call[h] \in Waiting
        /\ call[h].at = "commit" => call[h] \in Committing
<1>1. call[h] \in Calls
  BY DEF CallTypes
<1>2. Free.at = "free"
  BY DEF Free
<1>3. QED
  BY <1>1, <1>2 DEF Calls, Asking, Waiting, Committing

-----------------------------------------------------------------------------
(* The limiters                                                            *)

\* A request is turned away when its key has used up the quota.
LEMMA CheckKeyMoves ==
  ASSUME QuotaInv, NEW h \in Handlers, At(h, "ip") \/ At(h, "peer"), NEW k \in Who,
         NEW quota, quota = FullCells[call[h].route][k],
         NEW next \in {"peer", "handle"}, CheckKey(h, k, quota, next), ms' = ms
  PROVE QuotaInv'
<1> DEFINE r == call[h].route
<1>0. CallTypes /\ cells \in Spent /\ call[h] \in Asking /\ ledger \in Happened
  BY WhereIs DEF QuotaInv, At, CallTypes
<1>1. r \in Routes /\ Cell(r, k)[1] = r /\ Cell(r, k)[2] = k
  BY <1>0 DEF Asking, Cell
<1>2. /\ cells[r][k] \in Int /\ ledger.passed \in Spent /\ ledger.passed[r][k] \in Int
      /\ cells[r][k] + ledger.passed[r][k] = quota /\ ledger.unearned = FALSE
  BY <1>0, <1>1 DEF QuotaInv, DenialsEarned, Spent, Happened
<1>3. CASE cells[r][k] = 0
  <2>1. ~(ledger.passed[r][k] < quota)
    BY <1>2, <1>3
  <2>2. call' = [call EXCEPT ![h] = Free] /\ cells' = cells
    BY <1>1, <1>3 DEF CheckKey, Answers
  <2>3. ledger' = [ledger EXCEPT !.unearned = @ \/ ledger.passed[r][k] < quota]
    BY <1>1, <1>3 DEF CheckKey
  <2>4. ledger' = ledger
    BY <1>0, <1>2, <2>1, <2>3 DEF Happened
  <2>5. CallTypes'
    BY <1>0, <2>2, <2>4 DEF CallTypes, Calls
  <2>6. QED
    BY <2>2, <2>4, <2>5 DEF QuotaInv, DenialsEarned
<1>4. CASE cells[r][k] # 0
  <2>1. /\ call' = [call EXCEPT ![h].at = next] /\ cells' = [cells EXCEPT ![r][k] = @ - 1]
        /\ ledger' = [ledger EXCEPT !.passed[r][k] = @ + 1]
    BY <1>1, <1>4 DEF CheckKey, Goes
  <2>2. [call[h] EXCEPT !.at = next] \in Asking
    BY <1>0 DEF Asking
  <2>3. call' \in [Handlers -> Calls]
    BY <1>0, <2>1, <2>2 DEF CallTypes, Calls
  <2>4. cells' \in Spent
    BY <1>0, <1>1, <1>2, <2>1 DEF Spent
  <2> DEFINE passed == [ledger.passed EXCEPT ![r][k] = @ + 1]
  <2>5. passed \in Spent
    BY <1>1, <1>2 DEF Spent
  <2>6. ledger' \in Happened /\ ledger'.passed = passed /\ ledger'.unearned = ledger.unearned
    BY <1>0, <2>1, <2>5 DEF Happened
  <2>7. ASSUME NEW q \in Routes, NEW w \in Who
        PROVE cells'[q][w] + passed[q][w] = cells[q][w] + ledger.passed[q][w]
    <3>1. cells[q][w] \in Int /\ ledger.passed[q][w] \in Int
      BY <1>0, <1>2 DEF Spent
    <3>2. CASE q = r /\ w = k
      <4>1. cells'[q][w] = cells[q][w] - 1 /\ passed[q][w] = ledger.passed[q][w] + 1
        BY <1>0, <1>1, <1>2, <2>1, <3>2 DEF Spent
      <4>2. QED
        BY <3>1, <4>1
    <3>3. CASE ~(q = r /\ w = k)
      <4>1. cells'[q][w] = cells[q][w] /\ passed[q][w] = ledger.passed[q][w]
        BY <1>0, <1>1, <1>2, <2>1, <3>3 DEF Spent
      <4>2. QED
        BY <4>1
    <3>4. QED
      BY <3>2, <3>3
  <2> HIDE DEF passed
  <2>8. QED
    BY <1>0, <1>2, <2>3, <2>4, <2>6, <2>7 DEF QuotaInv, CallTypes, DenialsEarned
<1>5. QED
  BY <1>3, <1>4

LEMMA RequestMoves ==
  ASSUME QuotaInv, NEW h \in Handlers, RequestStep(h)
  PROVE QuotaInv'
<1>0. CallTypes /\ ms \in Nat /\ ledger \in Happened /\ call \in [Handlers -> Calls]
  BY DEF QuotaInv, CallTypes
<1>1. ASSUME NEW x \in Calls, call' = [call EXCEPT ![h] = x], UNCHANGED <<ms, cells, ledger>>
      PROVE QuotaInv'
  BY <1>0, <1>1 DEF QuotaInv, CallTypes, DenialsEarned
<1>2. CASE Arrive(h)
  <2>1. /\ ledger' \in Happened /\ ledger'.passed = ledger.passed /\ ledger'.unearned = ledger.unearned
    BY <1>0, <1>2 DEF Arrive, Happened
  <2>2. call' \in [Handlers -> Calls]
    <3>1. CASE call' = call
      BY <1>0, <3>1
    <3>2. CASE call' # call
      <4>1. PICK route \in Routes, p \in Peers, i \in Ips, region \in Regions \cup {<< >>} :
              call' = [call EXCEPT ![h] = [at |-> "ip", id |-> ledger.requests, route |-> route,
                                           peer |-> p, ip |-> i, region |-> region]]
        BY <1>2, <3>2 DEF Arrive
      <4>2. ledger.requests \in Nat
        BY <1>0 DEF Happened
      <4>3. [at |-> "ip", id |-> ledger.requests, route |-> route,
             peer |-> p, ip |-> i, region |-> region] \in Asking
        BY <4>2 DEF Asking
      <4>4. QED
        BY <1>0, <4>1, <4>3 DEF Calls
    <3>3. QED
      BY <3>1, <3>2
  <2>3. QED
    BY <1>0, <1>2, <2>1, <2>2 DEF Arrive, QuotaInv, CallTypes, DenialsEarned
<1>3. CASE CheckIp(h)
  <2>1. At(h, "ip") /\ call[h] \in Asking /\ ms' = ms
    BY <1>0, <1>3, WhereIs DEF CheckIp, At
  <2>2. call[h].ip \in Who /\ IpQuota[call[h].route] = FullCells[call[h].route][call[h].ip]
    BY <2>1 DEF Asking, Who, FullCells
  <2>3. QED
    BY <1>3, <2>1, <2>2, CheckKeyMoves DEF CheckIp
<1>4. CASE CheckPeer(h)
  <2>1. At(h, "peer") /\ call[h] \in Asking /\ ms' = ms
    BY <1>0, <1>4, WhereIs DEF CheckPeer, At
  <2>2. CASE call[h].route \in DOMAIN PeerQuota
    <3>1. call[h].peer \in Who /\ PeerQuota[call[h].route] = FullCells[call[h].route][call[h].peer]
      BY <2>1, <2>2, FrontQuotas DEF Asking, Who, FullCells
    <3>2. QED
      BY <1>4, <2>1, <2>2, <3>1, CheckKeyMoves DEF CheckPeer
  <2>3. CASE call[h].route \notin DOMAIN PeerQuota
    <3>1. [call[h] EXCEPT !.at = "handle"] \in Calls
      BY <2>1 DEF Asking, Calls
    <3>2. QED
      BY <1>1, <1>4, <2>3, <3>1 DEF CheckPeer, Goes
  <2>4. QED
    BY <2>2, <2>3
<1>5. ASSUME NEW kind \in Kinds, At(h, "handle") PROVE Free \in Calls /\ Entry(call[h], kind) \in Calls
  BY <1>0, <1>5, WhereIs DEF Entry, At, Asking, Waiting, Calls
<1>6. CASE CrossCheck(h)
  <2>1. "RegionMismatch" \in Kinds /\ At(h, "handle") /\ UNCHANGED <<ms, cells, ledger>>
    BY <1>6 DEF CrossCheck, Kinds, At
  <2>2. QED
    BY <1>1, <1>5, <1>6, <2>1 DEF CrossCheck, Answers
<1>7. CASE Serve(h)
  <2>1. Recorded \subseteq Kinds /\ At(h, "handle") /\ UNCHANGED <<ms, cells, ledger>>
    BY <1>7 DEF Serve, Kinds, At
  <2>2. Free \in Calls
    BY DEF Calls
  <2>3. QED
    BY <1>1, <1>5, <1>7, <2>1, <2>2 DEF Serve, Answers
<1>8. QED
  BY <1>2, <1>3, <1>4, <1>6, <1>7 DEF RequestStep

\* The audit log and the surroundings: only a crash and a new minute touch the limiters, and both
\* fill them.
LEMMA OtherMoves ==
  ASSUME QuotaInv, ProcessStep \/ \E h \in Handlers : AuditStep(h)
  PROVE QuotaInv'
<1>0. CallTypes /\ ms \in Nat /\ ledger \in Happened /\ call \in [Handlers -> Calls] /\ Free \in Calls
  BY DEF QuotaInv, CallTypes, Calls
<1>1. ASSUME NEW h \in Handlers, TakeKey(h) PROVE QuotaInv'
  <2>1. call[h] \in Waiting
    BY <1>0, <1>1, WhereIs DEF TakeKey
  <2>2. PICK key \in NewKeys :
          call' = [call EXCEPT ![h] = [at |-> "commit", id |-> @.id, kind |-> @.kind, entry |-> @.entry,
                                       key |-> key]]
    BY <1>1 DEF TakeKey
  <2>3. key \in Nat \X Salts
    BY <1>0 DEF NewKeys
  <2>4. [at |-> "commit", id |-> call[h].id, kind |-> call[h].kind, entry |-> call[h].entry, key |-> key]
          \in Committing
    BY <2>1, <2>3 DEF Waiting, Committing
  <2>5. call' \in [Handlers -> Calls]
    BY <1>0, <2>2, <2>4 DEF Calls
  <2>6. QED
    BY <1>1, <2>5 DEF TakeKey, QuotaInv, CallTypes, DenialsEarned
<1>2. ASSUME NEW h \in Handlers, Commit(h) \/ AppendFails(h) PROVE QuotaInv'
  <2>1. call[h].id \in Nat /\ call[h].kind \in Kinds
    BY <1>0, <1>2, WhereIs DEF Commit, AppendFails, Waiting, Committing
  <2>2. PICK failed \in BOOLEAN : Told(h, failed)
    BY <1>2 DEF Commit, AppendFails
  <2>3. ledger.told \cup {[id |-> call[h].id, kind |-> call[h].kind, failed |-> failed]}
          \in SUBSET [id : Nat, kind : Kinds, failed : BOOLEAN]
    BY <1>0, <2>1 DEF Happened
  <2>4. ledger' \in Happened /\ ledger'.passed = ledger.passed /\ ledger'.unearned = ledger.unearned
    BY <1>0, <2>2, <2>3 DEF Told, Happened
  <2>5. call' \in [Handlers -> Calls] /\ UNCHANGED <<ms, cells>>
    BY <1>0, <1>2 DEF Commit, AppendFails, Answers
  <2>6. QED
    BY <1>0, <2>4, <2>5 DEF QuotaInv, CallTypes, DenialsEarned
<1>3. ASSUME Reload \/ BringUp \/ Millisecond PROVE QuotaInv'
  <2>1. ms' \in Nat /\ UNCHANGED <<cells, call, ledger>>
    BY <1>0, <1>3 DEF Reload, BringUp, Millisecond
  <2>2. QED
    BY <2>1 DEF QuotaInv, CallTypes, DenialsEarned
<1>4. ASSUME Crash \/ Minute PROVE QuotaInv'
  <2>1. /\ ledger' \in Happened /\ ledger'.passed = Unspent /\ ledger'.unearned = ledger.unearned
    <3>1. CASE Crash
      <4>1. ledger.crashes + 1 \in Nat
        BY <1>0 DEF Happened
      <4>2. ledger' = [ledger EXCEPT !.crashes = @ + 1, !.passed = Unspent]
        BY <3>1 DEF Crash
      <4>3. QED
        BY <1>0, <4>1, <4>2, FullCellsType DEF Happened
    <3>2. CASE Minute
      <4>1. ledger.minutes + 1 \in Nat
        BY <1>0 DEF Happened
      <4>2. ledger' = [ledger EXCEPT !.minutes = @ + 1, !.passed = Unspent]
        BY <3>2 DEF Minute
      <4>3. QED
        BY <1>0, <4>1, <4>2, FullCellsType DEF Happened
    <3>3. QED
      BY <1>4, <3>1, <3>2
  <2>2. call' \in [Handlers -> Calls] /\ cells' = FullCells /\ ms' = ms
    BY <1>0, <1>4 DEF Crash, Minute
  <2>3. ASSUME NEW r \in Routes, NEW k \in Who PROVE FullCells[r][k] + Unspent[r][k] = FullCells[r][k]
    <3>1. FullCells[r][k] \in Int /\ Unspent[r][k] = 0
      BY FullCellsType DEF Unspent, Who, Spent
    <3>2. QED
      BY <3>1
  <2>4. QED
    BY <1>0, <2>1, <2>2, <2>3, FullCellsType DEF QuotaInv, CallTypes, DenialsEarned
<1>5. QED
  BY <1>1, <1>2, <1>3, <1>4 DEF ProcessStep, AuditStep

LEMMA QuotaStep == QuotaInv /\ [FrontNext]_frontVars => QuotaInv'
<1>1. ASSUME QuotaInv, UNCHANGED frontVars PROVE QuotaInv'
  BY <1>1 DEF frontVars, QuotaInv, CallTypes, DenialsEarned
<1>2. QED
  BY <1>1, NextSteps, RequestMoves, OtherMoves

LEMMA QuotaInit == FrontInit => QuotaInv
<1> SUFFICES ASSUME FrontInit PROVE QuotaInv
  OBVIOUS
<1>1. ledger \in Happened /\ ledger.passed = Unspent /\ ledger.unearned = FALSE
  BY FullCellsType DEF FrontInit, Happened
<1>2. call \in [Handlers -> Calls] /\ ms \in Nat /\ cells = FullCells
  BY DEF FrontInit, Calls
<1>3. ASSUME NEW r \in Routes, NEW k \in Who PROVE FullCells[r][k] + Unspent[r][k] = FullCells[r][k]
  <2>1. FullCells[r][k] \in Int /\ Unspent[r][k] = 0
    BY FullCellsType DEF Unspent, Who, Spent
  <2>2. QED
    BY <2>1
<1>4. QED
  BY <1>1, <1>2, <1>3, FullCellsType DEF QuotaInv, CallTypes, DenialsEarned

\* rate_limit.rs: nobody is denied for what another caller or another route has used up.
THEOREM DenialsSafe == FrontSpec => []DenialsEarned
<1>1. QuotaInv => DenialsEarned
  BY DEF QuotaInv
<1>2. QED
  BY <1>1, QuotaInit, QuotaStep, PTL DEF FrontSpec

-----------------------------------------------------------------------------
(* The audit log                                                           *)

\* Whatever starts no append and touches no row, and tells nobody but of a failure.
LEMMA AuditFrame ==
  ASSUME AuditInv, CallTypes', table' = table,
         \A t \in ledger'.told : t \in ledger.told \/ t.failed,
         \A h \in Handlers : At(h, "commit")' => call'[h] = call[h]
  PROVE AuditInv'
<1>1. ASSUME NEW h \in Handlers, At(h, "commit")' PROVE At(h, "commit") /\ call'[h].key = call[h].key
  BY <1>1 DEF At
<1>2. AnswersAudited'
  BY DEF AuditInv, AnswersAudited
<1>3. QED
  BY <1>1, <1>2 DEF AuditInv

LEMMA RequestsAppendNothing ==
  ASSUME QuotaInv, AuditInv, NEW h \in Handlers, RequestStep(h)
  PROVE AuditInv'
<1>0. /\ CallTypes /\ CallTypes' /\ ledger \in Happened /\ call \in [Handlers -> Calls]
      /\ table' = table
  BY RequestMoves DEF QuotaInv, CallTypes, RequestStep, Arrive, CheckIp, CheckPeer, CrossCheck, Serve
<1>1. ledger'.told = ledger.told
  <2>1. CASE Arrive(h)
    BY <1>0, <2>1 DEF Arrive, Happened
  <2>2. CASE CheckIp(h)
    BY <1>0, <2>2 DEF CheckIp, CheckKey, Happened
  <2>3. CASE CheckPeer(h)
    BY <1>0, <2>3 DEF CheckPeer, CheckKey, Happened
  <2>4. CASE CrossCheck(h) \/ Serve(h)
    BY <2>4 DEF CrossCheck, Serve
  <2>5. QED
    BY <2>1, <2>2, <2>3, <2>4 DEF RequestStep
<1>2. ASSUME NEW x, x.at # "commit", call' = [call EXCEPT ![h] = x] PROVE AuditInv'
  <2>1. ASSUME NEW g \in Handlers, At(g, "commit")' PROVE call'[g] = call[g]
    BY <1>0, <1>2, <2>1 DEF At
  <2>2. QED
    BY <1>0, <1>1, <2>1, AuditFrame
<1>3. CASE call' = call
  BY <1>0, <1>1, <1>3, AuditFrame
<1>4. Free.at # "commit" /\ \A c, kind : Entry(c, kind).at # "commit"
  BY DEF Free, Entry
<1>5. CASE Arrive(h)
  <2>1. CASE call' # call
    <3>1. PICK route \in Routes, p \in Peers, i \in Ips, region \in Regions \cup {<< >>} :
            call' = [call EXCEPT ![h] = [at |-> "ip", id |-> ledger.requests, route |-> route,
                                         peer |-> p, ip |-> i, region |-> region]]
      BY <1>5, <2>1 DEF Arrive
    <3>2. QED
      BY <1>2, <3>1
  <2>2. QED
    BY <1>3, <2>1
<1>6. ASSUME NEW at \in {"peer", "handle"}, Goes(h, at), call[h] \in Asking PROVE AuditInv'
  <2>1. [call[h] EXCEPT !.at = at].at # "commit"
    BY <1>6 DEF Asking
  <2>2. QED
    BY <1>2, <1>6, <2>1 DEF Goes
<1>7. CASE CheckIp(h) \/ CheckPeer(h)
  <2>1. call[h] \in Asking
    BY <1>0, <1>7, WhereIs DEF CheckIp, CheckPeer
  <2>2. Answers(h) \/ Goes(h, "peer") \/ Goes(h, "handle")
    BY <1>7 DEF CheckIp, CheckPeer, CheckKey
  <2>3. QED
    BY <1>2, <1>4, <1>6, <2>1, <2>2 DEF Answers
<1>8. CASE CrossCheck(h)
  BY <1>2, <1>4, <1>8 DEF CrossCheck, Answers
<1>9. CASE Serve(h)
  BY <1>2, <1>4, <1>9 DEF Serve, Answers
<1>10. QED
  BY <1>5, <1>7, <1>8, <1>9 DEF RequestStep

\* A key is drawn that neither a row nor another append has.
LEMMA TakeKeyMoves ==
  ASSUME QuotaInv, AuditInv, NEW h \in Handlers, TakeKey(h)
  PROVE AuditInv'
<1>0. CallTypes' /\ call \in [Handlers -> Calls]
  BY OtherMoves DEF QuotaInv, CallTypes, AuditStep
<1>1. PICK key \in NewKeys :
        call' = [call EXCEPT ![h] = [at |-> "commit", id |-> @.id, kind |-> @.kind, entry |-> @.entry,
                                     key |-> key]]
  BY DEF TakeKey
<1>2. call'[h].key = key /\ \A g \in Handlers \ {h} : call'[g] = call[g]
  BY <1>0, <1>1
<1>3. key \notin DOMAIN table /\ \A g \in Handlers : At(g, "commit") => call[g].key # key
  BY <1>1 DEF NewKeys, Drawn, At
<1>4. UNCHANGED <<table, ledger>>
  BY DEF TakeKey
<1>5. AnswersAudited'
  BY <1>4 DEF AuditInv, AnswersAudited
<1>6. QED
  BY <1>0, <1>2, <1>3, <1>4, <1>5 DEF AuditInv, At

\* The new row takes nobody's place.
LEMMA CommitMoves ==
  ASSUME QuotaInv, AuditInv, NEW h \in Handlers, Commit(h)
  PROVE AuditInv'
<1> DEFINE key == call[h].key
           row == [id |-> call[h].id, kind |-> call[h].kind, at |-> call[h].entry]
<1>0. CallTypes' /\ call \in [Handlers -> Calls] /\ ledger \in Happened
  BY OtherMoves DEF QuotaInv, CallTypes, AuditStep
<1>1. At(h, "commit") /\ key \notin DOMAIN table
  BY DEF AuditInv, Commit, At
<1>2. table' = [k \in DOMAIN table \cup {key} |-> IF k = key THEN row ELSE table[k]]
  BY DEF Commit
<1>3. /\ DOMAIN table' = DOMAIN table \cup {key} /\ table'[key] = row
      /\ \A k \in DOMAIN table : table'[k] = table[k]
  BY <1>1, <1>2
<1>4. call'[h] = Free /\ \A g \in Handlers \ {h} : call'[g] = call[g]
  BY <1>0 DEF Commit, Answers
<1>5. ledger'.told = ledger.told \cup {[id |-> call[h].id, kind |-> call[h].kind, failed |-> FALSE]}
  BY <1>0 DEF Commit, Told, Happened
<1>6. row.id = call[h].id /\ row.kind = call[h].kind
  OBVIOUS
<1> HIDE DEF row, key
<1>7. AnswersAudited'
  <2>1. ASSUME NEW t \in ledger.told
        PROVE t.failed \/ \E k \in DOMAIN table' : table'[k].id = t.id /\ table'[k].kind = t.kind
    BY <1>3 DEF AuditInv, AnswersAudited
  <2>2. table'[key].id = call[h].id /\ table'[key].kind = call[h].kind /\ key \in DOMAIN table'
    BY <1>3, <1>6
  <2>3. QED
    BY <1>5, <2>1, <2>2 DEF AnswersAudited
<1>8. Free.at # "commit"
  BY DEF Free
<1>9. \A g \in Handlers : At(g, "commit")' => At(g, "commit") /\ g # h /\ call'[g].key = call[g].key
  BY <1>4, <1>8 DEF At
<1>10. \A g \in Handlers \ {h} : At(g, "commit") => call[g].key # key
  BY <1>1 DEF AuditInv, key
<1>11. QED
  BY <1>0, <1>3, <1>7, <1>9, <1>10 DEF AuditInv

LEMMA RestMoves ==
  ASSUME QuotaInv, AuditInv, ProcessStep \/ \E h \in Handlers : AppendFails(h)
  PROVE AuditInv'
<1>0. CallTypes' /\ call \in [Handlers -> Calls] /\ ledger \in Happened
  BY OtherMoves DEF QuotaInv, CallTypes, AuditStep
<1>1. table' = table
  BY DEF ProcessStep, Reload, BringUp, Open, Crash, Millisecond, Minute, AppendFails
<1>2. Free.at # "commit"
  BY DEF Free
<1>3. ASSUME NEW g \in Handlers, At(g, "commit")' PROVE call'[g] = call[g]
  <2>1. CASE ProcessStep
    BY <1>0, <1>2, <1>3, <2>1 DEF ProcessStep, Reload, BringUp, Crash, Millisecond, Minute, At
  <2>2. ASSUME NEW h \in Handlers, AppendFails(h) PROVE call'[g] = call[g]
    BY <1>0, <1>2, <1>3, <2>2 DEF AppendFails, Answers, At
  <2>3. QED
    BY <2>1, <2>2
<1>4. \A t \in ledger'.told : t \in ledger.told \/ t.failed
  <2>1. CASE Crash
    BY <1>0, <2>1 DEF Crash, Happened
  <2>2. CASE Minute
    BY <1>0, <2>2 DEF Minute, Happened
  <2>3. CASE UNCHANGED ledger
    BY <2>3
  <2>4. ASSUME NEW h \in Handlers, AppendFails(h) PROVE \A t \in ledger'.told : t \in ledger.told \/ t.failed
    <3>1. ledger'.told = ledger.told \cup {[id |-> call[h].id, kind |-> call[h].kind, failed |-> TRUE]}
      BY <1>0, <2>4 DEF AppendFails, Told, Happened
    <3>2. QED
      BY <3>1
  <2>5. QED
    BY <2>1, <2>2, <2>3, <2>4 DEF ProcessStep, Reload, BringUp, Millisecond
<1>5. QED
  BY <1>0, <1>1, <1>3, <1>4, AuditFrame

\* audit.rs: every answer that was to be recorded has its row, whatever came in between.
THEOREM AuditSafe == FrontSpec => []AnswersAudited
<1>1. FrontInit => QuotaInv /\ AuditInv
  <2>1. Free.at # "commit"
    BY DEF Free
  <2>2. QED
    BY <2>1, QuotaInit DEF FrontInit, QuotaInv, AuditInv, AnswersAudited, At
<1>2. QuotaInv /\ AuditInv /\ [FrontNext]_frontVars => QuotaInv' /\ AuditInv'
  <2> SUFFICES ASSUME QuotaInv, AuditInv, [FrontNext]_frontVars PROVE AuditInv'
    BY QuotaStep
  <2>1. ASSUME NEW h \in Handlers, AuditStep(h) PROVE AuditInv'
    BY <2>1, TakeKeyMoves, CommitMoves, RestMoves DEF AuditStep
  <2>2. CASE UNCHANGED frontVars
    BY <2>2 DEF frontVars, AuditInv, CallTypes, AnswersAudited, At
  <2>3. QED
    BY <2>1, <2>2, RequestsAppendNothing, RestMoves, NextSteps
<1>3. AuditInv => AnswersAudited
  BY DEF AuditInv
<1>4. QED
  BY <1>1, <1>2, <1>3, PTL DEF FrontSpec

-----------------------------------------------------------------------------
(* Types of the whole state                                                *)

\* The instants and the keys of an append are ones the clock has shown.
Dated(c) ==
    /\ c.at \in {"append", "commit"} => c.entry \in 0..MaxMs
    /\ c.at = "commit" => c.key \in (0..MaxMs) \X Salts
InRange == \A r \in Routes, k \in Who : cells[r][k] >= 0 /\ ledger.passed[r][k] >= 0
TableType ==
    /\ DOMAIN table \subseteq (0..MaxMs) \X Salts
    /\ \A k \in DOMAIN table : table[k] \in [id : Nat, kind : Kinds, at : 0..MaxMs]
FrontInv ==
    /\ QuotaInv /\ InRange /\ TableType
    /\ ready \in BOOLEAN /\ ms \in 0..MaxMs /\ geo \in Databases \cup {NoDatabase}
    /\ \A h \in Handlers : Dated(call[h])

\* A limiter gives a cell only where one is left.
LEMMA CellsStay ==
  ASSUME FrontInv, NEW h \in Handlers, At(h, "ip") \/ At(h, "peer"), NEW k \in Who, NEW quota,
         NEW next, CheckKey(h, k, quota, next)
  PROVE InRange'
<1> DEFINE r == call[h].route
<1>1. /\ cells \in Spent /\ ledger \in Happened /\ ledger.passed \in Spent /\ r \in Routes
      /\ Cell(r, k)[1] = r /\ Cell(r, k)[2] = k
  BY WhereIs DEF FrontInv, QuotaInv, CallTypes, At, Happened, Asking, Cell
<1>2. \A q \in Routes, w \in Who : /\ cells[q][w] \in Int /\ cells[q][w] >= 0
                                   /\ ledger.passed[q][w] \in Int /\ ledger.passed[q][w] >= 0
  BY <1>1 DEF FrontInv, InRange, Spent
<1>3. CASE cells[r][k] = 0
  <2>1. cells' = cells /\ ledger'.passed = ledger.passed
    BY <1>1, <1>3 DEF CheckKey, Happened
  <2> QED BY <2>1 DEF FrontInv, InRange
<1>4. CASE cells[r][k] # 0
  <2> DEFINE passed == [ledger.passed EXCEPT ![r][k] = @ + 1]
  <2>1. cells' = [cells EXCEPT ![r][k] = @ - 1] /\ ledger' = [ledger EXCEPT !.passed[r][k] = @ + 1]
    BY <1>1, <1>4 DEF CheckKey
  <2>2. ledger'.passed = passed
    BY <1>1, <2>1 DEF Happened
  <2>3. ASSUME NEW q \in Routes, NEW w \in Who PROVE cells'[q][w] >= 0 /\ passed[q][w] >= 0
    <3>1. CASE q = r /\ w = k
      <4>1. cells'[q][w] = cells[q][w] - 1 /\ passed[q][w] = ledger.passed[q][w] + 1
        BY <1>1, <1>2, <2>1, <3>1 DEF Spent
      <4> QED BY <1>2, <1>4, <3>1, <4>1
    <3>2. CASE ~(q = r /\ w = k)
      <4>1. cells'[q][w] = cells[q][w] /\ passed[q][w] = ledger.passed[q][w]
        BY <1>1, <1>2, <2>1, <3>2 DEF Spent
      <4> QED BY <1>2, <4>1
    <3> QED BY <3>1, <3>2
  <2> QED BY <2>2, <2>3 DEF InRange
<1> QED BY <1>3, <1>4

LEMMA CellsKeep ==
  ASSUME FrontInv, cells' = cells, ledger'.passed = ledger.passed
  PROVE InRange'
BY DEF FrontInv, InRange

LEMMA CellsFill ==
  ASSUME cells' = FullCells, ledger'.passed = Unspent
  PROVE InRange'
BY FrontQuotas DEF InRange, FullCells, Unspent, Who

LEMMA RequestTypes ==
  ASSUME FrontInv, NEW h \in Handlers, RequestStep(h)
  PROVE FrontInv'
<1>0. CallTypes /\ call \in [Handlers -> Calls] /\ ledger \in Happened /\ QuotaInv'
  BY RequestMoves DEF FrontInv, QuotaInv, CallTypes
<1>1. UNCHANGED <<ready, ms, table, geo>>
  BY DEF RequestStep, Arrive, CheckIp, CheckPeer, CrossCheck, Serve
<1>2. InRange'
  <2>1. CASE Arrive(h) \/ CrossCheck(h) \/ Serve(h) \/ (CheckPeer(h) /\ UNCHANGED <<cells, ledger>>)
    <3>1. cells' = cells /\ ledger'.passed = ledger.passed
      BY <1>0, <2>1 DEF Arrive, CrossCheck, Serve, Happened
    <3> QED BY <3>1, CellsKeep
  <2>2. CASE CheckIp(h)
    <3>1. At(h, "ip") /\ call[h].ip \in Who
      BY <1>0, <2>2, WhereIs DEF CheckIp, At, Asking, Who
    <3> QED BY <2>2, <3>1, CellsStay DEF CheckIp
  <2>3. CASE CheckPeer(h) /\ ~UNCHANGED <<cells, ledger>>
    <3>1. At(h, "peer") /\ call[h].peer \in Who
      BY <1>0, <2>3, WhereIs DEF CheckPeer, At, Asking, Who
    <3> QED BY <2>3, <3>1, CellsStay DEF CheckPeer
  <2> QED BY <2>1, <2>2, <2>3 DEF RequestStep
<1>3. \E x : call' = [call EXCEPT ![h] = x] /\ Dated(x)
  <2>1. Dated(Free) /\ Dated(call[h])
    BY DEF Dated, Free, FrontInv
  <2>2. CASE Arrive(h)
    <3>1. CASE call' = call
      BY <1>0, <2>1, <3>1
    <3>2. CASE call' # call
      <4>1. PICK route, p, i, region :
              call' = [call EXCEPT ![h] = [at |-> "ip", id |-> ledger.requests, route |-> route,
                                           peer |-> p, ip |-> i, region |-> region]]
        BY <2>2, <3>2 DEF Arrive
      <4>2. Dated([at |-> "ip", id |-> ledger.requests, route |-> route, peer |-> p, ip |-> i, region |-> region])
        BY DEF Dated
      <4> QED BY <4>1, <4>2
    <3> QED BY <3>1, <3>2
  <2>3. CASE CheckIp(h) \/ CheckPeer(h)
    <3>1. call[h] \in Asking
      BY <1>0, <2>3, WhereIs DEF CheckIp, CheckPeer
    <3>2. Answers(h) \/ Goes(h, "peer") \/ Goes(h, "handle")
      BY <2>3 DEF CheckIp, CheckPeer, CheckKey
    <3>3. \A where \in {"peer", "handle"} : Dated([call[h] EXCEPT !.at = where])
      BY <3>1 DEF Dated, Asking
    <3>4. CASE Answers(h)
      BY <2>1, <3>4 DEF Answers
    <3>5. CASE Goes(h, "peer")
      BY <3>3, <3>5 DEF Goes
    <3>6. CASE Goes(h, "handle")
      BY <3>3, <3>6 DEF Goes
    <3> QED BY <3>2, <3>4, <3>5, <3>6
  <2>4. CASE CrossCheck(h) \/ Serve(h)
    <3>1. Answers(h) \/ \E kind : call' = [call EXCEPT ![h] = Entry(@, kind)]
      BY <2>4 DEF CrossCheck, Serve
    <3>2. CASE Answers(h)
      BY <2>1, <3>2 DEF Answers
    <3>3. CASE \E kind : call' = [call EXCEPT ![h] = Entry(@, kind)]
      <4>1. PICK kind : call' = [call EXCEPT ![h] = Entry(call[h], kind)]
        BY <3>3
      <4>2. Dated(Entry(call[h], kind))
        BY DEF Entry, Dated, FrontInv
      <4> QED BY <4>1, <4>2
    <3> QED BY <3>1, <3>2, <3>3
  <2> QED BY <2>2, <2>3, <2>4 DEF RequestStep
<1>4. \A g \in Handlers : Dated(call'[g])
  BY <1>0, <1>3 DEF FrontInv
<1> QED BY <1>0, <1>1, <1>2, <1>4 DEF FrontInv, TableType

LEMMA AuditTypes ==
  ASSUME FrontInv, NEW h \in Handlers, AuditStep(h)
  PROVE FrontInv'
<1>0. CallTypes /\ call \in [Handlers -> Calls] /\ ledger \in Happened
  BY DEF FrontInv, QuotaInv, CallTypes
<1>1. QuotaInv'
  BY QuotaStep DEF FrontInv, FrontNext, AuditStep
<1>2. UNCHANGED <<ready, ms, geo, cells>> /\ ledger'.passed = ledger.passed
  BY <1>0 DEF AuditStep, TakeKey, Commit, AppendFails, Told, Happened
<1>3. Dated(Free)
  BY DEF Dated, Free
<1>4. \E x : call' = [call EXCEPT ![h] = x] /\ Dated(x)
  <2>1. CASE TakeKey(h)
    <3>1. PICK key \in NewKeys :
        call' = [call EXCEPT ![h] = [at |-> "commit", id |-> @.id, kind |-> @.kind, entry |-> @.entry,
                                     key |-> key]]
      BY <2>1 DEF TakeKey
    <3>2. key \in (0..MaxMs) \X Salts /\ call[h].entry \in 0..MaxMs
      BY <2>1, <3>1 DEF NewKeys, FrontInv, TakeKey, Dated
    <3>3. Dated([at |-> "commit", id |-> call[h].id, kind |-> call[h].kind, entry |-> call[h].entry, key |-> key])
      BY <3>2 DEF Dated
    <3> QED BY <3>1, <3>3
  <2>2. CASE Commit(h) \/ AppendFails(h)
    BY <1>3, <2>2 DEF Commit, AppendFails, Answers
  <2> QED BY <2>1, <2>2 DEF AuditStep
<1>5. \A g \in Handlers : Dated(call'[g])
  BY <1>0, <1>4 DEF FrontInv
<1>6. TableType'
  <2>1. CASE Commit(h)
    <3> DEFINE row == [id |-> call[h].id, kind |-> call[h].kind, at |-> call[h].entry]
    <3>1. table' = [k \in DOMAIN table \cup {call[h].key} |-> IF k = call[h].key THEN row ELSE table[k]]
      BY <2>1 DEF Commit
    <3>2. call[h] \in Committing /\ call[h].entry \in 0..MaxMs /\ call[h].key \in (0..MaxMs) \X Salts
      BY <1>0, <2>1, WhereIs DEF Commit, FrontInv, Dated
    <3>3. row \in [id : Nat, kind : Kinds, at : 0..MaxMs]
      BY <3>2 DEF Committing
    <3> HIDE DEF row
    <3> QED BY <3>1, <3>2, <3>3 DEF FrontInv, TableType
  <2>2. CASE TakeKey(h) \/ AppendFails(h)
    BY <2>2 DEF TakeKey, AppendFails, FrontInv, TableType
  <2> QED BY <2>1, <2>2 DEF AuditStep
<1> QED BY <1>1, <1>2, <1>5, <1>6, CellsKeep DEF FrontInv

LEMMA ProcessTypes ==
  ASSUME FrontInv, ProcessStep \/ UNCHANGED frontVars
  PROVE FrontInv'
<1>0. ledger \in Happened /\ QuotaInv'
  BY QuotaStep DEF FrontInv, QuotaInv, CallTypes, FrontNext, ProcessStep
<1>1. InRange'
  <2>1. CASE Crash \/ Minute
    <3>1. cells' = FullCells /\ ledger'.passed = Unspent
      BY <1>0, <2>1 DEF Crash, Minute, Happened
    <3> QED BY <3>1, CellsFill
  <2>2. CASE Reload \/ BringUp \/ Millisecond \/ UNCHANGED frontVars
    BY <2>2, CellsKeep DEF Reload, BringUp, Millisecond, frontVars
  <2> QED BY <2>1, <2>2 DEF ProcessStep
<1>2. table' = table
  BY DEF ProcessStep, Reload, BringUp, Open, Crash, Millisecond, Minute, frontVars
<1>3. ready' \in BOOLEAN /\ geo' \in Databases \cup {NoDatabase}
  BY DEF ProcessStep, Reload, BringUp, Crash, Millisecond, Minute, frontVars, FrontInv
<1>4. ms' \in 0..MaxMs
  BY FrontBounds DEF ProcessStep, Reload, BringUp, Crash, Millisecond, Minute, frontVars, FrontInv
<1>5. \A h \in Handlers : Dated(call'[h])
  <2>1. Dated(Free)
    BY DEF Dated, Free
  <2> QED BY <2>1 DEF ProcessStep, Reload, BringUp, Crash, Millisecond, Minute, frontVars, FrontInv
<1> QED BY <1>0, <1>1, <1>2, <1>3, <1>4, <1>5 DEF FrontInv, TableType

\* Every reachable state is well typed: a cell stays within its quota, and every row of the log has
\* an instant and a key of the clock.
THEOREM TypeCorrect == FrontSpec => []FrontTypeOK
<1>1. FrontInit => FrontInv
  <2> SUFFICES ASSUME FrontInit PROVE FrontInv
    OBVIOUS
  <2>1. QuotaInv
    BY QuotaInit
  <2>2. InRange
    BY FrontQuotas DEF FrontInit, InRange, FullCells, Unspent, Who
  <2>3. Dated(Free)
    BY DEF Dated, Free
  <2>4. TableType
    BY DEF FrontInit, TableType
  <2>5. ready \in BOOLEAN /\ ms \in 0..MaxMs /\ geo \in Databases \cup {NoDatabase}
    <3>1. ready \in BOOLEAN /\ geo \in Databases \cup {NoDatabase}
      BY DEF FrontInit
    <3>2. ms = 0
      BY DEF FrontInit
    <3> QED BY <3>1, <3>2, FrontBounds
  <2>6. ASSUME NEW h \in Handlers PROVE Dated(call[h])
    <3>1. call[h] = Free
      BY DEF FrontInit
    <3> QED BY <2>3, <3>1
  <2> QED BY <2>1, <2>2, <2>4, <2>5, <2>6 DEF FrontInv
<1>2. FrontInv /\ [FrontNext]_frontVars => FrontInv'
  BY NextSteps, RequestTypes, AuditTypes, ProcessTypes
<1>3. FrontInv => FrontTypeOK
  <2> SUFFICES ASSUME FrontInv PROVE FrontTypeOK
    OBVIOUS
  <2>1. ASSUME NEW r \in Routes, NEW k \in Who PROVE cells[r][k] \in 0..FullCells[r][k]
    <3>1. /\ cells[r][k] \in Int /\ ledger.passed[r][k] \in Int /\ FullCells[r][k] \in Int
          /\ cells[r][k] >= 0 /\ ledger.passed[r][k] >= 0
          /\ cells[r][k] + ledger.passed[r][k] = FullCells[r][k]
      BY FullCellsType DEF FrontInv, QuotaInv, CallTypes, Happened, Spent, InRange
    <3> QED BY <3>1
  <2> QED BY <2>1 DEF FrontInv, QuotaInv, CallTypes, TableType, FrontTypeOK
<1> QED BY <1>1, <1>2, <1>3, PTL DEF FrontSpec
=============================================================================
