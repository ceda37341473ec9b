---------------------------- MODULE RelayProofs ----------------------------
(* Proofs about Relay, for any clients, forwarders, exits and chain ids and *)
(* chains of any length: a forwarder only emits what a lease it was given   *)
(* tells it to, and a payload surfaces nowhere but at the two ends of its   *)
(* session.                                                                 *)
EXTENDS Relay, SequenceTheorems, TLAPS

-----------------------------------------------------------------------------
(* Types                                                                   *)

LEMMA ClockType == LeaseTime \in Nat /\ MaxClock \in Nat /\ MaxSends \in Nat
BY ClockAssumption

\* A chain that assemble chose is as long as Hops says.
LEMMA ChainType ==
    ASSUME NEW forwarders \in SUBSET Forwarders, NEW chain \in [1..Hops -> forwarders]
    PROVE  /\ Len(chain) = Hops /\ chain # <<>> /\ 1 \in 1..Hops
           /\ \A i \in 1..Hops : chain[i] \in Forwarders
<1>1. Hops \in Nat /\ 1 \in 1..Hops
  BY HopsAssumption
<1>2. chain \in Seq(forwarders)
  BY <1>1, SeqDef
<1>3. Len(chain) \in Nat /\ DOMAIN chain = 1..Len(chain)
  BY <1>2, LenProperties
<1>4. DOMAIN chain = 1..Hops
  OBVIOUS
<1>5. Len(chain) = Hops
  BY <1>1, <1>3, <1>4
<1>6. chain # <<>>
  BY <1>1, <1>4
<1> QED BY <1>1, <1>5, <1>6

\* The lease of the i-th forwarder of a chain.
LeaseOf(c, e, chain, ids, expires, i) ==
    [forwarder |-> chain[i], chain |-> ids[i], src |-> Upstream(c, chain, i),
     dst |-> Downstream(e, chain, i), expires |-> expires, of |-> c]

\* Its neighbours are two others, and only the last one's is the exit.
LEMMA LeaseType ==
    ASSUME NEW c \in Clients, NEW e \in Exits, NEW expires \in 0..MaxClock + LeaseTime,
           NEW forwarders \in SUBSET Forwarders, NEW chain \in [1..Hops -> forwarders],
           NEW ids \in [1..Hops -> Chains], IsInjective(chain), NEW i \in 1..Hops
    PROVE  LET l == LeaseOf(c, e, chain, ids, expires, i) IN
           /\ l \in Lease /\ l.forwarder = chain[i] /\ l.chain = ids[i]
           /\ l.src = Upstream(c, chain, i) /\ l.dst = Downstream(e, chain, i)
           /\ l.src # l.forwarder /\ l.dst # l.forwarder
           /\ l.dst \in Forwarders \cup Exits /\ (l.dst \in Exits => l.dst = e)
<1>1. /\ Len(chain) = Hops /\ Hops \in Nat /\ \A j \in 1..Hops : chain[j] \in Forwarders
  BY ChainType, HopsAssumption
<1>2. \A j \in 1..Hops : j # i => chain[j] # chain[i]
  BY DEF IsInjective
<1>3. Upstream(c, chain, i) \in Addr /\ Upstream(c, chain, i) # chain[i]
  <2>1. CASE i = 1
    BY <1>1, <2>1, RolesAssumption DEF Upstream, Addr
  <2>2. CASE i # 1
    <3>1. i - 1 \in 1..Hops /\ i - 1 # i
      BY <1>1, <2>2
    <3> QED BY <1>1, <1>2, <2>2, <3>1 DEF Upstream, Addr
  <2> QED BY <2>1, <2>2
<1>4. /\ Downstream(e, chain, i) \in Forwarders \cup Exits /\ Downstream(e, chain, i) # chain[i]
      /\ Downstream(e, chain, i) \in Exits => Downstream(e, chain, i) = e
  <2>1. CASE i = Hops
    BY <1>1, <2>1, RolesAssumption DEF Downstream
  <2>2. CASE i # Hops
    <3>1. i + 1 \in 1..Hops /\ i + 1 # i
      BY <1>1, <2>2
    <3> QED BY <1>1, <1>2, <2>2, <3>1, RolesAssumption DEF Downstream
  <2> QED BY <2>1, <2>2
<1>5. ids[i] \in Chains /\ chain[i] \in Forwarders
  BY <1>1
<1> QED BY <1>3, <1>4, <1>5 DEF LeaseOf, Lease, Addr

LEMMA EntryType == ASSUME NEW l \in Lease PROVE EntryOf(l) \in RoutingEntry /\ EntryOf(l).chain = l.chain
                          /\ EntryOf(l).src = l.src /\ EntryOf(l).dst = l.dst
                          /\ EntryOf(l).expires = l.expires
BY DEF EntryOf, Lease, RoutingEntry

\* Datagram d sent on from s to t.
Moved(d, s, t) == [d EXCEPT !.src = s, !.dst = t]

LEMMA MovedType ==
    ASSUME NEW d \in Datagram, NEW s \in Addr, NEW t \in Addr
    PROVE  /\ Moved(d, s, t) \in Datagram
           /\ Moved(d, s, t).src = s /\ Moved(d, s, t).dst = t
           /\ Moved(d, s, t).chain = d.chain /\ Moved(d, s, t).body = d.body
BY DEF Datagram, Moved

\* A frame is forwarded along a row for its chain id that has not run out, from the one end of
\* that row to the other.
LEMMA Forwarded ==
    ASSUME NEW f, NEW d, NEW decision \in Decisions(f, d), decision.forward
    PROVE  \E row \in table[f] :
              /\ row.chain = d.chain /\ ~Expired(row)
              /\ \/ d.src = row.src /\ decision.target = row.dst
                 \/ d.src = row.dst /\ decision.target = row.src
<1>1. CASE RowsOf(f, d) = {}
  BY <1>1 DEF Decisions, DropFor
<1>2. CASE RowsOf(f, d) # {}
  <2>1. PICK row \in RowsOf(f, d) : decision = Evaluate(row, d)
    BY <1>2 DEF Decisions
  <2>2. /\ Direction(row, d.src) # "none" /\ ~Expired(row)
        /\ decision = ForwardTo(Target(row, d.src))
    BY <2>1 DEF Evaluate, DropFor
  <2>3. row \in table[f] /\ row.chain = d.chain
    BY DEF RowsOf
  <2>4. decision.target = Target(row, d.src)
    BY <2>2 DEF ForwardTo
  <2>5. \/ d.src = row.src /\ Target(row, d.src) = row.dst
        \/ d.src = row.dst /\ Target(row, d.src) = row.src
    BY <2>2 DEF Direction, Target
  <2> QED BY <2>2, <2>3, <2>4, <2>5
<1> QED BY <1>1, <1>2

-----------------------------------------------------------------------------
(* The invariant                                                           *)

\* Lease l is the first of the chain that serves client c with exit e.  The forwarder after it is
\* the exit only if the chain is one hop long.
Serves(l, c, e) == l.src = c /\ (l.dst \in Exits => l.dst = e)

\* Every lease has a chain id of its own, never minted again, and two neighbours other than its
\* forwarder.
LeasesApart ==
    /\ \A l \in issued : /\ l.chain \in minted
                         /\ l.src # l.forwarder /\ l.dst # l.forwarder
                         /\ l.dst \in Forwarders \cup Exits
    /\ \A l, m \in issued : l.chain = m.chain => l = m

\* A forwarder routes by leases it was given.
RowsLeased == \A f \in Forwarders : \A row \in table[f] :
                 \E l \in issued : l.forwarder = f /\ row = EntryOf(l)

\* A client talks to its exit, or to the forwarder of the first lease of its chain.
PathLeased(c) ==
    IF path[c].chain = NoChain THEN path[c].first = path[c].exit
    ELSE \E l \in issued : /\ l.chain = path[c].chain /\ l.forwarder = path[c].first
                           /\ Serves(l, c, path[c].exit)

\* A bare datagram is on its way between its client and its exit.
Direct(d) ==
    /\ d.chain = NoChain
    /\ \/ d.body.dir = "out" /\ d.src = d.body.client /\ d.dst = d.body.exit
       \/ d.body.dir = "in" /\ d.src = d.body.exit /\ d.dst = d.body.client

\* A frame is next to the forwarder of the one lease that has its chain id, on the side its
\* direction says.
Beside(l, d) ==
    \/ d.body.dir = "out" /\ d.src = l.src /\ d.dst = l.forwarder
    \/ d.body.dir = "out" /\ d.src = l.forwarder /\ d.dst = l.dst
    \/ d.body.dir = "in" /\ d.src = l.dst /\ d.dst = l.forwarder
    \/ d.body.dir = "in" /\ d.src = l.forwarder /\ d.dst = l.src
Relayed(d) == \E l \in issued : /\ l.chain = d.chain /\ Serves(l, d.body.client, d.body.exit)
                                /\ Beside(l, d)

RelayInv ==
    /\ TypeOK
    /\ LeasesApart
    /\ RowsLeased
    /\ \A c \in Clients : path[c] # NoPath => PathLeased(c)
    /\ \A d \in net : Direct(d) \/ Relayed(d)
    /\ NoCrossTalk

\* Where a datagram comes from and goes to, with the roles apart.
LEMMA RolesApart ==
    ASSUME NEW x PROVE /\ x \in Clients => x \notin Forwarders /\ x \notin Exits
                       /\ x \in Forwarders => x \notin Clients /\ x \notin Exits
                       /\ x \in Exits => x \notin Clients /\ x \notin Forwarders
BY RolesAssumption

\* Where nothing of it changes, the invariant stays.
LEMMA NothingMoves == ASSUME RelayInv, UNCHANGED vars PROVE RelayInv'
BY DEF RelayInv, vars, TypeOK, LeasesApart, RowsLeased, PathLeased, Direct, Relayed, NoCrossTalk

\* More leases take no row, no path and no datagram its lease.
LEMMA LeasesGrow ==
    ASSUME RelayInv, issued \subseteq issued', table' = table, net' = net
    PROVE  /\ RowsLeased'
           /\ \A c \in Clients : path'[c] = path[c] /\ path[c] # NoPath => PathLeased(c)'
           /\ \A d \in net' : Direct(d)' \/ Relayed(d)'
<1>1. RowsLeased'
  BY DEF RelayInv, RowsLeased
<1>2. ASSUME NEW c \in Clients, path'[c] = path[c], path[c] # NoPath PROVE PathLeased(c)'
  BY <1>2 DEF RelayInv, PathLeased
<1>3. ASSUME NEW d \in net' PROVE Direct(d)' \/ Relayed(d)'
  <2>1. Direct(d) \/ Relayed(d)
    BY DEF RelayInv
  <2>2. CASE Direct(d)
    BY <2>2 DEF Direct
  <2>3. CASE Relayed(d)
    BY <2>3 DEF Relayed
  <2> QED BY <2>1, <2>2, <2>3
<1> QED BY <1>1, <1>2, <1>3

LEMMA SingleHopStep ==
    ASSUME RelayInv, NEW c \in Clients, NEW e \in Exits, SingleHop(c, e),
           UNCHANGED <<clock, table, net, sent, got>>
    PROVE  RelayInv'
<1> DEFINE p == NewSingleHop(e)
<1>1. p \in Path /\ p.chain = NoChain /\ p.first = p.exit
  BY DEF NewSingleHop, PeerEndpoint, Path
<1>2. path' = [path EXCEPT ![c] = p] /\ UNCHANGED <<minted, issued>>
  BY DEF SingleHop
<1> HIDE DEF p
<1>3. TypeOK'
  BY <1>1, <1>2 DEF RelayInv, TypeOK
<1>4. path'[c] = p /\ \A x \in Clients \ {c} : path'[x] = path[x]
  BY <1>2 DEF RelayInv, TypeOK
<1>5. \A x \in Clients : path'[x] # NoPath => PathLeased(x)'
  BY <1>1, <1>2, <1>4, LeasesGrow DEF PathLeased
<1> QED BY <1>2, <1>3, <1>5, LeasesGrow DEF RelayInv, LeasesApart, NoCrossTalk

\* The leases of a new chain have chain ids that no lease had.
LEMMA MultiHopStep ==
    ASSUME RelayInv, NEW c \in Clients, NEW e \in Exits, NEW forwarders \in SUBSET Forwarders,
           MultiHopVia(c, e, forwarders), UNCHANGED <<clock, table, net, sent, got>>
    PROVE  RelayInv'
<1>1. PICK chain \in [1..Hops -> forwarders], ids \in [1..Hops -> Chains \ minted] :
        /\ IsInjective(chain) /\ IsInjective(ids)
        /\ minted' = minted \cup Range(ids)
        /\ issued' = issued \cup LeaseChain(c, e, chain, ids, LeaseEnd)
        /\ path' = [path EXCEPT ![c] = NewMultiHop(chain, ids, e)]
  BY DEF MultiHopVia
<1> DEFINE L(i) == LeaseOf(c, e, chain, ids, LeaseEnd, i)
           p == NewMultiHop(chain, ids, e)
<1>2. LeaseEnd \in 0..MaxClock + LeaseTime
  BY ClockType DEF RelayInv, TypeOK, LeaseEnd
<1>3. ids \in [1..Hops -> Chains] /\ IsInjective(chain) /\ IsInjective(ids)
  BY <1>1
<1>4. /\ Len(chain) = Hops /\ chain # <<>> /\ 1 \in 1..Hops
      /\ \A i \in 1..Hops : chain[i] \in Forwarders
  BY ChainType
<1>5. ASSUME NEW i \in 1..Hops
      PROVE  /\ L(i) \in Lease /\ L(i).forwarder = chain[i] /\ L(i).chain = ids[i]
             /\ L(i).src = Upstream(c, chain, i)
             /\ L(i).src # L(i).forwarder /\ L(i).dst # L(i).forwarder
             /\ L(i).dst \in Forwarders \cup Exits /\ (L(i).dst \in Exits => L(i).dst = e)
  <2> HIDE DEF L
  <2>1. L(i) = LeaseOf(c, e, chain, ids, LeaseEnd, i)
    BY DEF L
  <2>2. Upstream(c, chain, i) = L(i).src /\ L(i).forwarder = chain[i] /\ L(i).chain = ids[i]
    BY <2>1 DEF LeaseOf
  <2>3. L(i) \in Lease /\ L(i).src # L(i).forwarder /\ L(i).dst # L(i).forwarder
        /\ L(i).dst \in Forwarders \cup Exits /\ (L(i).dst \in Exits => L(i).dst = e)
    BY <1>2, <1>3, <2>1, LeaseType
  <2> QED BY <2>2, <2>3
<1>6. LeaseChain(c, e, chain, ids, LeaseEnd) = {L(i) : i \in 1..Hops}
  BY <1>4 DEF LeaseChain, LeaseOf
<1>7. Range(ids) = {ids[i] : i \in 1..Hops}
  BY DEF Range
<1>8. p \in Path /\ p.first = chain[1] /\ p.chain = ids[1] /\ p.exit = e
  BY <1>3, <1>4 DEF NewMultiHop, PeerEndpoint, Path
<1> HIDE DEF L, p
<1>9. issued' = issued \cup {L(i) : i \in 1..Hops} /\ path' = [path EXCEPT ![c] = p]
  BY <1>1, <1>6 DEF p
<1>10. TypeOK'
  <2>1. minted' \subseteq Chains
    BY <1>1, <1>3, <1>7 DEF RelayInv, TypeOK
  <2>2. issued' \subseteq Lease
    BY <1>5, <1>9 DEF RelayInv, TypeOK
  <2> QED BY <1>8, <1>9, <2>1, <2>2 DEF RelayInv, TypeOK
<1>11. LeasesApart'
  <2>1. ASSUME NEW l \in issued'
        PROVE  /\ l.chain \in minted' /\ l.src # l.forwarder /\ l.dst # l.forwarder
               /\ l.dst \in Forwarders \cup Exits
    <3>1. CASE l \in issued
      BY <1>1, <3>1 DEF RelayInv, LeasesApart
    <3>2. CASE l \in {L(i) : i \in 1..Hops}
      BY <1>1, <1>5, <1>7, <3>2
    <3> QED BY <1>9, <3>1, <3>2
  <2>2. ASSUME NEW l \in issued', NEW m \in issued', l.chain = m.chain PROVE l = m
    <3>1. ASSUME NEW a \in issued, NEW i \in 1..Hops PROVE a.chain # L(i).chain
      BY <1>1, <1>5 DEF RelayInv, LeasesApart
    <3>2. ASSUME NEW i \in 1..Hops, NEW j \in 1..Hops, L(i).chain = L(j).chain PROVE L(i) = L(j)
      BY <1>3, <1>5, <3>2 DEF IsInjective
    <3>3. CASE l \in issued /\ m \in issued
      BY <2>2, <3>3 DEF RelayInv, LeasesApart
    <3> QED BY <1>9, <2>2, <3>1, <3>2, <3>3
  <2> QED BY <2>1, <2>2 DEF LeasesApart
<1>12. issued \subseteq issued'
  BY <1>1
<1>13. path'[c] = p /\ \A x \in Clients \ {c} : path'[x] = path[x]
  BY <1>9 DEF RelayInv, TypeOK
<1>14. PathLeased(c)'
  <2>1. L(1) \in issued'
    BY <1>4, <1>9
  <2>2. L(1).src = c
    BY <1>4, <1>5 DEF Upstream
  <2>3. L(1).chain = path'[c].chain /\ L(1).forwarder = path'[c].first
        /\ (L(1).dst \in Exits => L(1).dst = path'[c].exit)
    BY <1>4, <1>5, <1>8, <1>13
  <2>4. path'[c].chain # NoChain
    BY <1>3, <1>4, <1>8, <1>13, NoneAssumption
  <2> QED BY <2>1, <2>2, <2>3, <2>4 DEF PathLeased, Serves
<1>15. \A x \in Clients : path'[x] # NoPath => PathLeased(x)'
  BY <1>12, <1>13, <1>14, LeasesGrow
<1>16. RowsLeased' /\ \A d \in net' : Direct(d)' \/ Relayed(d)'
  BY <1>12, LeasesGrow
<1> QED BY <1>10, <1>11, <1>15, <1>16 DEF RelayInv, NoCrossTalk

LEMMA AssembleStep == ASSUME RelayInv, NEW c \in Clients, Assemble(c) PROVE RelayInv'
<1>1. UNCHANGED <<clock, table, net, sent, got>>
  BY DEF Assemble
<1>2. CASE UNCHANGED <<path, minted, issued>>
  BY <1>1, <1>2, NothingMoves DEF vars
<1>3. ASSUME NEW view \in View, NEW e \in PickBusyExit(view),
             SingleHop(c, e) \/ MultiHopVia(c, e, PickBusyForwarder(view))
      PROVE  RelayInv'
  <2>1. e \in Exits /\ PickBusyForwarder(view) \in SUBSET Forwarders
    BY DEF PickBusyExit, PickBusyForwarder, Busy
  <2> QED BY <1>1, <1>3, <2>1, SingleHopStep, MultiHopStep
<1> QED BY <1>2, <1>3 DEF Assemble

LEMMA RowsReplaced ==
    ASSUME RelayInv, NEW f \in Forwarders, NEW rows, table' = [table EXCEPT ![f] = rows],
           \A row \in rows : row \in table[f] \/ \E l \in issued : l.forwarder = f /\ row = EntryOf(l),
           UNCHANGED <<clock, minted, path, issued, net, sent, got>>
    PROVE  RelayInv'
<1>1. ASSUME NEW row \in rows
      PROVE  row \in RoutingEntry /\ \E l \in issued : l.forwarder = f /\ row = EntryOf(l)
  <2>1. PICK l \in issued : l.forwarder = f /\ row = EntryOf(l)
    BY DEF RelayInv, RowsLeased
  <2> QED BY <2>1, EntryType DEF RelayInv, TypeOK
<1>2. table'[f] = rows /\ \A g \in Forwarders \ {f} : table'[g] = table[g]
  BY DEF RelayInv, TypeOK
<1>3. TypeOK' /\ RowsLeased'
  BY <1>1, <1>2 DEF RelayInv, TypeOK, RowsLeased
<1> QED
  BY <1>3 DEF RelayInv, LeasesApart, PathLeased, Direct, Relayed, NoCrossTalk

LEMMA TableStep ==
    ASSUME RelayInv, NEW f \in Forwarders, InsertLease(f) \/ Sweep(f) \/ Bind(f)
    PROVE  RelayInv'
<1>1. UNCHANGED <<clock, minted, path, issued, net, sent, got>> /\ f \in DOMAIN table
  BY DEF InsertLease, Sweep, Bind, RelayInv, TypeOK
<1>2. CASE InsertLease(f)
  <2>1. PICK lease \in issued :
          /\ lease.forwarder = f
          /\ table' = [table EXCEPT ![f] = {row \in table[f] : row.chain # lease.chain}
                                           \cup {EntryOf(lease)}]
    BY <1>1, <1>2 DEF InsertLease
  <2> DEFINE rows == {row \in table[f] : row.chain # lease.chain} \cup {EntryOf(lease)}
  <2>2. \A row \in rows : row \in table[f] \/ \E l \in issued : l.forwarder = f /\ row = EntryOf(l)
    BY <2>1
  <2>3. table' = [table EXCEPT ![f] = rows]
    BY <2>1
  <2> HIDE DEF rows
  <2> QED BY <1>1, <2>2, <2>3, RowsReplaced
<1>3. CASE Sweep(f)
  <2> DEFINE rows == {row \in table[f] : ~Expired(row)}
  <2>1. table' = [table EXCEPT ![f] = rows] /\ rows \subseteq table[f]
    BY <1>1, <1>3 DEF Sweep
  <2> HIDE DEF rows
  <2> QED BY <1>1, <2>1, RowsReplaced
<1>4. CASE Bind(f)
  <2> DEFINE rows == {}
  <2>1. table' = [table EXCEPT ![f] = rows] /\ rows \subseteq table[f]
    BY <1>4 DEF Bind
  <2> HIDE DEF rows
  <2> QED BY <1>1, <2>1, RowsReplaced
<1> QED BY <1>2, <1>3, <1>4

\* Datagrams that come and go.
LEMMA NetMoves ==
    ASSUME RelayInv, UNCHANGED <<clock, minted, path, issued, table>>,
           \A d \in net' : d \in net \/ (d \in Datagram /\ (Direct(d) \/ Relayed(d))),
           sent' \in [Clients -> 0..MaxSends], got' \subseteq [at : Clients \cup Exits, body : Payload],
           NoCrossTalk'
    PROVE  RelayInv'
<1>1. TypeOK'
  BY DEF RelayInv, TypeOK
<1>2. ASSUME NEW d \in net' PROVE Direct(d)' \/ Relayed(d)'
  <2>1. Direct(d) \/ Relayed(d)
    BY DEF RelayInv
  <2> QED BY <2>1 DEF Direct, Relayed
<1>3. LeasesApart' /\ RowsLeased' /\ \A c \in Clients : path'[c] # NoPath => PathLeased(c)'
  BY DEF RelayInv, LeasesApart, RowsLeased, PathLeased
<1> QED BY <1>1, <1>2, <1>3 DEF RelayInv

LEMMA NetStep ==
    ASSUME RelayInv, UNCHANGED <<clock, minted, path, issued, table>>,
           NEW m, net' \subseteq net \cup {m}, m \in Datagram, Direct(m) \/ Relayed(m),
           sent' \in [Clients -> 0..MaxSends], got' \subseteq [at : Clients \cup Exits, body : Payload],
           NoCrossTalk'
    PROVE  RelayInv'
<1>1. \A d \in net' : d \in net \/ (d \in Datagram /\ (Direct(d) \/ Relayed(d)))
  OBVIOUS
<1> QED BY <1>1, NetMoves

\* Where a datagram may arrive: with the roles apart, a frame of a lease is next to the lease's
\* forwarder, to its client or to the end of the chain, and only the latter is an exit.
LEMMA Arrivals ==
    ASSUME RelayInv, NEW d \in net
    PROVE  /\ d \in Datagram /\ d.body \in Payload /\ d.body.client \in Clients /\ d.body.exit \in Exits
           /\ d.dst \in Clients => d.dst = d.body.client /\ d.body.dir = "in"
           /\ d.dst \in Exits => /\ d.dst = d.body.exit /\ d.body.dir = "out"
                                 /\ \/ d.chain = NoChain /\ d.src = d.body.client
                                    \/ \E l \in issued : /\ l.chain = d.chain
                                                         /\ Serves(l, d.body.client, d.body.exit)
                                                         /\ d.src = l.forwarder /\ d.dst = l.dst
<1>1. /\ d \in Datagram /\ d.body \in Payload /\ d.body.client \in Clients /\ d.body.exit \in Exits
  BY DEF RelayInv, TypeOK, Datagram, Payload
<1>2. Direct(d) \/ Relayed(d)
  BY DEF RelayInv
<1>3. CASE Direct(d)
  BY <1>1, <1>3, RolesAssumption DEF Direct
<1>4. CASE Relayed(d)
  <2>1. PICK l \in issued : /\ l.chain = d.chain /\ Serves(l, d.body.client, d.body.exit)
                            /\ Beside(l, d)
    BY <1>4 DEF Relayed
  <2>2. l.forwarder \in Forwarders /\ l.src = d.body.client /\ l.dst \in Forwarders \cup Exits
        /\ (l.dst \in Exits => l.dst = d.body.exit)
    BY <2>1 DEF RelayInv, TypeOK, LeasesApart, Lease, Serves
  <2>3. d.dst \in Clients => d.dst = d.body.client /\ d.body.dir = "in"
    BY <1>1, <2>1, <2>2, RolesAssumption DEF Beside
  <2>4. d.dst \in Exits => /\ d.dst = d.body.exit /\ d.body.dir = "out"
                           /\ d.src = l.forwarder /\ d.dst = l.dst
    BY <1>1, <2>1, <2>2, RolesAssumption DEF Beside
  <2> QED BY <1>1, <2>1, <2>3, <2>4
<1> QED BY <1>2, <1>3, <1>4

LEMMA EncodeStep == ASSUME RelayInv, NEW c \in Clients, Encode(c) PROVE RelayInv'
<1> DEFINE b == [client |-> c, exit |-> path[c].exit, dir |-> "out"]
           d == [src |-> c, dst |-> path[c].first, chain |-> path[c].chain, body |-> b]
<1>1. path[c] \in Path /\ PathLeased(c)
  BY DEF RelayInv, TypeOK, Encode
<1>2. b \in Payload /\ b.client = c /\ b.exit = path[c].exit /\ b.dir = "out"
  BY <1>1 DEF Path, Payload
<1>3. /\ d \in Datagram /\ d.src = c /\ d.dst = path[c].first /\ d.chain = path[c].chain /\ d.body = b
  BY <1>1, <1>2 DEF Path, Datagram, Addr
<1>4. net' = net \cup {d} /\ UNCHANGED <<clock, minted, path, issued, table, got>>
  BY DEF Encode
<1> HIDE DEF b, d
<1>5. Direct(d) \/ Relayed(d)
  BY <1>1, <1>2, <1>3 DEF PathLeased, Direct, Relayed, Beside, Serves
<1>6. sent' \in [Clients -> 0..MaxSends]
  BY ClockType DEF Encode, RelayInv, TypeOK
<1>7. got' \subseteq [at : Clients \cup Exits, body : Payload] /\ NoCrossTalk'
  BY <1>4 DEF RelayInv, TypeOK, NoCrossTalk
<1> QED BY <1>3, <1>4, <1>5, <1>6, <1>7, NetStep

LEMMA DecodeStep == ASSUME RelayInv, NEW c \in Clients, Decode(c) PROVE RelayInv'
<1>1. PICK d \in net : d.dst = c /\ got' = got \cup {[at |-> c, body |-> d.body]}
  BY DEF Decode
<1>2. UNCHANGED <<clock, minted, path, issued, table, net, sent>>
  BY DEF Decode
<1>3. d.body \in Payload /\ c = d.body.client /\ d.body.dir = "in"
  BY <1>1, Arrivals
<1>4. got' \subseteq [at : Clients \cup Exits, body : Payload] /\ NoCrossTalk'
  BY <1>1, <1>3 DEF RelayInv, TypeOK, NoCrossTalk
<1>5. sent' \in [Clients -> 0..MaxSends]
  BY <1>2 DEF RelayInv, TypeOK
<1> QED BY <1>2, <1>4, <1>5, NetMoves

LEMMA AnswerStep == ASSUME RelayInv, NEW e \in Exits, Answer(e) PROVE RelayInv'
<1>1. PICK d \in net :
        /\ d.dst = e
        /\ got' = got \cup {[at |-> e, body |-> d.body]}
        /\ net' = net \cup {[src |-> e, dst |-> d.src, chain |-> d.chain,
                             body |-> [d.body EXCEPT !.dir = "in"]]}
  BY DEF Answer
<1>2. UNCHANGED <<clock, minted, path, issued, table, sent>>
  BY DEF Answer
<1> DEFINE b == [d.body EXCEPT !.dir = "in"]
           m == [src |-> e, dst |-> d.src, chain |-> d.chain, body |-> b]
<1>3. d \in Datagram /\ d.body \in Payload /\ e = d.body.exit /\ d.body.dir = "out"
  BY <1>1, Arrivals
<1>4. b \in Payload /\ b.client = d.body.client /\ b.exit = d.body.exit /\ b.dir = "in"
  BY <1>3 DEF Payload
<1>5. m \in Datagram /\ m.src = e /\ m.dst = d.src /\ m.chain = d.chain /\ m.body = b
  BY <1>3, <1>4 DEF Datagram, Addr
<1>6. net' = net \cup {m}
  BY <1>1
<1> HIDE DEF b, m
<1>7. Direct(m) \/ Relayed(m)
  <2>1. CASE d.chain = NoChain /\ d.src = d.body.client
    BY <1>3, <1>4, <1>5, <2>1 DEF Direct
  <2>2. ASSUME NEW l \in issued, l.chain = d.chain, Serves(l, d.body.client, d.body.exit),
               d.src = l.forwarder, d.dst = l.dst
        PROVE  Relayed(m)
    BY <1>1, <1>4, <1>5, <2>2 DEF Relayed, Beside
  <2> QED BY <1>1, <2>1, <2>2, Arrivals
<1>8. got' \subseteq [at : Clients \cup Exits, body : Payload] /\ NoCrossTalk'
  BY <1>1, <1>3, RolesAssumption DEF RelayInv, TypeOK, NoCrossTalk
<1>9. sent' \in [Clients -> 0..MaxSends]
  BY <1>2 DEF RelayInv, TypeOK
<1> QED BY <1>2, <1>5, <1>6, <1>7, <1>8, <1>9, NetStep

\* The row a forwarder routes a frame by is the frame's own lease, so the frame comes out on the
\* lease's other side.
LEMMA HandleStep == ASSUME RelayInv, NEW f \in Forwarders, HandleInbound(f) PROVE RelayInv'
<1>1. UNCHANGED <<clock, minted, path, issued, table, sent, got>>
  BY DEF HandleInbound
<1>a. PICK d \in net :
        /\ d.dst = f
        /\ \E decision \in Decisions(f, d) :
            \/ decision.forward /\ net' = net \cup {[d EXCEPT !.src = f, !.dst = decision.target]}
            \/ net' = net
  BY DEF HandleInbound
<1>2. PICK decision \in Decisions(f, d) :
        /\ d.dst = f
        /\ \/ decision.forward /\ net' = net \cup {[d EXCEPT !.src = f, !.dst = decision.target]}
           \/ net' = net
  BY <1>a
<1>3. CASE net' = net
  BY <1>1, <1>3, NothingMoves DEF vars
<1>4. ASSUME decision.forward, net' = net \cup {[d EXCEPT !.src = f, !.dst = decision.target]}
      PROVE  RelayInv'
  <2>1. PICK row \in table[f] :
              /\ row.chain = d.chain
              /\ \/ d.src = row.src /\ decision.target = row.dst
                 \/ d.src = row.dst /\ decision.target = row.src
    BY <1>4, Forwarded
  <2>2. PICK l \in issued : l.forwarder = f /\ row = EntryOf(l)
    BY DEF RelayInv, RowsLeased
  <2>3. /\ l \in Lease /\ l.chain = d.chain
        /\ \/ d.src = l.src /\ decision.target = l.dst
           \/ d.src = l.dst /\ decision.target = l.src
    BY <2>1, <2>2, EntryType DEF RelayInv, TypeOK
  <2>4. d \in Datagram /\ d.body.client \in Clients /\ d.body.exit \in Exits
    BY Arrivals
  <2> DEFINE m == Moved(d, f, decision.target)
  <2>5. f \in Addr /\ decision.target \in Addr
    BY <2>3 DEF Addr, Lease
  <2>6. /\ m \in Datagram /\ m.src = f /\ m.dst = decision.target /\ m.chain = d.chain
        /\ m.body = d.body
    BY <2>4, <2>5, MovedType
  <2> HIDE DEF m
  <2>7. Relayed(d)
    BY <1>2, <2>4, RolesAssumption DEF RelayInv, Direct
  <2>8. Serves(l, d.body.client, d.body.exit) /\ Beside(l, d)
    BY <2>3, <2>7 DEF Relayed, RelayInv, LeasesApart
  <2>9. /\ l.src = d.body.client /\ l.dst # l.forwarder /\ l.src # l.forwarder
        /\ l.dst \in Forwarders \cup Exits /\ l.src # l.dst
    BY <2>4, <2>8, RolesAssumption DEF RelayInv, LeasesApart, Serves
  <2>10. \/ d.body.dir = "out" /\ d.src = l.src
         \/ d.body.dir = "in" /\ d.src = l.dst
    BY <1>2, <2>2, <2>8, <2>9 DEF Beside
  <2>11. Beside(l, m)
    BY <2>2, <2>3, <2>6, <2>9, <2>10 DEF Beside
  <2>12. Relayed(m)
    BY <2>3, <2>6, <2>8, <2>11 DEF Relayed
  <2>13. /\ sent' \in [Clients -> 0..MaxSends] /\ NoCrossTalk'
         /\ got' \subseteq [at : Clients \cup Exits, body : Payload]
    BY <1>1 DEF RelayInv, TypeOK, NoCrossTalk
  <2>14. net' \subseteq net \cup {m}
    BY <1>4 DEF m, Moved
  <2> QED BY <1>1, <2>6, <2>12, <2>13, <2>14, NetStep
<1> QED BY <1>2, <1>3, <1>4

LEMMA RelayStep == RelayInv /\ [Next]_vars => RelayInv'
<1> SUFFICES ASSUME RelayInv, Next PROVE RelayInv'
  BY NothingMoves
<1>1. ASSUME NEW f \in Forwarders, InsertLease(f) \/ Run(f) \/ Bind(f) PROVE RelayInv'
  BY <1>1, TableStep, HandleStep DEF Run
<1>2. CASE Lose
  <2>1. PICK d \in net : net' = net \ {d}
    BY <1>2 DEF Lose
  <2>2. UNCHANGED <<clock, minted, path, issued, table, sent, got>>
    BY <1>2 DEF Lose
  <2>3. /\ sent' \in [Clients -> 0..MaxSends] /\ NoCrossTalk'
        /\ got' \subseteq [at : Clients \cup Exits, body : Payload]
    BY <2>2 DEF RelayInv, TypeOK, NoCrossTalk
  <2> QED BY <2>1, <2>2, <2>3, NetMoves
<1>3. CASE PassTime
  <2>1. clock' \in 0..MaxClock /\ UNCHANGED <<minted, path, issued, table, net, sent, got>>
    BY <1>3, ClockType DEF PassTime, RelayInv, TypeOK
  <2>2. TypeOK'
    BY <2>1 DEF RelayInv, TypeOK
  <2> QED
    BY <2>1, <2>2 DEF RelayInv, LeasesApart, RowsLeased, PathLeased, Direct, Relayed, NoCrossTalk
<1> QED
  BY <1>1, <1>2, <1>3, AssembleStep, EncodeStep, DecodeStep, AnswerStep DEF Next

LEMMA RelayInvariant == Spec => []RelayInv
<1>1. Init => RelayInv
  <2> SUFFICES ASSUME Init PROVE RelayInv
    OBVIOUS
  <2>1. TypeOK
    BY ClockType DEF Init, TypeOK
  <2> QED BY <2>1 DEF Init, RelayInv, LeasesApart, RowsLeased, NoCrossTalk
<1> QED BY <1>1, RelayStep, PTL DEF Spec

\* Every reachable state is well typed.
THEOREM TypeCorrect == Spec => []TypeOK
BY RelayInvariant, PTL DEF RelayInv

\* A payload surfaces only at the client and the exit its session was assembled for, whatever was
\* lost, repeated, delayed or assembled anew in between, and however long the chains are.
THEOREM ChainsApart == Spec => []NoCrossTalk
BY RelayInvariant, PTL DEF RelayInv

\* A forwarder emits nothing that no lease of its own covers at that moment.
THEOREM ForwardsLeased == Spec => OnlyLeasedForwards
<1> DEFINE Covered(d) ==
             \E lease \in issued :
              /\ lease.forwarder = d.src /\ lease.chain = d.chain
              /\ lease.expires >= clock
              /\ \/ d.dst = lease.dst /\ \E o \in net : o.src = lease.src /\ o.body = d.body
                 \/ d.dst = lease.src /\ \E o \in net : o.src = lease.dst /\ o.body = d.body
           Step == \A d \in net' \ net : d.src \in Forwarders => Covered(d)
<1>1. RelayInv /\ [Next]_vars => [Step]_vars
  <2> SUFFICES ASSUME RelayInv, Next PROVE Step
    OBVIOUS
  <2>1. CASE net' \subseteq net
    BY <2>1
  <2>2. ASSUME NEW c \in Clients, Encode(c) PROVE Step
    <3>1. \A d \in net' \ net : d.src = c
      BY <2>2 DEF Encode
    <3> QED BY <3>1, RolesAssumption
  <2>3. ASSUME NEW e \in Exits, Answer(e) PROVE Step
    <3>1. \A d \in net' \ net : d.src = e
      BY <2>3 DEF Answer
    <3> QED BY <3>1, RolesAssumption
  <2>4. ASSUME NEW f \in Forwarders, HandleInbound(f) PROVE Step
    <3>0. PICK o \in net :
            \E decision \in Decisions(f, o) :
                \/ decision.forward /\ net' = net \cup {[o EXCEPT !.src = f, !.dst = decision.target]}
                \/ net' = net
      BY <2>4 DEF HandleInbound
    <3>1. PICK decision \in Decisions(f, o) :
            \/ decision.forward /\ net' = net \cup {[o EXCEPT !.src = f, !.dst = decision.target]}
            \/ net' = net
      BY <3>0
    <3> SUFFICES ASSUME decision.forward,
                        net' = net \cup {[o EXCEPT !.src = f, !.dst = decision.target]}
                 PROVE  Step
      BY <2>1, <3>1
    <3>2. PICK row \in table[f] :
                /\ row.chain = o.chain /\ ~Expired(row)
                /\ \/ o.src = row.src /\ decision.target = row.dst
                   \/ o.src = row.dst /\ decision.target = row.src
      BY Forwarded
    <3>3. PICK l \in issued : l.forwarder = f /\ row = EntryOf(l)
      BY DEF RelayInv, RowsLeased
    <3>4. /\ l \in Lease /\ l.chain = o.chain /\ l.expires = row.expires
          /\ \/ o.src = l.src /\ decision.target = l.dst
             \/ o.src = l.dst /\ decision.target = l.src
      BY <3>2, <3>3, EntryType DEF RelayInv, TypeOK
    <3>5. l.expires >= clock
      <4>1. l.expires \in Int /\ clock \in Int
        BY <3>4, ClockType DEF Lease, RelayInv, TypeOK
      <4> QED BY <3>2, <3>4, <4>1 DEF Expired
    <3> DEFINE m == Moved(o, f, decision.target)
    <3>6. o \in Datagram /\ f \in Addr /\ decision.target \in Addr
      BY <3>4 DEF Addr, Lease, RelayInv, TypeOK
    <3>7. /\ m.src = f /\ m.dst = decision.target /\ m.chain = o.chain /\ m.body = o.body
      BY <3>6, MovedType
    <3> HIDE DEF m
    <3>8. Covered(m)
      BY <3>3, <3>4, <3>5, <3>7
    <3>9. net' \subseteq net \cup {m}
      BY DEF m, Moved
    <3> HIDE DEF Covered
    <3> QED BY <3>8, <3>9
  <2> QED
    BY <2>1, <2>2, <2>3, <2>4
    DEF Next, Assemble, Decode, InsertLease, Run, Sweep, Bind, Lose, PassTime
<1> QED BY <1>1, RelayInvariant, PTL DEF Spec, OnlyLeasedForwards
=============================================================================
