----------------------------- MODULE NodeProofs -----------------------------
(* Proofs about the two halves of a node.                                   *)
(*                                                                          *)
(* Node, for any number of coordinators, callers and permits and any span   *)
(* of the cursor: a sweep that gives up is complete, and the accept loop's  *)
(* permits are conserved.                                                   *)
(*                                                                          *)
(* ExitTables, for any tasks, peers, rates and packet sizes: no counted     *)
(* byte is lost, no key and no session exceeds its rate, and a rotation     *)
(* leaves each task at most one late charge.                                *)
EXTENDS Node, ExitTables, FiniteSetTheorems, TLAPS

-----------------------------------------------------------------------------
(* Modular arithmetic                                                      *)

\* A remainder is below the modulus.
LEMMA RemainderInRange == ASSUME NEW a \in Nat, NEW n \in Nat \ {0} PROVE a % n \in 0..n - 1
  BY Z3

\* One turn around the modulus changes nothing.
LEMMA OneTurn ==
  ASSUME NEW n \in Nat \ {0}, NEW a \in 0..n - 1
  PROVE a % n = a /\ (a + n) % n = a
  BY Z3

-----------------------------------------------------------------------------
(* The pool                                                                *)

\* Whom a sweep of n requests from start has asked.
Swept(start, n) == {(start + k) % PoolLen : k \in 0..n - 1}

\* A sweep under way has asked exactly the coordinators from its own start on; where the
\* cursor is by now plays no part.  SweepIsComplete alone is not inductive: the last request
\* completes it only because the earlier ones are known.
SweepInv ==
    /\ PoolTypeOK
    /\ \A c \in Callers :
        /\ call[c].pc = "trying" => call[c].asked = Swept(call[c].start, call[c].offset)
        /\ call[c].pc = "exhausted" => call[c].asked = Coordinators

\* A sweep of PoolLen requests asks everyone, wherever it starts.
LEMMA FullSweep == ASSUME NEW start \in Coordinators PROVE Swept(start, PoolLen) = Coordinators
<1> USE PoolAssumption DEF Coordinators
<1>1. ASSUME NEW i \in Coordinators PROVE i \in Swept(start, PoolLen)
  <2>1. CASE start <= i
    <3>1. i - start \in 0..PoolLen - 1 /\ start + (i - start) = i
      BY <2>1
    <3>2. (start + (i - start)) % PoolLen = i
      BY <3>1, OneTurn
    <3>3. QED
      BY <3>1, <3>2 DEF Swept
  <2>2. CASE start > i
    <3>1. i + PoolLen - start \in 0..PoolLen - 1 /\ start + (i + PoolLen - start) = i + PoolLen
      BY <2>2
    <3>2. (start + (i + PoolLen - start)) % PoolLen = i
      BY <3>1, OneTurn
    <3>3. QED
      BY <3>1, <3>2 DEF Swept
  <2>3. QED
    BY <2>1, <2>2
<1>2. ASSUME NEW i \in Swept(start, PoolLen) PROVE i \in Coordinators
  <2>1. PICK k \in 0..PoolLen - 1 : i = (start + k) % PoolLen
    BY DEF Swept
  <2>2. start + k \in Nat
    BY <2>1
  <2>3. QED
    BY <2>1, <2>2, RemainderInRange
<1>3. QED
  BY <1>1, <1>2

\* The next request adds the next coordinator.
LEMMA NextSwept ==
  ASSUME NEW start \in Coordinators, NEW n \in Nat
  PROVE Swept(start, n) \cup {(start + n) % PoolLen} = Swept(start, n + 1)
<1>1. 0..(n + 1) - 1 = (0..n - 1) \cup {n}
  OBVIOUS
<1>2. QED
  BY <1>1, Zenon DEF Swept

\* Initially nobody calls.
LEMMA SweepInit == PoolInit => SweepInv
<1> SUFFICES ASSUME PoolInit PROVE SweepInv
  OBVIOUS
<1>1. 0 \in Coordinators /\ 0 \in 0..Span - 1
  BY PoolAssumption DEF Coordinators
<1>2. QED
  BY <1>1 DEF PoolInit, SweepInv, PoolTypeOK, NoCall, Call

\* try_each takes its start and has asked nobody.
LEMMA StartSweeps == ASSUME NEW c \in Callers, SweepInv, StartCall(c) PROVE SweepInv'
<1> USE PoolAssumption
<1>1. cursor \in Nat /\ StartAt \in Coordinators /\ cursor' \in 0..Span - 1
  <2>1. cursor \in Nat /\ cursor + 1 \in Nat
    BY DEF SweepInv, PoolTypeOK
  <2>2. cursor % PoolLen \in 0..PoolLen - 1 /\ (cursor + 1) % Span \in 0..Span - 1
    BY <2>1, RemainderInRange
  <2>3. QED
    BY <2>1, <2>2 DEF StartCall, StartAt, Coordinators
<1>2. 0 \in Coordinators
  BY DEF Coordinators
<1> DEFINE new == [NoCall EXCEPT !.pc = "trying", !.start = StartAt]
<1>3. new.pc = "trying" /\ new.start = StartAt /\ new.offset = 0 /\ new.asked = {}
  BY DEF NoCall
<1>4. new \in Call
  BY <1>1, <1>2 DEF Call, NoCall
<1>5. call' = [call EXCEPT ![c] = new] /\ state' = state
  BY DEF StartCall
<1>6. Swept(StartAt, 0) = {}
  BY DEF Swept
<1>7. PoolTypeOK'
  BY <1>1, <1>4, <1>5 DEF SweepInv, PoolTypeOK
<1>8. call[c] \in Call /\ call'[c] = new /\ \A d \in Callers \ {c} : call'[d] = call[d]
  BY <1>5 DEF SweepInv, PoolTypeOK
<1> HIDE DEF new
<1>9. QED
  BY <1>3, <1>6, <1>7, <1>8 DEF SweepInv

\* A call is over, or never began.
LEMMA EndSweeps == ASSUME NEW c \in Callers, SweepInv, EndCall(c) PROVE SweepInv'
<1>1. 0 \in Coordinators
  BY PoolAssumption DEF Coordinators
<1>2. NoCall \in Call /\ NoCall.pc = "idle"
  BY <1>1 DEF NoCall, Call
<1>3. call' = [call EXCEPT ![c] = NoCall] /\ UNCHANGED <<cursor, state>>
  BY DEF EndCall
<1>4. \A d \in Callers : call'[d] = IF d = c THEN NoCall ELSE call[d]
  BY <1>3 DEF SweepInv, PoolTypeOK
<1>5. QED
  BY <1>2, <1>3, <1>4 DEF SweepInv, PoolTypeOK

\* One request of a sweep.
LEMMA AttemptSweeps == ASSUME NEW c \in Callers, SweepInv, Attempt(c) PROVE SweepInv'
<1> USE PoolAssumption
<1> DEFINE mine == call[c]
           asked == mine.asked \cup {Index(c)}
<1>1. mine \in Call /\ mine.pc = "trying" /\ mine.start \in Coordinators
      /\ mine.offset \in Coordinators /\ mine.asked = Swept(mine.start, mine.offset)
  BY DEF SweepInv, PoolTypeOK, Attempt, Call
<1>2. mine.start + mine.offset \in Nat /\ mine.offset \in Nat
  BY <1>1 DEF Coordinators
<1>3. Index(c) \in Coordinators
  BY <1>2, RemainderInRange DEF Index, Coordinators
<1>4. asked = Swept(mine.start, mine.offset + 1) /\ asked \subseteq Coordinators
  BY <1>1, <1>2, <1>3, NextSwept DEF Index, Call
<1> DEFINE next == [mine EXCEPT !.offset = @ + 1, !.asked = asked]
<1>5. \/ Becomes(c, [NoCall EXCEPT !.pc = "ok"])
      \/ Becomes(c, [NoCall EXCEPT !.pc = "refused"])
      \/ Last(c) /\ Becomes(c, [NoCall EXCEPT !.pc = "exhausted", !.asked = asked])
      \/ ~Last(c) /\ Becomes(c, next)
  BY DEF Attempt
<1>6. cursor' = cursor /\ state' = state
  BY DEF Attempt
<1>7. call \in [Callers -> Call] /\ 0 \in Coordinators
  BY DEF SweepInv, PoolTypeOK, Coordinators
<1>8. \A d \in Callers \ {c} : call'[d] = call[d]
  BY <1>5, <1>7 DEF Becomes
<1> SUFFICES
      /\ call'[c] \in Call /\ call' \in [Callers -> Call]
      /\ call'[c].pc = "trying" => call'[c].asked = Swept(call'[c].start, call'[c].offset)
      /\ call'[c].pc = "exhausted" => call'[c].asked = Coordinators
  BY <1>6, <1>8 DEF SweepInv, PoolTypeOK
<1> HIDE DEF mine, asked
<1>9. CASE Becomes(c, [NoCall EXCEPT !.pc = "ok"]) \/ Becomes(c, [NoCall EXCEPT !.pc = "refused"])
  BY <1>9, <1>7 DEF Becomes, NoCall, Call, Results
<1>10. CASE Last(c) /\ Becomes(c, [NoCall EXCEPT !.pc = "exhausted", !.asked = asked])
  <2>1. mine.offset + 1 = PoolLen
    BY <1>10 DEF Last, mine
  <2>2. asked = Coordinators
    BY <2>1, <1>1, <1>4, FullSweep
  <2>3. QED
    BY <2>2, <1>7, <1>10 DEF Becomes, NoCall, Call, Results
<1>11. CASE ~Last(c) /\ Becomes(c, next)
  <2>1. mine.offset + 1 \in Coordinators
    BY <1>11, <1>1 DEF Last, mine, Coordinators
  <2>2. next \in Call /\ next.start = mine.start /\ next.offset = mine.offset + 1
        /\ next.asked = asked /\ next.pc = "trying"
    BY <2>1, <1>1, <1>4 DEF Call
  <2> HIDE DEF next
  <2>3. call'[c] = next /\ call' \in [Callers -> Call]
    BY <2>2, <1>7, <1>11 DEF Becomes
  <2>4. QED
    BY <2>2, <2>3, <1>4
<1>12. QED
  BY <1>5, <1>9, <1>10, <1>11

\* A coordinator that fails or comes back.
LEMMA TurnSweeps == ASSUME SweepInv, Turn PROVE SweepInv'
  BY DEF SweepInv, PoolTypeOK, Turn

\* A step of the node is a step of the pool, or leaves it alone.
LEMMA NodeStepsThePool ==
  ASSUME [NodeNext]_nodeVars
  PROVE Turn \/ (\E c \in Callers : StartCall(c) \/ Attempt(c) \/ EndCall(c))
        \/ UNCHANGED poolVars
<1> USE ReceiverAssumption, SocketsAssumption, RegistrarAssumption
<1>1. CASE Begin \/ Ask \/ Finish \/ Verify
  BY <1>1 DEF Begin, Ask, Finish, Verify, Return, socketVars
<1>2. CASE SocketNext
  BY <1>2 DEF SocketNext, Opening, OpenSession, SessionOpens, OpenFails, OpenRefused, Return,
              Event, StreamEnds, Handled, BackoffOver, ReceiverCancelled, Trigger
<1>3. CASE Quic!Next /\ UNCHANGED <<poolVars, rx, registrar>>
  BY <1>3
<1>4. CASE UNCHANGED nodeVars
  BY <1>4 DEF nodeVars, socketVars
<1>5. QED
  BY <1>1, <1>2, <1>3, <1>4 DEF NodeNext

\* See SweepInv.
LEMMA SweepInvariant == NodeSpec => []SweepInv
<1>1. NodeInit => SweepInv
  BY SweepInit DEF NodeInit, SocketInit
<1>2. SweepInv /\ [NodeNext]_nodeVars => SweepInv'
  <2> SUFFICES ASSUME SweepInv, [NodeNext]_nodeVars PROVE SweepInv'
    OBVIOUS
  <2>1. CASE UNCHANGED poolVars
    BY <2>1 DEF poolVars, SweepInv, PoolTypeOK
  <2>2. QED
    BY <2>1, NodeStepsThePool, StartSweeps, AttemptSweeps, EndSweeps, TurnSweeps
<1>3. QED
  BY <1>1, <1>2, PTL DEF NodeSpec

\* Whoever else uses the pool in between, a call that reports an outage has asked every
\* coordinator (bibeam-discovery/src/failover.rs, try_each).
THEOREM SweepsComplete == NodeSpec => []EveryCoordinatorAsked
<1>1. SweepInv => EveryCoordinatorAsked
  BY DEF SweepInv, EveryCoordinatorAsked, SweepIsComplete
<1>2. QED
  BY <1>1, SweepInvariant, PTL

-----------------------------------------------------------------------------
(* The accept loop                                                         *)

\* The permits that are out are those of the running tasks and of the connection about to be
\* spawned, and nothing is granted after the cancellation.
ServerInv ==
    /\ handshaking \in Nat /\ handling \in Nat /\ permits \in Nat /\ late \in Nat
    /\ PermitsConserved
    /\ AtMostOneLate
    /\ ~cancelled => late = 0
    /\ loop = "spawning" => late = 0

\* One step of the loop or of a task.
LEMMA ServerStep == ASSUME ServerInv, Quic!Next PROVE ServerInv'
<1> USE DEF ServerInv, PermitsConserved, Quic!PermitsConserved, AtMostOneLate, Quic!AtMostOneLate,
            Quic!Running, Quic!Goto, Quic!NotCancelled
<1>1. CASE Quic!Accept
  BY <1>1 DEF Quic!Accept
<1>2. CASE Quic!Acquire
  BY <1>2 DEF Quic!Acquire
<1>3. CASE Quic!Spawn
  BY <1>3 DEF Quic!Spawn
<1>4. CASE Quic!LoopCancelled
  BY <1>4 DEF Quic!LoopCancelled
<1>5. CASE Quic!EndpointCloses
  BY <1>5 DEF Quic!EndpointCloses
<1>6. CASE Quic!HandshakeDone
  BY <1>6 DEF Quic!HandshakeDone
<1>7. CASE Quic!HandshakeFails
  BY <1>7 DEF Quic!HandshakeFails
<1>8. CASE Quic!HandlerReturns
  BY <1>8 DEF Quic!HandlerReturns, Quic!Returned
<1>9. QED
  BY <1>1, <1>2, <1>3, <1>4, <1>5, <1>6, <1>7, <1>8 DEF Quic!Next, Quic!Loop, Quic!Tasks

\* The rest of the node only ever sets the token.
LEMMA OthersKeepServer ==
  ASSUME ServerInv, UNCHANGED quicVars, cancelled' = cancelled \/ cancelled' = TRUE
  PROVE ServerInv'
  BY DEF ServerInv, quicVars, PermitsConserved, Quic!PermitsConserved, AtMostOneLate,
         Quic!AtMostOneLate, Quic!Running

\* See ServerInv.
LEMMA ServerInvariant == NodeSpec => []ServerInv
<1>1. NodeInit => ServerInv
  BY BudgetAssumption DEF NodeInit, Quic!Init, ServerInv, PermitsConserved,
     Quic!PermitsConserved, AtMostOneLate, Quic!AtMostOneLate, Quic!Running
<1>2. SocketNext => cancelled' = cancelled \/ cancelled' = TRUE
  BY DEF SocketNext, Opening, OpenSession, SessionOpens, OpenFails, OpenRefused, Event,
         StreamEnds, Handled, BackoffOver, ReceiverCancelled, Trigger
<1>3. ServerInv /\ [NodeNext]_nodeVars => ServerInv'
  <2> SUFFICES ASSUME ServerInv, [NodeNext]_nodeVars PROVE ServerInv'
    OBVIOUS
  <2>1. CASE Begin \/ Ask \/ Finish \/ Verify
    BY <2>1, OthersKeepServer DEF Begin, Ask, Finish, Verify, socketVars
  <2>2. CASE SocketNext /\ UNCHANGED <<registrar, quicVars>>
    BY <2>2, <1>2, OthersKeepServer
  <2>3. CASE Quic!Next
    BY <2>3, ServerStep
  <2>4. CASE UNCHANGED nodeVars
    BY <2>4, OthersKeepServer DEF nodeVars, socketVars
  <2>5. QED
    BY <2>1, <2>2, <2>3, <2>4 DEF NodeNext
<1>4. QED
  BY <1>1, <1>3, PTL DEF NodeSpec

\* The semaphore always accounts for its whole budget (bibeam-node/src/quic_server.rs).
THEOREM PermitsHold == NodeSpec => []PermitsConserved
  BY ServerInvariant, PTL DEF ServerInv

\* At most one connection is started after the cancellation.
THEOREM LateHolds == NodeSpec => []AtMostOneLate
  BY ServerInvariant, PTL DEF ServerInv

-----------------------------------------------------------------------------
(* Types                                                                   *)

\* What SweepInv and ServerInv do not type.
Control ==
    /\ rx \in RX /\ cancelled \in BOOLEAN
    /\ registrar \in RegistrarStates
    /\ loop \in Quic!LoopStates

\* Every handler leaves its program counter at a point it has.
LEMMA ControlStep == Control /\ [NodeNext]_nodeVars => Control'
<1> SUFFICES ASSUME Control, [NodeNext]_nodeVars PROVE Control'
  OBVIOUS
<1>1. CASE Begin \/ Ask
  BY <1>1 DEF Control, Begin, Ask, quicVars, RegistrarStates
<1>2. CASE Finish \/ Verify
  <2>1. registrar' \in {"registered", "out", "unverified"}
    BY <1>2 DEF Finish, Verify, Acknowledged
  <2>2. rx' = rx /\ cancelled' = cancelled /\ loop' = loop
    BY <1>2 DEF Finish, Verify, quicVars, socketVars
  <2>3. QED
    BY <2>1, <2>2 DEF Control, RegistrarStates
<1>3. CASE SocketNext /\ UNCHANGED <<registrar, quicVars>>
  BY <1>3 DEF Control, quicVars, RX, Goto, SocketNext, Opening, OpenSession, SessionOpens,
              OpenFails, OpenRefused, Event, StreamEnds, Handled, BackoffOver,
              ReceiverCancelled, Trigger, RouteEvent,
              ClassifyStreamEnd, AfterHandler
<1>4. CASE Quic!Next /\ UNCHANGED <<poolVars, rx, registrar>>
  BY <1>4 DEF Control, Quic!LoopStates, Quic!RunResults, Quic!Next, Quic!Loop, Quic!Tasks, Quic!Goto, Quic!Accept, Quic!Acquire,
              Quic!Spawn, Quic!LoopCancelled, Quic!EndpointCloses, Quic!HandshakeDone,
              Quic!HandshakeFails, Quic!HandlerReturns
<1>5. CASE UNCHANGED nodeVars
  BY <1>5 DEF Control, nodeVars, socketVars, quicVars
<1>6. QED
  BY <1>1, <1>2, <1>3, <1>4, <1>5 DEF NodeNext

\* Every reachable state is well typed; in particular the permits stay between none and all.
THEOREM TypeCorrect == NodeSpec => []NodeTypeOK
<1>1. NodeInit => Control
  BY DEF NodeInit, SocketInit, Quic!Init, Control, RX, RegistrarStates, Quic!LoopStates
<1>2. NodeSpec => []Control
  BY <1>1, ControlStep, PTL DEF NodeSpec
<1>3. ServerInv => {handshaking, handling, permits} \subseteq 0..MaxConns
  BY BudgetAssumption DEF ServerInv, PermitsConserved, Quic!PermitsConserved, Quic!Running
<1>4. SweepInv /\ ServerInv /\ Control => NodeTypeOK
  BY <1>3 DEF SweepInv, ServerInv, Control, NodeTypeOK, SocketTypeOK, Quic!TypeOK
<1>5. QED
  BY <1>2, <1>4, SweepInvariant, ServerInvariant, PTL

-----------------------------------------------------------------------------
(* The packet tables of an exit                                            *)

\* A task with a packet has all the fields of one; every task has a cohort.
LEMMA WorkingTask ==
    ASSUME TablesTypeOK, NEW t \in Tasks
    PROVE  /\ task[t].at # "idle" => task[t] \in Packet
           /\ task[t].at = "idle" => task[t] \in Between
           /\ task[t].cohort \in Cohorts
BY DEF TablesTypeOK, Packet, Between

\* A packet goes on to its next place, or its task is done with it.
LEMMA GoesType ==
    ASSUME TablesTypeOK, NEW t \in Tasks, task[t].at # "idle",
           NEW at \in {"cohort", "peer", "bytes", "clock", "touch", "add", "stamp"}, Goes(t, at)
    PROVE  /\ task' \in [Tasks -> Packet \cup Between]
           /\ task'[t].at = at /\ task'[t].peer = task[t].peer
           /\ task'[t].cohort = task[t].cohort
           /\ \A u \in Tasks \ {t} : task'[u] = task[u]
<1>1. task[t] \in Packet
  BY WorkingTask
<1> DEFINE new == [task[t] EXCEPT !.at = at]
<1>2. /\ new \in Packet /\ new.at = at /\ new.peer = task[t].peer /\ new.cohort = task[t].cohort
  BY <1>1 DEF Packet
<1>3. task' = [task EXCEPT ![t] = new]
  BY DEF Goes, TablesTypeOK
<1> HIDE DEF new
<1> QED BY <1>2, <1>3 DEF TablesTypeOK

LEMMA FinishesType ==
    ASSUME TablesTypeOK, NEW t \in Tasks, Finishes(t)
    PROVE  /\ task' \in [Tasks -> Packet \cup Between]
           /\ task'[t].at = "idle"
           /\ \A u \in Tasks \ {t} : task'[u] = task[u]
<1>1. [Idle EXCEPT !.cohort = task[t].cohort] \in Between
  BY WorkingTask DEF Idle, Between
<1>2. [Idle EXCEPT !.cohort = task[t].cohort].at = "idle"
  BY DEF Idle
<1> QED BY <1>1, <1>2 DEF Finishes, TablesTypeOK

\* The key that a packet is checked by is the key of a limiter.
LEMMA KeyType ==
    ASSUME TablesTypeOK, NEW t \in Tasks, task[t].at \in Scopes
    PROVE  Key(t) \in Keys
BY WorkingTask DEF Scopes, Key, Keys, Packet

\* Spending one cell of a limiter.
LEMMA CellSpent ==
    ASSUME TablesTypeOK, NEW l \in 1..Len(cells), cells[l] # 0,
           cells' = [cells EXCEPT ![l] = @ - 1]
    PROVE  /\ cells' \in Seq(0..Pps) /\ Len(cells') = Len(cells)
           /\ cells'[l] = cells[l] - 1 /\ \A m \in 1..Len(cells) \ {l} : cells'[m] = cells[m]
<1>1. cells \in Seq(0..Pps) /\ Pps \in Nat /\ cells[l] \in 0..Pps
  BY QuotaAssumption DEF TablesTypeOK
<1>2. cells[l] - 1 \in 0..Pps
  BY <1>1
<1> QED BY <1>1, <1>2

\* Whatever is entered in the ledger leaves it one.
LEMMA PassEntered ==
    ASSUME NEW led \in Ledger, NEW k \in Keys, NEW n \in Nat
    PROVE  [led EXCEPT !.passed[k] = @ + 1, !.late = @ + n] \in Ledger
<1>1. [led.passed EXCEPT ![k] = @ + 1] \in [Keys -> Nat] /\ led.late + n \in Nat
  BY DEF Ledger
<1>2. [led EXCEPT !.passed = [led.passed EXCEPT ![k] = @ + 1], !.late = led.late + n] \in Ledger
  BY <1>1 DEF Ledger
<1> QED BY <1>2 DEF Ledger

LEMMA BytesEntered ==
    ASSUME NEW led \in Ledger, NEW p \in Peers, NEW n \in Nat
    PROVE  /\ [led EXCEPT !.packets = @ + 1] \in Ledger
           /\ [led EXCEPT !.bytes[p] = @ + n] \in Ledger
           /\ [led EXCEPT !.touched[p] = @ + n] \in Ledger
           /\ [led EXCEPT !.retired[p] = @ + n] \in Ledger
<1>1. [led EXCEPT !.packets = @ + 1] \in Ledger
  BY DEF Ledger
<1>2. [led EXCEPT !.bytes[p] = @ + n] \in Ledger
  BY DEF Ledger
<1>3. [led EXCEPT !.touched[p] = @ + n] \in Ledger
  BY DEF Ledger
<1>4. [led EXCEPT !.retired[p] = @ + n] \in Ledger
  BY DEF Ledger
<1> QED BY <1>1, <1>2, <1>3, <1>4

LEMMA TablesStep == TablesTypeOK /\ [TablesNext]_tableVars => TablesTypeOK'
<1> SUFFICES ASSUME TablesTypeOK, [TablesNext]_tableVars PROVE TablesTypeOK'
  OBVIOUS
<1> USE QuotaAssumption, TablesBounds
<1>1. ASSUME NEW t \in Tasks, Arrive(t) PROVE TablesTypeOK'
  <2>1. PICK p \in Peers, n \in Sizes :
           task' = [task EXCEPT ![t] = [at |-> "cohort", cohort |-> CurrentCohort(t), peer |-> p,
                                        size |-> n, have |-> FALSE, now |-> 0]]
    BY <1>1 DEF Arrive
  <2>2. [at |-> "cohort", cohort |-> CurrentCohort(t), peer |-> p, size |-> n, have |-> FALSE,
         now |-> 0] \in Packet
    BY DEF TablesTypeOK, Packet, CurrentCohort
  <2>3. task' \in [Tasks -> Packet \cup Between]
    BY <2>1, <2>2 DEF TablesTypeOK
  <2>4. ledger \in Ledger /\ ledger' = [ledger EXCEPT !.packets = @ + 1]
    BY <1>1 DEF Arrive, TablesTypeOK
  <2>5. ledger' \in Ledger
    BY <2>1, <2>4, BytesEntered
  <2> QED BY <1>1, <2>3, <2>5 DEF Arrive, TablesTypeOK
<1>2. ASSUME NEW t \in Tasks, Lookup(t) PROVE TablesTypeOK'
  <2>1. task[t].at \in Scopes /\ UNCHANGED <<clock, active, rotations, budget, flow, lock, sweep, ledger>>
    BY <1>2 DEF Lookup, MissThenInsert
  <2>2. task[t] \in Packet /\ Key(t) \in Keys
    BY <2>1, WorkingTask, KeyType DEF Scopes
  <2>3. task' \in [Tasks -> Packet \cup Between]
    <3>1. PICK have \in BOOLEAN : task' = [task EXCEPT ![t].have = have]
      BY <1>2 DEF Lookup, MissThenInsert
    <3>2. [task[t] EXCEPT !.have = have] \in Packet
      BY <2>2 DEF Packet
    <3> QED BY <3>1, <3>2 DEF TablesTypeOK
  <2>4. CASE UNCHANGED <<limiter, cells>>
    BY <2>1, <2>3, <2>4 DEF TablesTypeOK
  <2>5. CASE /\ limiter' = [k \in DOMAIN limiter \cup {Key(t)} |->
                               IF k = Key(t) THEN Len(cells) + 1 ELSE limiter[k]]
             /\ cells' = Append(cells, Pps)
    <3>1. cells' \in Seq(0..Pps) /\ Len(cells') = Len(cells) + 1 /\ Len(cells) \in Nat
      BY <2>5 DEF TablesTypeOK
    <3>2. DOMAIN limiter' \subseteq Keys
      BY <2>2, <2>5 DEF TablesTypeOK
    <3>3. \A k \in DOMAIN limiter' : limiter'[k] \in 1..Len(cells')
      BY <2>5, <3>1 DEF TablesTypeOK
    <3> QED BY <2>1, <2>3, <3>1, <3>2, <3>3 DEF TablesTypeOK
  <2> QED BY <1>2, <2>4, <2>5 DEF Lookup, MissThenInsert, Insert
<1>3. ASSUME NEW t \in Tasks, Check(t) PROVE TablesTypeOK'
  <2>1. /\ task[t].at \in Scopes /\ Key(t) \in DOMAIN limiter
        /\ UNCHANGED <<clock, active, rotations, limiter, budget, flow, lock, sweep>>
    BY <1>3 DEF Check
  <2>2. limiter[Key(t)] \in 1..Len(cells) /\ Key(t) \in Keys
    BY <2>1, KeyType DEF TablesTypeOK
  <2>3. CASE Finishes(t) /\ UNCHANGED <<cells, ledger>>
    BY <2>1, <2>3, FinishesType DEF TablesTypeOK
  <2>4. CASE cells[limiter[Key(t)]] # 0
    <3>1. cells' = [cells EXCEPT ![limiter[Key(t)]] = @ - 1]
      BY <1>3, <2>4 DEF Check
    <3>2. cells' \in Seq(0..Pps) /\ Len(cells') = Len(cells)
      BY <2>2, <2>4, <3>1, CellSpent
    <3>3. PICK extra \in {0, 1} : ledger' = [ledger EXCEPT !.passed[Key(t)] = @ + 1, !.late = @ + extra]
      BY <1>3, <2>4 DEF Check
    <3>4. ledger' \in Ledger
      BY <2>2, <3>3, PassEntered DEF TablesTypeOK
    <3>5. PICK at \in {"peer", "bytes"} : Goes(t, at)
      BY <1>3, <2>4 DEF Check
    <3>6. task' \in [Tasks -> Packet \cup Between]
      BY <2>1, <3>5, GoesType DEF Scopes
    <3> QED BY <2>1, <3>2, <3>4, <3>6 DEF TablesTypeOK
  <2> QED BY <1>3, <2>3, <2>4 DEF Check
<1>4. ASSUME NEW t \in Tasks, CheckBytes(t) PROVE TablesTypeOK'
  <2>1. task[t].at = "bytes" /\ task[t] \in Packet
        /\ UNCHANGED <<clock, active, rotations, limiter, cells, flow, lock, sweep>>
    BY <1>4, WorkingTask DEF CheckBytes
  <2>2. CASE Finishes(t) /\ UNCHANGED <<budget, ledger>>
    BY <2>1, <2>2, FinishesType DEF TablesTypeOK
  <2>3. CASE /\ WithinBudget(task[t].peer, task[t].size)
             /\ budget' = [budget EXCEPT ![task[t].peer] = @ - task[t].size]
             /\ ledger' = [ledger EXCEPT !.bytes[task[t].peer] = @ + task[t].size]
             /\ Goes(t, "clock")
    <3>1. task[t].peer \in Peers /\ task[t].size \in Nat
      BY <2>1 DEF Packet
    <3>2. budget' \in [Peers -> 0..Bps]
      <4>1. budget \in [Peers -> 0..Bps] /\ budget[task[t].peer] \in 0..Bps
        BY <3>1 DEF TablesTypeOK
      <4>2. budget[task[t].peer] - task[t].size \in 0..Bps
        BY <2>3, <3>1, <4>1 DEF WithinBudget
      <4> QED BY <2>3, <4>1, <4>2
    <3>3. ledger' \in Ledger
      BY <2>3, <3>1, BytesEntered DEF TablesTypeOK
    <3>4. task' \in [Tasks -> Packet \cup Between]
      BY <2>1, <2>3, GoesType
    <3> QED BY <2>1, <3>2, <3>3, <3>4 DEF TablesTypeOK
  <2> QED BY <1>4, <2>2, <2>3 DEF CheckBytes
<1>5. ASSUME NEW t \in Tasks, ReadClock(t) PROVE TablesTypeOK'
  <2>1. task[t] \in Packet /\ clock \in 0..MaxClock
    BY <1>5, WorkingTask DEF ReadClock, TablesTypeOK
  <2>2. [task[t] EXCEPT !.at = "touch", !.now = clock] \in Packet
    BY <2>1 DEF Packet
  <2>3. task' = [task EXCEPT ![t] = [task[t] EXCEPT !.at = "touch", !.now = clock]]
    BY <1>5 DEF ReadClock, TablesTypeOK
  <2> QED BY <1>5, <2>2, <2>3 DEF ReadClock, TablesTypeOK
<1>6. ASSUME NEW t \in Tasks, TouchEnter(t) PROVE TablesTypeOK'
  <2>1. task[t].at = "touch" /\ task[t] \in Packet /\ task[t].peer \in Peers
    BY <1>6, WorkingTask DEF TouchEnter, Packet
  <2>2. task' \in [Tasks -> Packet \cup Between]
    BY <1>6, <2>1, GoesType DEF TouchEnter
  <2>3. NewFlowState \in [bytes : Nat, last_seen : 0..MaxClock]
    BY DEF NewFlowState
  <2>4. DOMAIN flow' \subseteq Peers
        /\ \A f \in DOMAIN flow' : flow'[f] \in [bytes : Nat, last_seen : 0..MaxClock]
    BY <1>6, <2>1, <2>3 DEF TouchEnter, TablesTypeOK
  <2>5. lock' \in [Peers -> Tasks \cup {NoLock}]
    BY <1>6, <2>1 DEF TouchEnter, TablesTypeOK
  <2> QED BY <1>6, <2>2, <2>4, <2>5 DEF TouchEnter, TablesTypeOK
<1>7. ASSUME NEW t \in Tasks, TouchAdd(t) PROVE TablesTypeOK'
  <2>1. task[t].at = "add" /\ task[t] \in Packet /\ task[t].peer \in Peers /\ task[t].size \in Nat
    BY <1>7, WorkingTask DEF TouchAdd, Packet
  <2>2. task' \in [Tasks -> Packet \cup Between]
    BY <1>7, <2>1, GoesType DEF TouchAdd
  <2>3. DOMAIN flow' \subseteq Peers
        /\ \A f \in DOMAIN flow' : flow'[f] \in [bytes : Nat, last_seen : 0..MaxClock]
    <3>1. CASE flow' = flow
      BY <3>1 DEF TablesTypeOK
    <3>2. CASE flow' = [flow EXCEPT ![task[t].peer].bytes = @ + task[t].size]
      <4>1. DOMAIN flow' = DOMAIN flow
        BY <3>2
      <4>2. \A f \in DOMAIN flow : flow'[f] \in {flow[f], [flow[f] EXCEPT !.bytes = @ + task[t].size]}
        BY <3>2
      <4>3. \A r \in [bytes : Nat, last_seen : 0..MaxClock] :
               [r EXCEPT !.bytes = @ + task[t].size] \in [bytes : Nat, last_seen : 0..MaxClock]
        BY <2>1
      <4> QED BY <4>1, <4>2, <4>3 DEF TablesTypeOK
    <3> QED BY <1>7, <3>1, <3>2 DEF TouchAdd
  <2>4. ledger' \in Ledger
    <3>1. ledger' = [ledger EXCEPT !.touched[task[t].peer] = @ + task[t].size]
      BY <1>7 DEF TouchAdd
    <3> QED BY <2>1, <3>1, BytesEntered DEF TablesTypeOK
  <2> QED BY <1>7, <2>2, <2>3, <2>4 DEF TouchAdd, TablesTypeOK
<1>8. ASSUME NEW t \in Tasks, TouchStamp(t) PROVE TablesTypeOK'
  <2>1. task[t] \in Packet /\ task[t].peer \in Peers /\ task[t].now \in 0..MaxClock
    BY <1>8, WorkingTask DEF TouchStamp, Packet
  <2>2. task' \in [Tasks -> Packet \cup Between]
    BY <1>8, <2>1, FinishesType DEF TouchStamp
  <2>3. DOMAIN flow' \subseteq Peers
        /\ \A f \in DOMAIN flow' : flow'[f] \in [bytes : Nat, last_seen : 0..MaxClock]
    <3>1. CASE flow' = flow
      BY <3>1 DEF TablesTypeOK
    <3>2. CASE flow' = [flow EXCEPT ![task[t].peer].last_seen = task[t].now]
      <4>1. DOMAIN flow' = DOMAIN flow
        BY <3>2
      <4>2. \A f \in DOMAIN flow : flow'[f] \in {flow[f], [flow[f] EXCEPT !.last_seen = task[t].now]}
        BY <3>2
      <4>3. \A r \in [bytes : Nat, last_seen : 0..MaxClock] :
               [r EXCEPT !.last_seen = task[t].now] \in [bytes : Nat, last_seen : 0..MaxClock]
        BY <2>1
      <4> QED BY <4>1, <4>2, <4>3 DEF TablesTypeOK
    <3> QED BY <1>8, <3>1, <3>2 DEF TouchStamp
  <2>4. lock' \in [Peers -> Tasks \cup {NoLock}]
    BY <1>8, <2>1 DEF TouchStamp, TablesTypeOK
  <2> QED BY <1>8, <2>2, <2>3, <2>4 DEF TouchStamp, TablesTypeOK
<1>9. ASSUME NEW p \in Peers, GcRetains(p) PROVE TablesTypeOK'
  <2> DEFINE drop == p \in DOMAIN flow /\ flow[p].last_seen < sweep.cutoff
  <2>1. /\ flow' = [f \in DOMAIN flow \ (IF drop THEN {p} ELSE {}) |-> flow[f]]
        /\ ledger' = IF drop THEN [ledger EXCEPT !.retired[p] = @ + flow[p].bytes] ELSE ledger
        /\ sweep' = IF sweep.left = {p} THEN NoSweep ELSE [sweep EXCEPT !.left = @ \ {p}]
        /\ UNCHANGED <<clock, active, rotations, limiter, cells, budget, lock, task>>
    BY <1>9 DEF GcRetains
  <2>2. drop => p \in DOMAIN flow
    OBVIOUS
  <2> HIDE DEF drop
  <2>3. DOMAIN flow' \subseteq Peers
        /\ \A f \in DOMAIN flow' : flow'[f] \in [bytes : Nat, last_seen : 0..MaxClock]
    BY <2>1 DEF TablesTypeOK
  <2>4. ledger' \in Ledger
    <3>1. drop => flow[p].bytes \in Nat
      BY <2>2 DEF TablesTypeOK
    <3> QED BY <2>1, <3>1, BytesEntered DEF TablesTypeOK
  <2>5. sweep' \in [cutoff : 0..MaxClock, left : SUBSET Peers]
    <3>1. NoSweep \in [cutoff : 0..MaxClock, left : SUBSET Peers]
      BY DEF NoSweep
    <3> QED BY <2>1, <3>1 DEF TablesTypeOK
  <2> QED BY <2>1, <2>3, <2>4, <2>5 DEF TablesTypeOK
<1>10. CASE SwapTo
  BY <1>10 DEF SwapTo, TablesTypeOK, Cohorts
<1>11. CASE GcStarts
  <2>1. sweep' \in [cutoff : 0..MaxClock, left : SUBSET Peers]
    BY <1>11 DEF GcStarts, TablesTypeOK
  <2> QED BY <1>11, <2>1 DEF GcStarts, TablesTypeOK
<1>12. CASE Tick
  <2>1. cells' \in Seq(0..Pps) /\ Len(cells') = Len(cells)
    BY <1>12 DEF Tick, TablesTypeOK
  <2>2. budget' \in [Peers -> 0..Bps] /\ clock' \in 0..MaxClock
    BY <1>12 DEF Tick, TablesTypeOK
  <2> QED BY <1>12, <2>1, <2>2 DEF Tick, TablesTypeOK
<1>13. CASE UNCHANGED tableVars
  BY <1>13 DEF tableVars, TablesTypeOK
<1> QED
  BY <1>1, <1>2, <1>3, <1>4, <1>5, <1>6, <1>7, <1>8, <1>9, <1>10, <1>11, <1>12, <1>13 DEF TablesNext

LEMMA TablesStart == TablesInit => TablesTypeOK
<1> SUFFICES ASSUME TablesInit PROVE TablesTypeOK
  OBVIOUS
<1>1. Idle \in Between /\ 1 \in Cohorts
  BY QuotaAssumption DEF Idle, Between, Cohorts
<1>2. ledger \in Ledger
  BY DEF TablesInit, Ledger
<1>3. sweep \in [cutoff : 0..MaxClock, left : SUBSET Peers] /\ clock \in 0..MaxClock
  BY TablesBounds DEF TablesInit, NoSweep
<1>4. cells \in Seq(0..Pps) /\ limiter = <<>> /\ flow = <<>>
  BY QuotaAssumption DEF TablesInit
<1> QED BY <1>1, <1>2, <1>3, <1>4, QuotaAssumption DEF TablesInit, TablesTypeOK

\* Every reachable state of the tables has the shapes the code gives it.
THEOREM TablesTypeCorrect == TablesSpec => []TablesTypeOK
BY TablesStart, TablesStep, PTL DEF TablesSpec

-----------------------------------------------------------------------------
(* Counted bytes                                                           *)

\* A task between its lookup and the end of its touch holds the lock of its flow, and a flow
\* that is locked stays in the table: the guard that gc has to wait for is what makes the
\* bytes of the two atomics land in a flow that somebody will count.
Touching(t) == task[t].at \in {"add", "stamp"}
FlowInv ==
    /\ TablesTypeOK /\ BytesAccounted
    /\ \A t \in Tasks : Touching(t) => lock[task[t].peer] = t /\ task[t].peer \in DOMAIN flow

\* Steps that leave the flows, the locks and what was counted alone, and bring no task into its
\* touch.
LEMMA AwayKeepsFlows ==
    ASSUME FlowInv, TablesTypeOK', UNCHANGED <<flow, lock>>,
           ledger'.touched = ledger.touched, ledger'.retired = ledger.retired,
           \A t \in Tasks : Touching(t)' => task'[t] = task[t]
    PROVE  FlowInv'
BY DEF FlowInv, BytesAccounted, Touching

LEMMA FlowStep == FlowInv /\ [TablesNext]_tableVars => FlowInv'
<1> SUFFICES ASSUME FlowInv, [TablesNext]_tableVars PROVE FlowInv'
  OBVIOUS
<1>0. TablesTypeOK /\ TablesTypeOK'
  BY TablesStep DEF FlowInv
<1> USE QuotaAssumption, TablesBounds
<1>1. ASSUME NEW t \in Tasks, Arrive(t) \/ Lookup(t) \/ Check(t) \/ CheckBytes(t) \/ ReadClock(t)
      PROVE  FlowInv'
  <2>1. UNCHANGED <<flow, lock>>
    BY <1>1 DEF Arrive, Lookup, Check, CheckBytes, ReadClock
  <2>2. ledger'.touched = ledger.touched /\ ledger'.retired = ledger.retired
    <3>1. ledger \in Ledger
      BY <1>0 DEF TablesTypeOK
    <3> QED BY <1>1, <3>1 DEF Arrive, Lookup, Check, CheckBytes, ReadClock, Ledger
  <2>3. \A u \in Tasks \ {t} : task'[u] = task[u]
    BY <1>0, <1>1 DEF Arrive, Lookup, MissThenInsert, Check, CheckBytes, ReadClock, Goes, Finishes, TablesTypeOK
  <2>4. ~Touching(t)'
    <3>1. CASE Arrive(t)
      BY <1>0, <3>1 DEF Arrive, Touching, TablesTypeOK
    <3>2. CASE Lookup(t)
      <4>1. task[t].at \in Scopes /\ \E have \in BOOLEAN : task' = [task EXCEPT ![t].have = have]
        BY <3>2 DEF Lookup, MissThenInsert
      <4>2. task[t] \in Packet
        BY <1>0, <4>1, WorkingTask DEF Scopes
      <4>3. task'[t].at = task[t].at
        BY <1>0, <4>1, <4>2 DEF Packet, TablesTypeOK
      <4> QED BY <4>1, <4>3 DEF Scopes, Touching
    <3>3. CASE Check(t) \/ CheckBytes(t)
      <4>1. /\ task[t].at \in {"cohort", "peer", "bytes"}
            /\ Finishes(t) \/ \E at \in {"peer", "bytes", "clock"} : Goes(t, at)
        BY <3>3 DEF Check, CheckBytes, Scopes
      <4>2. CASE Finishes(t)
        BY <1>0, <4>2, FinishesType DEF Touching
      <4>3. ASSUME NEW at \in {"peer", "bytes", "clock"}, Goes(t, at) PROVE ~Touching(t)'
        <5>1. task'[t].at = at
          BY <1>0, <4>1, <4>3, GoesType
        <5> QED BY <5>1 DEF Touching
      <4> QED BY <4>1, <4>2, <4>3
    <3>4. CASE ReadClock(t)
      <4>1. task[t] \in Packet /\ task' = [task EXCEPT ![t].at = "touch", ![t].now = clock]
        BY <1>0, <3>4, WorkingTask DEF ReadClock
      <4>2. task'[t].at = "touch"
        BY <1>0, <4>1 DEF TablesTypeOK, Packet
      <4> QED BY <4>2 DEF Touching
    <3> QED BY <1>1, <3>1, <3>2, <3>3, <3>4
  <2> QED BY <1>0, <2>1, <2>2, <2>3, <2>4, AwayKeepsFlows
<1>2. ASSUME NEW t \in Tasks, TouchEnter(t) PROVE FlowInv'
  <2> DEFINE p == task[t].peer
  <2>1. /\ task[t].at = "touch" /\ lock[p] = NoLock /\ lock' = [lock EXCEPT ![p] = t]
        /\ flow' = [f \in DOMAIN flow \cup {p} |-> IF f \in DOMAIN flow THEN flow[f] ELSE NewFlowState]
        /\ Goes(t, "add") /\ ledger' = ledger
    BY <1>2 DEF TouchEnter
  <2>2. task[t] \in Packet /\ p \in Peers
    BY <1>0, <2>1, WorkingTask DEF Packet
  <2>3. task'[t].peer = p /\ \A u \in Tasks \ {t} : task'[u] = task[u]
    BY <1>0, <2>1, GoesType
  <2> HIDE DEF p
  <2>4. lock'[p] = t /\ \A q \in Peers \ {p} : lock'[q] = lock[q]
    BY <1>0, <2>1, <2>2 DEF TablesTypeOK
  <2>5. ASSUME NEW u \in Tasks, Touching(u)'
        PROVE lock'[task'[u].peer] = u /\ task'[u].peer \in DOMAIN flow'
    <3>1. CASE u = t
      BY <2>1, <2>3, <2>4, <3>1
    <3>2. CASE u # t
      <4>1. Touching(u) /\ task'[u] = task[u] /\ task[u].peer \in Peers
        BY <1>0, <2>3, <2>5, <3>2, WorkingTask DEF Touching, Packet
      <4>2. lock[task[u].peer] = u /\ task[u].peer \in DOMAIN flow
        BY <4>1 DEF FlowInv
      <4> QED BY <2>1, <2>4, <4>1, <4>2
    <3> QED BY <3>1, <3>2
  <2>6. BytesAccounted'
    <3> SUFFICES ASSUME NEW q \in Peers
                 PROVE ledger.touched[q] = ledger.retired[q]
                                           + (IF q \in DOMAIN flow' THEN flow'[q].bytes ELSE 0)
      BY <2>1 DEF BytesAccounted
    <3>1. ledger.touched[q] = ledger.retired[q] + (IF q \in DOMAIN flow THEN flow[q].bytes ELSE 0)
      BY DEF FlowInv, BytesAccounted
    <3>2. CASE q \in DOMAIN flow
      BY <2>1, <3>1, <3>2
    <3>3. CASE q \notin DOMAIN flow /\ q = p
      BY <2>1, <3>1, <3>3 DEF NewFlowState
    <3>4. CASE q \notin DOMAIN flow /\ q # p
      BY <2>1, <3>1, <3>4
    <3> QED BY <3>2, <3>3, <3>4
  <2> QED BY <1>0, <2>5, <2>6 DEF FlowInv
<1>3. ASSUME NEW t \in Tasks, TouchAdd(t) PROVE FlowInv'
  <2> DEFINE p == task[t].peer
             n == task[t].size
  <2>1. /\ task[t].at = "add" /\ Goes(t, "stamp") /\ lock' = lock
        /\ flow' = IF p \in DOMAIN flow THEN [flow EXCEPT ![p].bytes = @ + n] ELSE flow
        /\ ledger' = [ledger EXCEPT !.touched[p] = @ + n]
    BY <1>3 DEF TouchAdd
  <2>2. task[t] \in Packet /\ p \in Peers /\ n \in Nat
    BY <1>0, <2>1, WorkingTask DEF Packet
  <2>3. task'[t].peer = p /\ \A u \in Tasks \ {t} : task'[u] = task[u]
    BY <1>0, <2>1, GoesType
  <2>4. lock[p] = t /\ p \in DOMAIN flow
    BY <2>1 DEF FlowInv, Touching
  <2> HIDE DEF p, n
  <2>5. flow' = [flow EXCEPT ![p].bytes = @ + n]
    BY <2>1, <2>4
  <2>6. DOMAIN flow' = DOMAIN flow /\ \A f \in DOMAIN flow : f # p => flow'[f] = flow[f]
    BY <2>5
  <2>7. flow[p] \in [bytes : Nat, last_seen : 0..MaxClock] /\ ledger \in Ledger
    BY <1>0, <2>4 DEF TablesTypeOK
  <2>8. flow'[p].bytes = flow[p].bytes + n
    BY <2>4, <2>5, <2>7
  <2>9. /\ ledger'.touched[p] = ledger.touched[p] + n /\ ledger'.retired = ledger.retired
        /\ \A q \in Peers \ {p} : ledger'.touched[q] = ledger.touched[q]
    BY <2>1, <2>2, <2>7 DEF Ledger
  <2>10. BytesAccounted'
    <3> SUFFICES ASSUME NEW q \in Peers
                 PROVE ledger'.touched[q] = ledger.retired[q]
                                           + (IF q \in DOMAIN flow THEN flow'[q].bytes ELSE 0)
      BY <2>6, <2>9 DEF BytesAccounted
    <3>1. ledger.touched[q] = ledger.retired[q] + (IF q \in DOMAIN flow THEN flow[q].bytes ELSE 0)
      BY DEF FlowInv, BytesAccounted
    <3>2. CASE q = p
      <4>1. ledger.retired[p] \in Nat /\ flow[p].bytes \in Nat
        BY <2>2, <2>7 DEF Ledger
      <4> QED BY <2>2, <2>4, <2>8, <2>9, <3>1, <3>2, <4>1
    <3>3. CASE q # p
      BY <2>6, <2>9, <3>1, <3>3
    <3> QED BY <3>2, <3>3
  <2>11. \A u \in Tasks : Touching(u)' => lock'[task'[u].peer] = u /\ task'[u].peer \in DOMAIN flow'
    BY <2>1, <2>3, <2>4, <2>6 DEF FlowInv, Touching
  <2> QED BY <1>0, <2>10, <2>11 DEF FlowInv
<1>4. ASSUME NEW t \in Tasks, TouchStamp(t) PROVE FlowInv'
  <2> DEFINE p == task[t].peer
  <2>1. /\ task[t].at = "stamp" /\ Finishes(t) /\ lock' = [lock EXCEPT ![p] = NoLock]
        /\ flow' = IF p \in DOMAIN flow THEN [flow EXCEPT ![p].last_seen = task[t].now] ELSE flow
        /\ ledger' = ledger
    BY <1>4 DEF TouchStamp
  <2>2. task[t] \in Packet /\ p \in Peers
    BY <1>0, <2>1, WorkingTask DEF Packet
  <2>3. task'[t].at = "idle" /\ \A u \in Tasks \ {t} : task'[u] = task[u]
    BY <1>0, <2>1, FinishesType
  <2>4. lock[p] = t /\ p \in DOMAIN flow
    BY <2>1 DEF FlowInv, Touching
  <2> HIDE DEF p
  <2>5. flow' = [flow EXCEPT ![p].last_seen = task[t].now]
    BY <2>1, <2>4
  <2>6. DOMAIN flow' = DOMAIN flow /\ \A f \in DOMAIN flow : f # p => flow'[f] = flow[f]
    BY <2>5
  <2>7. flow[p] \in [bytes : Nat, last_seen : 0..MaxClock]
    BY <1>0, <2>4 DEF TablesTypeOK
  <2>8. flow'[p].bytes = flow[p].bytes
    BY <2>4, <2>5, <2>7
  <2>9. BytesAccounted'
    BY <2>1, <2>6, <2>8 DEF FlowInv, BytesAccounted
  <2>10. ASSUME NEW u \in Tasks, Touching(u)'
         PROVE lock'[task'[u].peer] = u /\ task'[u].peer \in DOMAIN flow'
    <3>1. u # t /\ task'[u] = task[u] /\ Touching(u)
      BY <2>3, <2>10 DEF Touching
    <3>2. lock[task[u].peer] = u /\ task[u].peer \in DOMAIN flow
      BY <3>1 DEF FlowInv
    <3>3. task[u].peer # p /\ task[u].peer \in Peers
      BY <1>0, <2>4, <3>1, <3>2, WorkingTask DEF Touching, Packet
    <3> QED BY <1>0, <2>1, <2>6, <3>1, <3>2, <3>3 DEF TablesTypeOK
  <2> QED BY <1>0, <2>9, <2>10 DEF FlowInv
<1>5. ASSUME NEW p \in Peers, GcRetains(p) PROVE FlowInv'
  <2> DEFINE drop == p \in DOMAIN flow /\ flow[p].last_seen < sweep.cutoff
  <2>1. /\ lock[p] = NoLock
        /\ flow' = [f \in DOMAIN flow \ (IF drop THEN {p} ELSE {}) |-> flow[f]]
        /\ ledger' = IF drop THEN [ledger EXCEPT !.retired[p] = @ + flow[p].bytes] ELSE ledger
        /\ UNCHANGED <<lock, task>>
    BY <1>5 DEF GcRetains, Unlocked
  <2>2. drop => p \in DOMAIN flow
    OBVIOUS
  <2> HIDE DEF drop
  <2>3. CASE ~drop
    <3>1. DOMAIN flow' = DOMAIN flow /\ \A f \in DOMAIN flow : flow'[f] = flow[f]
      BY <2>1, <2>3
    <3>2. ledger' = ledger
      BY <2>1, <2>3
    <3> QED BY <1>0, <2>1, <3>1, <3>2 DEF FlowInv, BytesAccounted, Touching
  <2>4. CASE drop
    <3>1. DOMAIN flow' = DOMAIN flow \ {p} /\ \A f \in DOMAIN flow \ {p} : flow'[f] = flow[f]
      BY <2>1, <2>4
    <3>2. p \in DOMAIN flow /\ flow[p].bytes \in Nat /\ ledger \in Ledger
      BY <1>0, <2>2, <2>4 DEF TablesTypeOK
    <3>3. /\ ledger'.retired[p] = ledger.retired[p] + flow[p].bytes /\ ledger'.touched = ledger.touched
          /\ \A q \in Peers \ {p} : ledger'.retired[q] = ledger.retired[q]
      BY <2>1, <2>4, <3>2 DEF Ledger
    <3>4. BytesAccounted'
      <4> SUFFICES ASSUME NEW q \in Peers
                   PROVE ledger.touched[q] = ledger'.retired[q]
                                             + (IF q \in DOMAIN flow' THEN flow'[q].bytes ELSE 0)
        BY <3>3 DEF BytesAccounted
      <4>1. ledger.touched[q] = ledger.retired[q] + (IF q \in DOMAIN flow THEN flow[q].bytes ELSE 0)
        BY DEF FlowInv, BytesAccounted
      <4>2. CASE q = p
        <5>1. ledger.retired[p] \in Nat
          BY <3>2 DEF Ledger
        <5> QED BY <3>1, <3>2, <3>3, <4>1, <4>2, <5>1
      <4>3. CASE q # p
        BY <3>1, <3>3, <4>1, <4>3
      <4> QED BY <4>2, <4>3
    <3>5. \A u \in Tasks : Touching(u) => lock[task[u].peer] = u /\ task[u].peer \in DOMAIN flow'
      BY <2>1, <3>1 DEF FlowInv
    <3> QED BY <1>0, <2>1, <3>4, <3>5 DEF FlowInv, Touching
  <2> QED BY <2>3, <2>4
<1>6. CASE UNCHANGED <<flow, lock, task, ledger>>
  BY <1>0, <1>6, AwayKeepsFlows
<1> QED
  BY <1>1, <1>2, <1>3, <1>4, <1>5, <1>6 DEF TablesNext, tableVars, SwapTo, GcStarts, Tick

\* No counted byte is lost to the sweep: what the tasks have added to a flow is in the table or
\* left it in the flow that gc took out.
THEOREM BytesHeld == TablesSpec => []BytesAccounted
<1>1. TablesInit => FlowInv
  <2> SUFFICES ASSUME TablesInit PROVE FlowInv
    OBVIOUS
  <2>1. \A t \in Tasks : task[t].at = "idle"
    BY DEF TablesInit, Idle
  <2> QED BY <2>1, TablesStart DEF TablesInit, FlowInv, BytesAccounted, Touching
<1>2. FlowInv => BytesAccounted
  BY DEF FlowInv
<1> QED BY <1>1, <1>2, FlowStep, PTL DEF TablesSpec

-----------------------------------------------------------------------------
(* Rates                                                                   *)

\* One burst more for one second more.
LEMMA NextBurst ==
    ASSUME NEW rate \in Nat, NEW n \in Nat
    PROVE  rate * (n + 1) \in Nat /\ rate <= rate * (n + 1)
           /\ rate * (n + 1 + 1) = rate * (n + 1) + rate
<1>1. rate * n \in Nat
  BY SMT
<1>2. rate * (n + 1) = rate * n + rate /\ rate * (n + 1 + 1) = rate * n + rate + rate
  BY SMT
<1> QED BY <1>1, <1>2

\* What a limiter or a session has let through and what it still lets through add up to at most
\* one burst per second begun; the bound alone is not kept by a charge.  It holds of a key
\* because the key has one limiter, however many tasks found none, and shares it with no other.
QuotaInv ==
    /\ TablesTypeOK
    /\ \A p \in Peers : ledger.bytes[p] + budget[p] <= Bps * (clock + 1)
    /\ \A k \in Keys \ DOMAIN limiter : ledger.passed[k] = 0
    /\ \A k, m \in DOMAIN limiter : limiter[k] = limiter[m] => k = m
    /\ \A k \in DOMAIN limiter : ledger.passed[k] + cells[limiter[k]] <= Pps * (clock + 1)

LEMMA QuotaTypes ==
    ASSUME TablesTypeOK
    PROVE  /\ clock \in Nat /\ Pps \in Nat /\ Bps \in Nat
           /\ \A p \in Peers : ledger.bytes[p] \in Nat /\ budget[p] \in 0..Bps
           /\ \A k \in Keys : ledger.passed[k] \in Nat
           /\ \A k \in DOMAIN limiter : k \in Keys /\ limiter[k] \in 1..Len(cells)
                                        /\ cells[limiter[k]] \in 0..Pps
           /\ Len(cells) \in Nat
<1>1. /\ ledger \in Ledger /\ cells \in Seq(0..Pps) /\ clock \in 0..MaxClock
      /\ budget \in [Peers -> 0..Bps]
      /\ \A k \in DOMAIN limiter : k \in Keys /\ limiter[k] \in 1..Len(cells)
  BY DEF TablesTypeOK
<1>2. ASSUME NEW l \in 1..Len(cells) PROVE cells[l] \in 0..Pps
  <2>1. cells \in Seq(0..Pps) /\ Pps \in Nat
    BY <1>1, QuotaAssumption
  <2> QED BY <2>1
<1>3. Pps \in Nat /\ Bps \in Nat /\ Len(cells) \in Nat
  BY <1>1, QuotaAssumption
<1> QED BY <1>1, <1>2, <1>3, TablesBounds DEF Ledger

LEMMA QuotaStep == QuotaInv /\ [TablesNext]_tableVars => QuotaInv'
<1> SUFFICES ASSUME QuotaInv, [TablesNext]_tableVars PROVE QuotaInv'
  OBVIOUS
<1>0. TablesTypeOK /\ TablesTypeOK'
  BY TablesStep DEF QuotaInv
<1>1. ASSUME UNCHANGED <<clock, limiter, cells, budget>>, ledger'.passed = ledger.passed,
             ledger'.bytes = ledger.bytes
      PROVE  QuotaInv'
  BY <1>0, <1>1 DEF QuotaInv
<1>2. ASSUME NEW t \in Tasks, Arrive(t) \/ TouchAdd(t) PROVE QuotaInv'
  <2>1. ledger \in Ledger
    BY <1>0 DEF TablesTypeOK
  <2>2. ledger'.passed = ledger.passed /\ ledger'.bytes = ledger.bytes
    BY <1>2, <2>1 DEF Arrive, TouchAdd, Ledger
  <2> QED BY <1>1, <1>2, <2>2 DEF Arrive, TouchAdd
<1>3. ASSUME NEW p \in Peers, GcRetains(p) PROVE QuotaInv'
  <2>1. ledger \in Ledger
    BY <1>0 DEF TablesTypeOK
  <2>2. ledger' = ledger \/ ledger' = [ledger EXCEPT !.retired[p] = @ + flow[p].bytes]
    BY <1>3 DEF GcRetains
  <2>3. ledger'.passed = ledger.passed /\ ledger'.bytes = ledger.bytes
    BY <2>1, <2>2 DEF Ledger
  <2> QED BY <1>1, <1>3, <2>3 DEF GcRetains
<1>4. ASSUME NEW t \in Tasks, Lookup(t) PROVE QuotaInv'
  <2>1. UNCHANGED <<clock, budget, ledger>> /\ task[t].at \in Scopes
    BY <1>4 DEF Lookup, MissThenInsert
  <2>2. CASE UNCHANGED <<limiter, cells>>
    BY <1>1, <2>1, <2>2
  <2>3. CASE /\ Key(t) \notin DOMAIN limiter
             /\ limiter' = [k \in DOMAIN limiter \cup {Key(t)} |->
                               IF k = Key(t) THEN Len(cells) + 1 ELSE limiter[k]]
             /\ cells' = Append(cells, Pps)
    <3> DEFINE key == Key(t)
    <3>1. key \in Keys
      BY <1>0, <2>1, KeyType
    <3> HIDE DEF key
    <3>2. /\ DOMAIN limiter' = DOMAIN limiter \cup {key} /\ limiter'[key] = Len(cells) + 1
          /\ \A k \in DOMAIN limiter : limiter'[k] = limiter[k]
      BY <2>3 DEF key
    <3>3. /\ cells'[Len(cells) + 1] = Pps
          /\ \A l \in 1..Len(cells) : cells'[l] = cells[l]
      BY <1>0, <2>3, QuotaTypes DEF TablesTypeOK
    <3>4. \A k, m \in DOMAIN limiter' : limiter'[k] = limiter'[m] => k = m
      BY <1>0, <3>2, QuotaTypes DEF QuotaInv
    <3>5. \A k \in DOMAIN limiter' : ledger.passed[k] + cells'[limiter'[k]] <= Pps * (clock + 1)
      <4>1. CASE TRUE
        <5>1. ledger.passed[key] = 0 /\ Pps <= Pps * (clock + 1)
          BY <1>0, <2>3, <3>1, QuotaTypes, NextBurst DEF QuotaInv, key
        <5>2. ledger.passed[key] + cells'[limiter'[key]] <= Pps * (clock + 1)
          BY <1>0, <3>2, <3>3, <5>1, QuotaTypes
        <5>3. \A k \in DOMAIN limiter : ledger.passed[k] + cells'[limiter'[k]] <= Pps * (clock + 1)
          BY <1>0, <3>2, <3>3, QuotaTypes DEF QuotaInv
        <5> QED BY <3>2, <5>2, <5>3
      <4> QED BY <4>1
    <3> QED BY <1>0, <2>1, <3>2, <3>4, <3>5 DEF QuotaInv
  <2> QED BY <1>4, <2>2, <2>3 DEF Lookup, MissThenInsert, Insert
<1>5. ASSUME NEW t \in Tasks, Check(t) PROVE QuotaInv'
  <2>1. task[t].at \in Scopes /\ Key(t) \in DOMAIN limiter /\ UNCHANGED <<clock, limiter, budget>>
    BY <1>5 DEF Check
  <2>2. CASE UNCHANGED <<cells, ledger>>
    BY <1>1, <2>1, <2>2
  <2>3. CASE cells[limiter[Key(t)]] # 0
    <3> DEFINE key == Key(t)
               l == limiter[key]
    <3>1. key \in DOMAIN limiter /\ key \in Keys /\ l \in 1..Len(cells)
      BY <1>0, <2>1, QuotaTypes
    <3>2. cells' = [cells EXCEPT ![l] = @ - 1]
      BY <1>5, <2>3 DEF Check
    <3>3. PICK extra \in {0, 1} : ledger' = [ledger EXCEPT !.passed[key] = @ + 1, !.late = @ + extra]
      BY <1>5, <2>3 DEF Check
    <3> HIDE DEF key
    <3>4. /\ cells'[l] = cells[l] - 1 /\ \A m \in 1..Len(cells) \ {l} : cells'[m] = cells[m]
      BY <1>0, <2>3, <3>1, <3>2, CellSpent DEF key
    <3>5. /\ ledger'.passed = [ledger.passed EXCEPT ![key] = @ + 1] /\ ledger'.bytes = ledger.bytes
      BY <1>0, <3>3 DEF TablesTypeOK, Ledger
    <3>6. /\ ledger'.passed[key] = ledger.passed[key] + 1
          /\ \A k \in Keys \ {key} : ledger'.passed[k] = ledger.passed[k]
      BY <1>0, <3>1, <3>5 DEF TablesTypeOK, Ledger
    <3>7. ASSUME NEW k \in DOMAIN limiter
          PROVE ledger'.passed[k] + cells'[limiter[k]] <= Pps * (clock + 1)
      <4>1. /\ k \in Keys /\ limiter[k] \in 1..Len(cells) /\ ledger.passed[k] \in Nat
            /\ cells[limiter[k]] \in Nat
        BY <1>0, QuotaTypes
      <4>2. ledger.passed[k] + cells[limiter[k]] <= Pps * (clock + 1)
        BY DEF QuotaInv
      <4>3. CASE k = key
        <5>1. ledger'.passed[k] + cells'[limiter[k]] = ledger.passed[k] + cells[limiter[k]]
          BY <3>4, <3>6, <4>1, <4>3
        <5> QED BY <4>2, <5>1
      <4>4. CASE k # key
        <5>1. limiter[k] # l
          BY <3>1, <4>4 DEF QuotaInv
        <5> QED BY <3>4, <3>6, <4>1, <4>2, <4>4, <5>1
      <4> QED BY <4>3, <4>4
    <3>8. \A k \in Keys \ DOMAIN limiter : ledger'.passed[k] = 0
      BY <3>1, <3>6 DEF QuotaInv
    <3> QED BY <1>0, <2>1, <3>5, <3>7, <3>8 DEF QuotaInv
  <2> QED BY <1>5, <2>2, <2>3 DEF Check
<1>6. ASSUME NEW t \in Tasks, CheckBytes(t) PROVE QuotaInv'
  <2>1. task[t].at = "bytes" /\ UNCHANGED <<clock, limiter, cells>>
    BY <1>6 DEF CheckBytes
  <2>2. CASE UNCHANGED <<budget, ledger>>
    BY <1>1, <2>1, <2>2
  <2>3. CASE /\ WithinBudget(task[t].peer, task[t].size)
             /\ budget' = [budget EXCEPT ![task[t].peer] = @ - task[t].size]
             /\ ledger' = [ledger EXCEPT !.bytes[task[t].peer] = @ + task[t].size]
    <3> DEFINE p == task[t].peer
               n == task[t].size
    <3>1. p \in Peers /\ n \in Nat
      BY <1>0, <2>1, WorkingTask, QuotaAssumption DEF Packet
    <3> HIDE DEF p, n
    <3>2. budget'[p] = budget[p] - n /\ \A q \in Peers \ {p} : budget'[q] = budget[q]
      BY <1>0, <2>3, <3>1 DEF TablesTypeOK, p, n
    <3>3. ledger'.bytes = [ledger.bytes EXCEPT ![p] = @ + n] /\ ledger'.passed = ledger.passed
      BY <1>0, <2>3 DEF TablesTypeOK, Ledger, p, n
    <3>4. ledger'.bytes[p] = ledger.bytes[p] + n
          /\ \A q \in Peers \ {p} : ledger'.bytes[q] = ledger.bytes[q]
      BY <1>0, <3>1, <3>3 DEF TablesTypeOK, Ledger
    <3>5. \A q \in Peers : ledger'.bytes[q] + budget'[q] = ledger.bytes[q] + budget[q]
      <4>1. \A q \in Peers : ledger.bytes[q] \in Nat /\ budget[q] \in Nat
        BY <1>0, QuotaTypes
      <4>2. ledger'.bytes[p] + budget'[p] = ledger.bytes[p] + budget[p]
        BY <3>1, <3>2, <3>4, <4>1
      <4> QED BY <3>2, <3>4, <4>2
    <3> QED BY <1>0, <2>1, <3>3, <3>5 DEF QuotaInv
  <2> QED BY <1>6, <2>2, <2>3 DEF CheckBytes
<1>7. CASE Tick
  <2>1. /\ clock' = clock + 1 /\ UNCHANGED <<limiter, ledger>>
        /\ cells' = [l \in DOMAIN cells |-> Pps] /\ budget' = [p \in Peers |-> Bps]
    BY <1>7 DEF Tick
  <2>2. DOMAIN cells = 1..Len(cells)
    BY <1>0 DEF TablesTypeOK
  <2>3. ASSUME NEW p \in Peers PROVE ledger.bytes[p] + Bps <= Bps * (clock + 1 + 1)
    <3>1. ledger.bytes[p] <= Bps * (clock + 1)
      BY <1>0, QuotaTypes, NextBurst DEF QuotaInv
    <3> QED BY <1>0, <3>1, QuotaTypes, NextBurst
  <2>4. ASSUME NEW k \in DOMAIN limiter PROVE ledger.passed[k] + Pps <= Pps * (clock + 1 + 1)
    <3>1. ledger.passed[k] \in Nat /\ cells[limiter[k]] \in Nat
      BY <1>0, QuotaTypes
    <3>2. ledger.passed[k] <= Pps * (clock + 1)
      BY <1>0, <3>1, QuotaTypes, NextBurst DEF QuotaInv
    <3> QED BY <1>0, <3>1, <3>2, QuotaTypes, NextBurst
  <2>5. \A k \in DOMAIN limiter : cells'[limiter[k]] = Pps
    BY <1>0, <2>1, <2>2, QuotaTypes
  <2> QED BY <1>0, <2>1, <2>3, <2>4, <2>5 DEF QuotaInv
<1>8. CASE UNCHANGED <<clock, limiter, cells, budget, ledger>>
  BY <1>1, <1>8
<1> QED
  BY <1>2, <1>3, <1>4, <1>5, <1>6, <1>7, <1>8
  DEF TablesNext, tableVars, SwapTo, GcStarts, ReadClock, TouchEnter, TouchStamp

\* No key and no session gets more than one burst per second begun, however many tasks look a
\* limiter up for the first time at once.
THEOREM RatesHold == TablesSpec => []WithinQuota
<1>1. TablesInit => QuotaInv
  <2> SUFFICES ASSUME TablesInit PROVE QuotaInv
    OBVIOUS
  <2>1. clock = 0 /\ Bps \in Nat /\ Bps <= Bps * (0 + 1)
    BY QuotaAssumption, NextBurst DEF TablesInit
  <2>2. DOMAIN limiter = {} /\ ledger.passed = [k \in Keys |-> 0]
        /\ ledger.bytes = [p \in Peers |-> 0] /\ budget = [p \in Peers |-> Bps]
    BY DEF TablesInit
  <2> QED BY <2>1, <2>2, TablesStart DEF QuotaInv
<1>2. QuotaInv => WithinQuota
  <2> SUFFICES ASSUME QuotaInv PROVE WithinQuota
    OBVIOUS
  <2>0. TablesTypeOK
    BY DEF QuotaInv
  <2>1. \A p \in Peers : ledger.bytes[p] <= Bps * (clock + 1)
    BY <2>0, QuotaTypes, NextBurst DEF QuotaInv
  <2>2. ASSUME NEW k \in Keys PROVE ledger.passed[k] <= Pps * (clock + 1)
    <3>1. CASE k \in DOMAIN limiter
      <4>1. ledger.passed[k] \in Nat /\ cells[limiter[k]] \in Nat
        BY <2>0, <3>1, QuotaTypes
      <4>2. ledger.passed[k] + cells[limiter[k]] <= Pps * (clock + 1)
        BY <3>1 DEF QuotaInv
      <4>3. clock \in Nat /\ Pps \in Nat /\ Pps * (clock + 1) \in Nat
        BY <2>0, QuotaTypes, NextBurst
      <4> QED BY <4>1, <4>2, <4>3
    <3>2. CASE k \notin DOMAIN limiter
      BY <2>0, <3>2, QuotaTypes, NextBurst DEF QuotaInv
    <3> QED BY <3>1, <3>2
  <2> QED BY <2>1, <2>2 DEF WithinQuota
<1> QED BY <1>1, <1>2, QuotaStep, PTL DEF TablesSpec

-----------------------------------------------------------------------------
(* Charges to an earlier cohort                                            *)

\* The tasks whose packet is still to be charged to a cohort that is no longer the active one.
Stranded == {t \in Tasks : task[t].at = "cohort" /\ task[t].cohort # active}

\* A rotation may strand the packet of every task, and a late charge uses one up.
StaleInv ==
    /\ TablesTypeOK
    /\ ledger.late + Cardinality(Stranded) <= Cardinality(Tasks) * rotations

LEMMA StrandedFinite ==
    ASSUME NEW S \in SUBSET Tasks
    PROVE  IsFiniteSet(S) /\ Cardinality(S) \in Nat /\ Cardinality(S) <= Cardinality(Tasks)
           /\ Cardinality(Tasks) \in Nat
BY TablesBounds, FS_Subset, FS_CardinalityType

\* Only a swap strands anybody.
LEMMA NobodyStranded ==
    ASSUME StaleInv, TablesTypeOK', active' = active, rotations' = rotations,
           ledger'.late = ledger.late,
           \A t \in Tasks : task'[t].at = "cohort" =>
               \/ task'[t].cohort = active
               \/ task[t].at = "cohort" /\ task'[t].cohort = task[t].cohort
    PROVE  StaleInv'
<1>1. Stranded' \subseteq Stranded /\ Stranded \subseteq Tasks
  BY DEF Stranded
<1>2. /\ Cardinality(Stranded') \in Nat /\ Cardinality(Stranded) \in Nat
      /\ Cardinality(Stranded') <= Cardinality(Stranded)
  BY <1>1, StrandedFinite, FS_Subset, FS_CardinalityType
<1>3. ledger.late \in Nat /\ rotations \in Nat /\ Cardinality(Tasks) \in Nat
  BY StrandedFinite DEF StaleInv, TablesTypeOK, Ledger
<1>4. Cardinality(Tasks) * rotations \in Int
  BY <1>3
<1> QED BY <1>2, <1>3, <1>4 DEF StaleInv

LEMMA StaleStep == StaleInv /\ [TablesNext]_tableVars => StaleInv'
<1> SUFFICES ASSUME StaleInv, [TablesNext]_tableVars PROVE StaleInv'
  OBVIOUS
<1>0. TablesTypeOK /\ TablesTypeOK'
  BY TablesStep DEF StaleInv
<1>1. ledger \in Ledger /\ rotations \in Nat
  BY <1>0 DEF TablesTypeOK
<1>2. ASSUME NEW t \in Tasks, Arrive(t) PROVE StaleInv'
  <2>1. UNCHANGED <<active, rotations>> /\ ledger'.late = ledger.late
    BY <1>1, <1>2 DEF Arrive, Ledger
  <2>2. task'[t].cohort = active /\ \A u \in Tasks \ {t} : task'[u] = task[u]
    BY <1>0, <1>2 DEF Arrive, CurrentCohort, TablesTypeOK
  <2>3. \A u \in Tasks : task'[u].cohort = active \/ task'[u] = task[u]
    BY <2>2
  <2>4. \A u \in Tasks : task'[u].at = "cohort" =>
            \/ task'[u].cohort = active
            \/ task[u].at = "cohort" /\ task'[u].cohort = task[u].cohort
    BY <2>3
  <2> QED BY <1>0, <2>1, <2>4, NobodyStranded
<1>3. ASSUME NEW t \in Tasks, Lookup(t) PROVE StaleInv'
  <2>1. task[t].at \in Scopes /\ \E have \in BOOLEAN : task' = [task EXCEPT ![t].have = have]
    BY <1>3 DEF Lookup, MissThenInsert
  <2>2. task[t] \in Packet
    BY <1>0, <2>1, WorkingTask DEF Scopes
  <2>3. /\ task'[t].at = task[t].at /\ task'[t].cohort = task[t].cohort
        /\ \A u \in Tasks \ {t} : task'[u] = task[u]
    BY <1>0, <2>1, <2>2 DEF Packet, TablesTypeOK
  <2> QED BY <1>0, <1>3, <2>3, NobodyStranded DEF Lookup
<1>4. ASSUME NEW t \in Tasks, Check(t) PROVE StaleInv'
  <2>1. task[t].at \in Scopes /\ UNCHANGED <<active, rotations>>
    BY <1>4 DEF Check
  <2>2. CASE Finishes(t) /\ ledger' = ledger
    BY <1>0, <2>1, <2>2, FinishesType, NobodyStranded
  <2>3. CASE cells[limiter[Key(t)]] # 0
    <3>1. PICK at \in {"peer", "bytes"} : Goes(t, at)
      BY <1>4, <2>3 DEF Check
    <3>2. task'[t].at = at /\ \A u \in Tasks \ {t} : task'[u] = task[u]
      BY <1>0, <2>1, <3>1, GoesType DEF Scopes
    <3> DEFINE extra == IF task[t].at = "cohort" /\ task[t].cohort # active THEN 1 ELSE 0
    <3>3. ledger' = [ledger EXCEPT !.passed[Key(t)] = @ + 1, !.late = @ + extra]
      BY <1>4, <2>3 DEF Check
    <3>4. ledger'.late = ledger.late + extra /\ ledger.late \in Nat
      BY <1>1, <3>3 DEF Ledger
    <3>5. CASE t \notin Stranded
      <4>1. extra = 0
        BY <3>5 DEF Stranded
      <4>2. ledger'.late = ledger.late
        BY <3>4, <4>1
      <4> QED BY <1>0, <2>1, <3>2, <4>2, NobodyStranded
    <3>6. CASE t \in Stranded
      <4>1. extra = 1
        BY <3>6 DEF Stranded
      <4>2. Stranded' = Stranded \ {t} /\ Stranded \subseteq Tasks
        BY <2>1, <3>2 DEF Stranded
      <4>3. Cardinality(Stranded \ {t}) = Cardinality(Stranded) - 1 /\ Cardinality(Stranded) \in Nat
        BY <3>6, <4>2, StrandedFinite, FS_RemoveElement
      <4>4. ledger'.late + Cardinality(Stranded') = ledger.late + Cardinality(Stranded)
        BY <3>4, <4>1, <4>2, <4>3
      <4> QED BY <1>0, <2>1, <4>4 DEF StaleInv
    <3> QED BY <3>5, <3>6
  <2> QED BY <1>4, <2>2, <2>3 DEF Check
<1>5. ASSUME NEW t \in Tasks, CheckBytes(t) \/ ReadClock(t) \/ TouchEnter(t) \/ TouchAdd(t) \/ TouchStamp(t)
      PROVE  StaleInv'
  <2>1. UNCHANGED <<active, rotations>> /\ ledger'.late = ledger.late
    BY <1>1, <1>5 DEF CheckBytes, ReadClock, TouchEnter, TouchAdd, TouchStamp, Ledger
  <2>2. task'[t].at # "cohort" /\ \A u \in Tasks \ {t} : task'[u] = task[u]
    <3>1. CASE ReadClock(t)
      <4>1. task[t] \in Packet /\ task' = [task EXCEPT ![t].at = "touch", ![t].now = clock]
        BY <1>0, <3>1, WorkingTask DEF ReadClock
      <4> QED BY <1>0, <4>1 DEF TablesTypeOK, Packet
    <3>2. CASE Finishes(t)
      BY <1>0, <3>2, FinishesType
    <3>3. ASSUME task[t].at # "idle", NEW at \in {"clock", "add", "stamp"}, Goes(t, at)
          PROVE task'[t].at # "cohort" /\ \A u \in Tasks \ {t} : task'[u] = task[u]
      <4>1. task'[t].at = at /\ \A u \in Tasks \ {t} : task'[u] = task[u]
        BY <1>0, <3>3, GoesType
      <4> QED BY <3>3, <4>1
    <3> QED BY <1>5, <3>1, <3>2, <3>3 DEF CheckBytes, TouchEnter, TouchAdd, TouchStamp
  <2> QED BY <1>0, <2>1, <2>2, NobodyStranded
<1>6. ASSUME NEW p \in Peers, GcRetains(p) PROVE StaleInv'
  <2>1. ledger' = ledger \/ ledger' = [ledger EXCEPT !.retired[p] = @ + flow[p].bytes]
    BY <1>6 DEF GcRetains
  <2>2. ledger'.late = ledger.late
    BY <1>1, <2>1 DEF Ledger
  <2> QED BY <1>0, <1>6, <2>2, NobodyStranded DEF GcRetains
<1>7. CASE SwapTo
  <2>1. rotations' = rotations + 1 /\ ledger' = ledger
    BY <1>7 DEF SwapTo
  <2>2. Stranded' \subseteq Tasks /\ Stranded \subseteq Tasks
    BY DEF Stranded
  <2> DEFINE n == Cardinality(Tasks)
  <2>3. /\ n \in Nat /\ Cardinality(Stranded') \in Nat /\ Cardinality(Stranded') <= n
        /\ Cardinality(Stranded) \in Nat /\ ledger.late \in Nat
    BY <1>1, <2>2, StrandedFinite DEF Ledger
  <2>4. ledger.late + Cardinality(Stranded) <= n * rotations
    BY DEF StaleInv
  <2> HIDE DEF n
  <2>5. n * (rotations + 1) = n * rotations + n /\ n * rotations \in Int
    BY <1>1, <2>3, SMT
  <2>6. ledger.late + Cardinality(Stranded') <= n * (rotations + 1)
    BY <2>3, <2>4, <2>5
  <2> QED BY <1>0, <2>1, <2>6 DEF StaleInv, n
<1>8. CASE UNCHANGED <<active, rotations, task, ledger>>
  BY <1>0, <1>8, NobodyStranded
<1> QED
  BY <1>2, <1>3, <1>4, <1>5, <1>6, <1>7, <1>8 DEF TablesNext, tableVars, GcStarts, Tick

\* A rotation leaves each task at most one packet that is still charged to an earlier cohort.
THEOREM LateCharges == TablesSpec => []StaleCharges
<1>1. TablesInit => StaleInv
  <2> SUFFICES ASSUME TablesInit PROVE StaleInv
    OBVIOUS
  <2>1. Stranded = {} /\ ledger.late = 0 /\ rotations = 0
    BY DEF TablesInit, Stranded, Idle
  <2>2. Cardinality(Tasks) \in Nat /\ Cardinality(Stranded) = 0
    BY <2>1, StrandedFinite, FS_EmptySet
  <2> QED BY <2>1, <2>2, TablesStart DEF StaleInv
<1>2. StaleInv => StaleCharges
  <2> SUFFICES ASSUME StaleInv PROVE StaleCharges
    OBVIOUS
  <2>1. Stranded \subseteq Tasks /\ ledger.late \in Nat /\ rotations \in Nat
    BY DEF StaleInv, TablesTypeOK, Ledger, Stranded
  <2>2. Cardinality(Stranded) \in Nat /\ Cardinality(Tasks) \in Nat
    BY <2>1, StrandedFinite
  <2>3. Cardinality(Tasks) * rotations \in Int
    BY <2>1, <2>2
  <2> QED BY <2>1, <2>2, <2>3 DEF StaleInv, StaleCharges
<1> QED BY <1>1, <1>2, StaleStep, PTL DEF TablesSpec
=============================================================================
